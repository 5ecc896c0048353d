----------------------------- MODULE WireFormats -----------------------------
(* The two binary formats of a node: the messages between parties            *)
(* (apps/mpc/src/transport/codec.ts) and the key shares it stores            *)
(* (apps/mpc/src/storage/share-serializer.ts).  The text of a payload and    *)
(* the ciphers are external: a text is its bytes, and a cipher a value that  *)
(* only its key and its input produce.                                       *)
EXTENDS ByteStrings

CONSTANTS
  ShareBytes,    \* 32: the width of a share
  CurveOrder,
  NoKeys,        \* a node without keys
  Refused        \* an exception
-----------------------------------------------------------------------------
(* Messages *)

Magic == <<77, 80, 67, 49>>

\* encryptPayload() and decryptPayload(): AES-GCM with a 12-byte vector and a
\* 16-byte tag around the text.
EncryptPayload(text, keys) ==
  Repeated(0, 12) \o [i \in DOMAIN text |-> (text[i] + keys.pad) % 256]
    \o Repeated([tagOf |-> text, by |-> keys], 16)
DecryptPayload(payload, keys) ==
  LET text == [i \in 1..(Len(payload) - 28) |->
                 (payload[i + 12] + 256 - keys.pad) % 256]
  IN  IF Last(payload) = [tagOf |-> text, by |-> keys] THEN text ELSE Refused

\* hmacSha256()
Hmac(keys, body) == Repeated([macOf |-> body, by |-> keys], 32)

\* encodeMessage()
EncodeMessage(msg, keys) ==
  LET payload == IF keys = NoKeys THEN msg.payload
                 ELSE EncryptPayload(msg.payload, keys)
      body == Magic \o <<msg.version, msg.type, IF keys = NoKeys THEN 0 ELSE 1>>
                \o BigEndian(Len(msg.sessionId), 2) \o msg.sessionId
                \o BigEndian(msg.sequence, 4) \o <<msg.from, msg.to>>
                \o BigEndian(msg.timestamp, 8)
                \o BigEndian(Len(payload), 4) \o payload
  IN  IF keys = NoKeys THEN body ELSE body \o Hmac(keys, body)

\* decodeMessage(): where the fields start depends on the session id, and the
\* code is compared only when the buffer has room for one behind the payload.
DecodeMessage(buf, keys) ==
  LET len == ValueOf(Slice(buf, 8, 2), 256)
      at == 10 + len
      payloadLen == ValueOf(Slice(buf, at + 14, 4), 256)
      end == at + 17 + payloadLen
      payload == Slice(buf, at + 18, payloadLen)
      text == IF buf[7] % 2 = 0 THEN payload
              ELSE IF keys = NoKeys THEN Refused ELSE DecryptPayload(payload, keys)
  IN  IF \/ Len(buf) < 5 \/ Slice(buf, 1, 4) # Magic
         \/ /\ keys # NoKeys /\ Len(buf) >= end + 32
            /\ Slice(buf, end + 1, 32) # Hmac(keys, SubSeq(buf, 1, end))
      THEN Refused
      ELSE IF text = Refused THEN Refused
      ELSE [version |-> buf[5], type |-> buf[6],
            sessionId |-> Slice(buf, 10, len),
            sequence |-> ValueOf(Slice(buf, at, 4), 256),
            from |-> buf[at + 4], to |-> buf[at + 5],
            timestamp |-> ValueOf(Slice(buf, at + 6, 8), 256),
            payload |-> text]
-----------------------------------------------------------------------------
(* Shares *)

\* serializeShare(): an absent chain code is an empty one.
SerializeShare(data) ==
  IF ~Fits(data.share, ShareBytes) THEN Refused ELSE
  <<data.version, data.partyIndex>>
    \o BigEndian(ShareBytes, 2) \o BigEndian(data.share, ShareBytes)
    \o <<Len(data.publicKey)>> \o data.publicKey
    \o <<Len(data.chainCode)>> \o data.chainCode

\* deserializeShare()
DeserializeShare(buf) ==
  LET len == ValueOf(Slice(buf, 3, 2), 256)
      share == ValueOf(Slice(buf, 5, len), 256)
      key == 5 + len
      code == key + 1 + buf[key]
  IN  IF buf[1] # 1 \/ share \notin 1..(CurveOrder - 1) THEN Refused
      ELSE [version |-> buf[1], partyIndex |-> buf[2], share |-> share,
            publicKey |-> Slice(buf, key + 1, buf[key]),
            chainCode |-> Slice(buf, code + 1, buf[code])]
=============================================================================
