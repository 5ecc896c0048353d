---------------------------- MODULE ShareCustody ----------------------------
(* Key shares at rest (apps/mpc/src/kms and apps/mpc/src/storage): a share is *)
(* encrypted under a key derived from a key of the provider and the share's   *)
(* context, `wallet:index`, and read back by the same derivation.  A master   *)
(* key is a number, drawn in the memory of the process; the local provider    *)
(* derives from it, the cloud providers derive from a data key that is stored *)
(* with the share, wrapped by it.  A share stands for its own context.        *)
EXTENDS Integers, Sequences

CONSTANTS
    Shares,             \* the shares, each standing for its context
    MaxAuditEntries,    \* maxEntries of the audit log
    MaxKeys, MaxEvents  \* bounds of the model: keys drawn, audited operations

VARIABLES
    provider,   \* the type of the provider in use
    key,        \* the master key of this process
    rows,       \* share -> the encrypted blob in its row, NoBlob if none
    loaded,     \* the last share asked for and what decryption returned
    audit,      \* the audit log, each entry standing for its place in time
    auditing,   \* enabled
    logged,     \* history: the entries logged since the log was cleared
    boot        \* history: the number of starts of the process

custodyVars == <<provider, key, rows, loaded, audit, auditing, logged, boot>>

NoBlob == [dek |-> "none"]
Providers == {"local", "aws-kms", "gcp-kms"}
Envelope == Providers \ {"local"}

\* deriveShareKey, with the salt that lies beside the ciphertext.
DeriveShareKey(k, context) == <<k, context>>

\* The cipher: a share opens under the key it was encrypted with, or not at all.
EncryptShare(s, k) == [under |-> k, of |-> s, boot |-> boot]
DecryptShare(blob, k) == IF blob.under = k THEN blob.of ELSE "failed"

\* The data key of a share, and the mask that the master key is for it.
DataKey(s) == [drawnFor |-> s]
EncryptDek(dek) == [dek |-> dek, mask |-> key]
DecryptDek(wrapped) ==
    IF wrapped.mask = key THEN wrapped.dek ELSE [masked |-> wrapped.dek]

\* The local provider derives from its master key.
LocalEncrypt(s) ==
    [share |-> EncryptShare(s, DeriveShareKey(key, s)), dek |-> "none"]
LocalDecrypt(blob, context) ==
    DecryptShare(blob.share, DeriveShareKey(key, context))

\* A cloud provider draws a data key, derives from it and wraps it.
EnvelopeEncrypt(s) ==
    [share |-> EncryptShare(s, DeriveShareKey(DataKey(s), s)),
     dek |-> EncryptDek(DataKey(s))]
EnvelopeDecrypt(blob, context) ==
    DecryptShare(blob.share, DeriveShareKey(DecryptDek(blob.dek), context))

\* What the provider in use reads from a blob for a context.
Opened(blob, context) ==
    IF provider = "local" THEN LocalDecrypt(blob, context)
                          ELSE EnvelopeDecrypt(blob, context)

\* entries.slice(-maxEntries) once there are more than maxEntries.
KeepsRecent(entries) ==
    IF Len(entries) <= MaxAuditEntries THEN entries
    ELSE SubSeq(entries, Len(entries) - MaxAuditEntries + 1, Len(entries))

\* AuditLogger.log; a disabled logger keeps nothing.
Log ==
    /\ logged < MaxEvents
    /\ audit' = IF auditing THEN KeepsRecent(Append(audit, logged + 1)) ELSE audit
    /\ logged' = IF auditing THEN logged + 1 ELSE logged

-----------------------------------------------------------------------------
CustodyInit ==
    /\ provider \in Providers
    /\ key = 1
    /\ rows = [s \in Shares |-> NoBlob]
    /\ loaded = << >>
    /\ audit = << >>
    /\ auditing = TRUE
    /\ logged = 0
    /\ boot = 1

\* encrypt, encodeShareForStorage: the blob replaces what the row held.
Encrypt(s) ==
    /\ rows' = [rows EXCEPT ![s] = IF provider = "local" THEN LocalEncrypt(s)
                                                         ELSE EnvelopeEncrypt(s)]
    /\ Log
    /\ UNCHANGED <<provider, key, loaded, auditing, boot>>

\* decrypt, decodeShareFromStorage, audited either way.
Decrypt(s) ==
    /\ rows[s] # NoBlob
    /\ loaded' = <<s, Opened(rows[s], s)>>
    /\ Log
    /\ UNCHANGED <<provider, key, rows, auditing, boot>>

\* Mutant of RotateCloudKey: the master key that wraps is drawn anew as well.
RotateWrappingKey ==
    /\ provider \in Envelope
    /\ key < MaxKeys /\ key' = key + 1
    /\ Log
    /\ UNCHANGED <<provider, rows, loaded, auditing, boot>>

\* rotateKey: a cloud provider leaves its key in place, the rotation being the
\* service's.
RotateCloudKey ==
    /\ provider \in Envelope
    /\ Log
    /\ UNCHANGED <<provider, key, rows, loaded, auditing, boot>>

\* The local provider draws a new key and zeroes the old one.
RotateKey ==
    /\ provider = "local"
    /\ key < MaxKeys /\ key' = key + 1
    /\ Log
    /\ UNCHANGED <<provider, rows, loaded, auditing, boot>>

\* A new process draws its master key, whichever provider it is.
Restart ==
    /\ key < MaxKeys
    /\ key' = key + 1
    /\ boot' = boot + 1
    /\ loaded' = << >>
    /\ audit' = << >> /\ auditing' = TRUE /\ logged' = 0
    /\ UNCHANGED <<provider, rows>>

\* The storage returns a row under the name of another one.
Misplace(s, t) ==
    /\ rows' = [rows EXCEPT ![s] = rows[t], ![t] = rows[s]]
    /\ UNCHANGED <<provider, key, loaded, audit, auditing, logged, boot>>

\* enable, disable and clear of the audit log.
SetAuditing ==
    /\ auditing' \in BOOLEAN
    /\ UNCHANGED <<provider, key, rows, loaded, audit, logged, boot>>

ClearAudit ==
    /\ audit' = << >> /\ logged' = 0
    /\ UNCHANGED <<provider, key, rows, loaded, auditing, boot>>

CustodyNext ==
    \/ \E s \in Shares : Encrypt(s) \/ Decrypt(s)
    \/ RotateKey
    \/ RotateCloudKey
    \/ Restart
    \/ \E s, t \in Shares : Misplace(s, t)
    \/ SetAuditing
    \/ ClearAudit

CustodySpec == CustodyInit /\ [][CustodyNext]_custodyVars

-----------------------------------------------------------------------------
(* Properties *)

\* What a load returns is the share that was asked for, or a failure: neither a
\* row in the wrong place nor a key drawn since makes it another share.
LoadedShareIsOwn == loaded # << >> => loaded[2] \in {loaded[1], "failed"}

\* A share that the running process encrypted with a cloud provider and that is
\* in its place can be read back, however often the key was rotated since
\* (aws.ts and gcp.ts, rotateKey).
EnvelopeOutlivesRotation ==
    provider \in Envelope =>
        \A s \in Shares :
            rows[s] # NoBlob => LET share == rows[s].share IN
                share.of = s /\ share.boot = boot => Opened(rows[s], s) = s

=============================================================================
