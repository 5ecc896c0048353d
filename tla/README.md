# Verification of the Meluri MPC wallet

TLA+ models of the MPC wallet in `src/`, checked with TLC and, where marked,
proved with TLAPS. Every definition is translated from the code; where a
document, a comment or a test says something else, the code was modelled and the
difference is listed under *Findings* or *Divergences*.

## The system

The repository is a TypeScript monorepo. `apps/mpc` is a NestJS node that holds
one of three key shares, generates keys, signs, synchronises shares and recovers
wallets; `apps/api` is the NestJS back end that authenticates users, provisions
wallets and sends transactions; `packages/sdk` is the client library with its
React widgets. Every process is a single JavaScript event loop: code runs without
interruption up to an `await`, a callback or the end of the handler, so these are
the points between which actions interleave. Concurrency is that of calls which
wait, of several processes, and of whatever arrives late.

| Component (under `src/`) | State it keeps | Operations | What is hard | What makes it correct |
|---|---|---|---|---|
| Concurrency manager `apps/mpc/src/signing/concurrency` | a mutex per wallet (locked, active entry, FIFO queue), a counter, the promises handed out | submit, complete, fail, cleanup, destroy | callers name a wallet, not their request; repeated and late calls | nobody is lost or run twice, FIFO, bounded queue, every request answered |
| Signing service `apps/mpc/src/grpc/signing.service.ts` | share store, rate limits, the managers below | sign, registerShares, cancel, cleanup | the `await` in the middle of sign(), the shared catch block, microtasks | errors stay on the wallet, no lock left behind, every call returns |
| Validation and audit `signing/validation`, `signing/audit` | idempotency cache, rate-limit windows, a bounded log | validate, checkRateLimit, checkIdempotency, cacheResult, cleanup, log | retries before the first answer, windows that end meanwhile, late results | a stored result is the answer to its key, for its window |
| Signing coordinator `signing/coordinator` | active ceremonies with their pair, fallback, attempts, last activity | start, touch, fallback, complete, fail, cleanup | stale choice of the fallback, late, repeated and foreign reports of a failure, timeouts | two parties and another behind them, for as long as reports are about the pair |
| Party selector `topology/selector.ts` | health of nodes in insertion order | updateHealth, removeNode, select, selectWithCoordinator | ties, unmeasured nodes, a coordinator that is itself the best | the best usable parties are taken, and a pair is found if there is one |
| Transport and router `transport/index.ts` | peers, sequence counters, messages on their way | send, broadcast, receive/route, connect, disconnect, destroy | messages overtake each other; several senders in one session | messages in order reach their handlers (they do with one sender) |
| Transport sessions `transport/session.ts` | session state, message count, timers | create, recordMessage, transition, abort, cleanup, destroy | late messages against timers and clean-up | every session ends |
| WebSocket transport, health, reconnection `transport/ws-transport.ts`, `health.ts`, `reconnect.ts` | sockets by party, peer health and timers, retry state | connect, accept, close, heartbeat, reconnect, cancel | an old socket's close after the new one's open; timers racing answers; errors nobody listens to | a peer that can be reached is connected, once |
| Message codec `transport/codec.ts` | none | encode, decode | lengths and flags at their boundaries, with and without keys | what is written is read; what was not written with the key is refused |
| Share synchronisation `sync/` | inventory of shares, gossip records, failure counts | announce, request, verify, audit | stale records; one failure count for all peers; restarts | a lost share is reported; agreement ends the alarm |
| Social recovery `recovery/social` | requests, approvals, notification handler | initiate, approve, execute, cancel, cleanup, destroy | re-entrant notification handler, time-lock, expiry, identifiers made of milliseconds | threshold and time-lock before any execution; a cancellation holds |
| Server and mnemonic recovery `recovery/server`, `recovery/*` | delivery records | backup, prepare, deliver, recover, cleanup | clean-up forgets what makes a bundle expire | a bundle that is fresh is served, a backup gives the share back |
| Key management and storage `kms/`, `storage/` | master key, data keys, an audit log | encrypt, decrypt, rotate, restart | rotation and restarts against what is stored | a stored share is read back, and no other |
| Key generation `tss/dkg`, `dkg/` | round, and per party the polynomial, shares taken in, secret share, public key | startRound1-3, processRound1-3, finalize | rounds are not guarded against one another; messages withheld, changed or stale | only verified shares are taken in; whole shares reconstruct the public key |
| Paillier `tss/paillier.ts` | none | keys, encrypt, decrypt, add, multiply | random choices that are not checked | sums of ciphertexts decrypt to sums |
| Signing ceremony `signing/index.ts` | commitments, contributions, combined point | two rounds, produceSignature | a cached point, replaced nonces and contributions, normalisation of s | the signature verifies, and its recovery identifier leads to the key |
| Chain signers `signing/ethereum`, `bitcoin`, `eddsa`, `tss/spike.ts` | none | encode, address, sign, recover | boundaries of lengths, leading zeros, high bits | the chain's reader gets what was written |
| API: OAuth, tokens `apps/api/src/oauth`, `token` | refresh tokens and one-time states in Redis or in a map of the process, session rows in a database | callback, magic link, refresh, revoke | read, then delete; Redis that comes and goes between two commands; calls that break off | a refresh token is exchanged once, a logout reaches all it can look at |
| API: provisioning, API keys `mpc/`, `auth/` | organisations, wallets, shares, API keys | provision, createApiKey, revoke | several rows without a transaction | one generated wallet per organisation |
| API: delegations `session/` | nonces seen | verify, prune | look-up before an await, record after it | a delegation is not taken twice |
| API: wallets and transactions `wallet/`, `transaction/`, `relayer/`, `indexing/` | wallet and transaction rows | register, delete, build, send, sync | a nonce computed from a count; overlapping synchronisations | a record is never ahead of the chain |
| SDK: log-in `packages/sdk/src/auth.ts`, `session.ts`, `signing.ts` | the session, its copy in local storage, delegations | popup and code log-in, logout, sign | a timer nobody clears, one window for all log-ins | no window is left open |
| SDK: browser wallets `wallets/` | a dialog, a saved connection and its history | discover, connect, reconnect, disconnect | answers after the dialog was closed; clearing during an await | a dialog stays until it is answered; a connection and its history agree |
| SDK: message signing `wallets/signing` | none | hash, verify | typed data with lists and missing fields | what is signed can be verified |
| SDK: widgets `ui/` | balance, history, send form | poll, load more, send | late answers, forms that are taken down, pages that cross | what is shown catches up; one send at a time |
| Topology, preview, wiring, native client, themes, dashboards | configuration, or none | lookups, formatting | none | - |

How they interact: `MpcSigningService.sign()` validates (validation), takes the
wallet's lock (concurrency), picks parties (selector, through the coordinator,
which also asks connection health before a fallback), runs the ceremony (signing
ceremony) and releases the lock. Parties exchange ceremony messages over a
transport; a router tracks the session of each message and calls handlers. The
API calls the MPC node over HTTP for key generation and signatures, and a relayer
and a chain's node for transactions. The SDK logs a user in through the API's
pages, delegates to a session key and sends signed transactions. The recovery
managers and share synchronisation stand apart: their tests call them so far.

## Modules

| Module | Models | Built on |
|---|---|---|
| `WalletLine` | what the lock promises: one line of requests per wallet, FIFO, one answer each | - |
| `Concurrency` | `WalletMutex` and `ConcurrencyManager` | refines `WalletLine` |
| `SigningService` | `MpcSigningService.sign()` and the microtasks of its awaits | extends `Concurrency` |
| `SigningRequests` | `SigningRequestValidator`, `SigningAuditLogger` around a request | - |
| `PartySelector` | `PartySelector` | - |
| `SigningCoordinator` | `SigningCoordinator` with its selector, a clock and peer health | extends `PartySelector` |
| `SessionManager` | the entry of one session as operators | - |
| `Transport` | `InProcessTransport`, `MessageRouter`, `SessionManager` of every party | extends `SessionManager` |
| `PeerConnections` | `WsTransport`, `ConnectionHealth`, `ReconnectionManager` of every node, as `TransportModule` wires them | - |
| `ShareSync` | `ShareSyncService`, `GossipProtocol`, `ConsistencyChecker` of every node | - |
| `SocialRecovery` | `SocialRecoveryManager` | - |
| `ShareRecovery` | backups from a phrase, bundles, the developer's server | - |
| `ShareCustody` | the three KMS providers, `ShareEncryption`, the KMS audit log | - |
| `KeyGeneration` | arithmetic modulo the group order; `DkgCoordinator` and the exchange of its messages | - |
| `SigningCeremony` | `SigningCeremony` with the result of a key generation; `recoverEthereumAddress` | extends `KeyGeneration` |
| `ByteStrings` | buffers and the numbers in them | - |
| `ChainEncodings` | RLP, Ethereum transactions, Bitcoin addresses, DER, recovery phrases, with the readers of each | extends `ByteStrings` |
| `WireFormats` | the wire codec and the stored form of a share | extends `ByteStrings` |
| `CurveSignatures` | ECDSA with recovery, and the ceremony of `tss/spike.ts`, on a small curve | - |
| `Paillier` | the test of primes, keys, encryption and its homomorphisms | - |
| `StructuredData` | preimages of messages and typed data in the SDK, and their verification | - |
| `Sessions` | `OAuthService`, `TokenService` on Redis, the maps that replace it, and a database | - |
| `Provisioning` | API keys, organisations, wallets and shares as rows | - |
| `Transactions` | the SDK's delegations, `SessionVerifierService`, building, sponsoring, sending and indexing | extends `Provisioning` |
| `DappWallets` | discovery dialog, connectors, persistence of the SDK | - |
| `WalletBalance`, `WalletHistory` | `useBalance()`, `useTransactions()` with requests under way | - |
| `WalletModal` | the modal with its tabs and form, `useSendTransaction()` with an application's `sendFn` | - |
| `BrowserLogin` | `MpcAuth`: popups, the stored session, logout | - |
| `Node` | everything a node does on its own: key generation and signing, social recovery, custody, backups, requests | extends three of them, instances of the others |
| `SigningProofs` | theorems about `Concurrency`, `SigningService` and `MCSigning` | extends `MCSigning` |
| `CoordinationProofs` | theorems about `PartySelector` and `SigningCoordinator`, and about `Transport` | extends `SigningCoordinator` and `Transport` |
| `CeremonyProofs` | theorems about `KeyGeneration`, `SigningCeremony`, `WireFormats`, `Paillier`, `ChainEncodings` | extends `SigningCeremony` and `WireFormats`, instances of the other two |
| `NodeProofs` | theorems about social recovery, custody, backups and requests | extends `Node` |
| `PeerConnectionsProofs`, `SessionsProofs`, `TransactionsProofs` | theorems about the module of that name, the last about `Provisioning` too | that module |
| `SdkProofs` | theorems about `DappWallets`, `WalletModal`, `BrowserLogin` | extends `MCSdk` |
| `MCSigning` | both ways the concurrency manager is used: by any caller, and by sign() | extends `SigningService` |
| `MCNode` | `Node`, and the encodings with their readers | extends `Node`, instances of the encoding modules |
| `MCEncodings` | one input of one algorithm and its output | instances of the encoding modules |
| `MCNetwork` | `Transport`, `SigningCoordinator` and `ShareSync` | extends the first two, instance of the third |
| `MCSdk` | the SDK's modules on one page | extends `WalletModal`, instances of the others |
| `MCPeerConnections`, `MCSessions`, `MCTransactions` | the module of that name | that module |

A module that instantiates several components which share no state has a variable
`part`, chosen at the start: a behaviour is a behaviour of one of them while the
others do not move, since their interleavings would add nothing.

### How state and actions correspond to the code

*Concurrency.* `present` is the set of wallets in the `mutexes` map; `locked`,
`activeEntry` and `queue` are the fields of a `WalletMutex`; `promise` is the
outcome of the promise that `submit()` returned. `Submit` is one call:
`acquire()` takes the free lock, enqueues, or is refused. `Complete` and `Fail`
may be called for any wallet at any time, as nothing in them names a request.
`WalletLine` has one sequence per wallet, whose head holds the lock: the mapping
is `<<activeEntry>> \o queue`.

*SigningService.* A call of sign() is one action up to its `await`: either it is
refused (`SignInvalid`, `SignRateLimited`, `SignWithoutShares`) or submitted
(`SignSubmit`). A rejected promise is a microtask in `rejections`; `SignRejected`
runs the oldest. The catch block (`Throw`) is part of every failing action: it
drains the lock of the wallet. The code behind the `await` is not an action,
because nothing but that code resolves the promise; see *Findings*.

*SigningRequests.* A call passes the limit, asks the cache, works, stores and logs,
in the order of sign(); the clock ticks and clean-up runs in between. `cache` keeps
an entry without a result while its first request is under way, and the code does
not answer from such an entry. `outcomes` is a history variable.

*SigningCoordinator.* `ceremonies` is a function on the identifiers in use, which
are a wallet and a time, as in the code. `nodes` is the selector's map in
insertion order, since the stable sort makes that order observable. `healthy` is
the answer of `ConnectionHealth.isHealthy()`, which changes at any time.
`CeremonyStep` takes a report of any party (`FallbackTaken`), since `attemptFallback()`
does not look whether it is one of the ceremony's; `unpaired` is a history variable, the
ceremonies for which it was not, or which began with one of their parties as fallback.

*Transport.* `counter` numbers what a party sends in a session, `inFlight` is a
set, so messages overtake each other; `sessions` holds the router's session of
each party. `Receive` is `receive()` and `route()` in full: record the message,
abort on an abort message, compare the number, call the handlers. Nothing
listens to the router's `error` event, and emitting `error` without a listener
throws, so an out-of-order message reaches no handler. `handled` (of the last
message received) and `highest` (by session and sender) are history variables for
the properties. The transport drops a message before it
numbers it, so a drop is the same as not sending.

*PeerConnections.* A socket is named by its two ends and a number, and is open
or closed at each end separately (`clientEnds`, `serverEnds`), since the two ends
learn of a loss in any order. `conn` is `peerConnections`; `client` is the one
entry `clients` can have: the accepting node reads the `partyId` parameter of the
URI that was dialed, which is its own number (see `PEER_URIS` in
`docker-compose.yml`). `todo` and `dialing` are the loop of `onModuleInit()` and
the calls of `connectToPeer()` that await. `Down` is the end of a process, by
`Kill` from outside or by an `error` event without a listener (`Refused`,
`PingDecoded`); `Boot` starts it again with an empty memory.

*ShareSync.* `entries` is a node's inventory, the version it holds every party's
share to have; it is empty after a restart. `order` is the order in which the map
got its keys, since `buildInventory()` sends the first `MaxEntries` of them (100 in
the code) and `Inventory` is what it sends. Messages between two nodes are a
queue, any of which may be lost. `HandleMessage` is `handleMessage()` with the
check and the answer it leads to; `Counted` is `quickCheck()`, which resets the
one failure count at any match. A hash of an inventory stands for the inventory.

*SocialRecovery.* A request is named by its creation time, so a second one in
the same millisecond replaces the first. `running` is the stack of executions
that wait for their notification handler, inside which the manager may be called
again; `Gone` stands for a request object that is no longer on record.

*ShareRecovery.* A bundle is the record of the phrase, the salt and the shares it
was made with, and opens under the same; `delivered` is the server's map of
delivery times, which clean-up empties, `handedOut` a history of the latest
delivery. `recovery/index.ts` passes sixteen zero bytes for the entropy of a phrase,
so `ZeroPhrase` is among the phrases.

*ShareCustody.* Master keys are numbers: `key` is what the process holds, and
`Restart` draws another, whichever provider it is. A cloud envelope carries the data
key wrapped by the master key. Rows may be put in the place of others (`Misplace`),
since the context of a share takes part in the derivation of its key.

*KeyGeneration.* A point is its discrete logarithm over a small prime field, so
commitments, Feldman's check and the public key are equations between scalars.
`states` is the map of `PartyState`s, empty before the first round; `mail` is
what the caller holds of the second round. No method checks the round it is
called in, so the actions have no such guard. `ProcessRound2` is one call with
the messages of any senders: recipients and senders in order, each message
verified, and the call ends at the first bad one, with what it took in before.
`counted` is a history variable: whose shares went into a secret share.
`processRound1()` and `processRound3()` keep messages that nothing reads, and
`startRound3()` says `verified: true` whatever was received.

*SigningCeremony.* The ceremony starts with the result of `Finalize`. `nonce` is
what a party drew last, `commitments` and `contributions` what it submitted, in
any order and as often as it likes; `combinedR` is the cached point. `XCoord` and
`YOdd` stand for the curve: any functions under which a point and its negative
share the one and differ in the other. `signature` keeps, next to what
`produceSignature()` returned, the nonces and the point that were used.

*Encodings.* These modules have no state: an encoder is translated from the code,
its reader from the code where it has one, and from the format that the code writes
for where the reader is outside (a chain's node, `node:crypto`; these are external
in `PROJECT.json`). `MCEncodings` takes one input and writes one output per
behaviour. The exclusive or that bech32 uses is a parameter of `ChainEncodings`
(`BitXor`), which `MCEncodings` takes from the library, so that the module can be
proved about. `CurveSignatures` has a real curve, `y^2 = x^3 + 7` over 43 elements with
31 points, where field and group order differ as they do for secp256k1.

*Sessions.* A call runs from one `await` to the next, which is one command to a
store or to the database; `CallFails` ends it at any of them. There are two stores,
Redis and the map of the process, and `Store` is the one a command goes to: the code
asks for `status === 'ready'` before each command, so `RedisSwitches` may come
between any two, and a command to the map succeeds and changes nothing in Redis
(`DropsEntry`, `SetsMark`). `MapEvicts` takes any entry of the map, the oldest
among them; a restart of the process, which empties the map and ends its calls, is
`CallFails` and `MapEvicts` for everything. A refresh reads the
token, deletes it, stores the new one, and renames the session row by its unique
column; a revocation marks its token, deletes the entry and the row, and lists the keys
and handles each in its own time (`KeyRead`, `KeyMarked`, `KeyDropped`; `KeyFails` is
one that throws while the others go on). History variables: `delivered`
and `parent` say which tokens clients got and from which they came, `loggedOut` which
tokens a finished logout was about, `handedIn` which one it was given, and `missed`
which tokens somebody looked for in one store while they were in the other.

*Provisioning, Transactions.* Again one command per action. A wallet row is named by
its address, an organisation by its key; the node's answer to a key generation is
an address that was never used. `used` is the verifier's map of nonces with the end
of each entry. `chain` is what the chain says of a transaction, `view` what a
synchronisation fetched of it, `record` the row. One row per action is looked up and
written; the order of a synchronisation's rows is free.

*SDK.* In `DappWallets` a wallet answers each of the three questions of a connector
separately and may have changed its account in between; the saved connection and
its history are two writes. `WalletBalance` and `WalletHistory` name the pages and
balances by whose they are and how old, and keep the requests under way. In
`WalletModal` the form is unmounted by a change of tab, by closing and by losing the
wallet, while the hook's state stays; a send takes time, as it does with an
application's `sendFn`. The modal passes none, and the hook's default, which sends
nothing, answers before the user can act. In `BrowserLogin` a window has one name, so
that a second log-in takes over the window of the first; the stored session may be
over, not over, or without an end, which counts as not over.

Conventions: a call that returns or throws without a change of state takes no
step. A definition preceded by *Mutant:* is never used by a specification; it is
a plausible bug of the definition that follows it, kept to show that the
properties notice it.

## Runs

| Run | What it asks | Bounds, and why they suffice |
|---|---|---|
| `signing` | The lock keeps every pending request once (`PendingHeldOnce`), its count is no higher than the locks held (`ActiveCountBounded`), it implements the abstract line (`ImplementsWalletLine`) and answers everyone (`ManagerAnswers`). The errors of sign() reach every call they are about (`CallsAccounted`, `ServiceIsTold`), no call of another wallet (`ErrorsStayOnWallet`), and leave no lock (`ServiceLeavesNoLock`). | 2 wallets, 4 requests, depth 2, 2 requests per rate window: a queue fills, refuses and drains while the other wallet is used, and the limiter refuses. The proofs cover other values |
| `signing_returns` | a call of sign() comes to an end: violated | depth 1, else as above |
| `node` | `ReceivedVerified`, `SharesReconstruct`, `SignatureVerifies` of ceremonies; `ApprovalsAgree`, `LockCoversEveryApproval`, `CancelHolds` of social recovery; `EnvelopeOutlivesRotation` of custody; `FreshBundleServed` of bundles; `RetryAnswered` of repeated requests; `ReadersAgree` of everything that is written | see below |
| `recovery_expiry` | an expired recovery request is refused: violated | as social recovery in `node` |
| `recovery_id` | the recovery identifier leads to the key: violated | as ceremonies in `node` |
| `network` | `EverySessionEnds`, `PairHandled` of sessions; `LostShareReported`, `AgreementEndsAlarms` of share synchronisation; `SelectionsAreBest`, `FallbackKept` of the coordinator | see below |
| `network_in_order` | a message that none of its sender overtook reaches the handlers, in a session of three parties: violated | as `network` |
| `peer_connections` | `DialedOnRecord`, `HealthFollowsSocket`, `NeverGivesUp` | 3 nodes of which one dials both others (it can lose one connection and keep the other; a dialed node can have an old and a new inbound socket); 2 starts per process; 2 sockets per peer; 2 heartbeats on their way; one missed heartbeat makes a peer unhealthy |
| `peer_survival` | a process ends only when it is killed: violated | as above, and nothing is killed |
| `sessions` | `ExchangedOnce`, `LiveTokenHasRow`, `LogoutReachesAll`, `HandedInNotExchanged` | one user and one log-in by either of 2 providers or by code, 3 tokens, so that a pair is exchanged twice, 2 calls at a time; Redis there or not at the start, coming or going once. `FewTokensAndRevocations`: with two revocations at a time there are two tokens, and while the map is or was in use two tokens with one revocation, or three with none. The proofs have no such bound |
| `transactions` | `OneProvisionedWallet`, `DelegationRemembered`, `RecordFromChain` | 2 keys of which one may be active, 3 addresses of which 2 are generated, 3 calls of which 2 overlap, one transaction, one delegation of lifetime 2 with a buffer of 1, a clock of five instants, so that it expires and its nonce is pruned |
| `sdk` | `DialogUntilAnswered`, `HistoryAgrees`, `OneSendAtATime`, `NoWindowLeft`, `BalanceCatchesUp`, `HistoryRepaired` | one dialog with 2 wallets of 2 accounts each; 2 addresses, 2 requests under way, one new block; pages up to the third; 3 drafts of which one is refused; 3 log-ins over 3 windows |

Bounds of `node`: the 3 parties of the deployment on a field of 11 scalars, so that
points have five different x-coordinates, 2 polynomials per party that are drawn anew
in a second first round, one changed message, 2 nonces that a party may replace,
and ceremonies with whole shares (the proof of `ReceivedVerified` has none of these
bounds); 3 guardians of whom 2 must approve, so that an approval comes after the
threshold, time-lock 1, expiry 2, clock 4, two requests, executions nested two deep;
2 shares, 3 master keys, 4 audited operations over a log of 2; 2 wallets with 2
salts and phrases, a bundle age of 1 in a clock of 2; one retried key, 4 calls,
windows of 1 in a clock of 3, 2 requests per window; byte strings whose lengths lie
on both sides of every boundary of the formats, a curve of 31 points, and Paillier
primes of 4 bits. Guardians are symmetric.

Bounds of `network`. *Sessions*: the 3 parties of the deployment in one session
(sessions do not interact), of which the first sends two messages, the second one and
the third none, of types that start and abort, so that a third party hears
two senders and a sender hears one. `FewFaults`: one node is destroyed or one link down
at a time, and the party that sends nothing keeps its own session. *Share
synchronisation*: 2 nodes, 2 wallets with 2 versions, inventories of which 2 entries are
sent, so that a node which knows of both wallets and both parties sends half of it; the
alarm after 2 failures. `SmallGossip`: three shares added, one restart or one loss, two
messages on their way. *Coordinator*: the 3 parties; health entries that tie, differ, are
not ready or unmeasured; one wallet and one ceremony at a time, since ceremonies do not
interact; 3 attempts, so that a ceremony can be made three parties and a report can
follow; a clock of two instants with timeout 0; one peer down. `AlikeInCeremony`: while a
ceremony is on record, which no longer looks at the health entries, these are explored
as long as they are alike. The proofs of `SelectionsAreBest`, `FallbackKept` and
`PairHandled` have none of these bounds.

No run spends a property on types alone. `TypeOK` of the concurrency manager, of the
connections and of social recovery is proved (`TypeCorrect`), and it carries what a
type can say of a hazard there: no counter below zero, no expired request kept as
such.

Deadlock is checked in `signing`. In the other runs the bounds on
calls, messages, clocks and starts run out, and behaviours really stop there.

### Fairness

- `MCSigning`: whoever holds a lock eventually calls complete() or fail()
  (`ManagerAnswers`). This is the caller's part of the contract ("Caller must call
  complete() or fail() to release the lock"). `signing_returns` shows that sign()
  does not keep it, so `ManagerAnswers` is a statement about the manager alone. For
  the service only microtasks are assumed to run (`ServiceIsTold`).
- `Transport`: time passes and timers fire. Nothing is assumed of messages: they may
  stay on their way for ever.
- `ShareSync`: the interval runs, and a message that is not lost is handled, in the
  order of its connection.
- `WalletBalance`: the interval runs, and every request ends, well or badly.
- `WalletHistory`: the interval ticks again and again, and requests do not fail for
  ever. These are strong: the model has a bounded number of requests under way, and
  a tick finds none free now and then, which the code does not know.
- Nowhere else: the other properties are safety properties.

## Proofs

The theorems hold for every value of the constants that the modules' named assumptions
allow, and assume nothing else, except for those about encodings, which are about
inputs that fit (see there). The assumptions: finite sets and bounds that are numbers
(`SelectorAssumption`, `CoordinatorAssumption`, `RequestsAssumption`, `SdkAssumption`,
...), that the order of the group is a prime above 3 (`PrimeAssumption`, true of
secp256k1's), that nonces and hashes are scalars other than 0, and that a point and its
negative share their x-coordinate (`CurveAssumption`).

`SigningProofs`, for any finite set of wallets, any requests, depth and rate limit:

- `TypeCorrect`, `QueueBound`: inductive as they stand.
- `Invariance`: `TypeOK`, `MutexConsistent`, `PendingHeldOnce` and
  `ActiveCountBounded` together are inductive. They need each other: that a
  release hands the lock to a pending request needs that queued requests are
  pending; that cleanup() loses nobody needs that nobody waits at a free mutex;
  that the counter is at most the number of locked wallets needs that a release
  unlocks exactly when it decrements.
- `LocksHaveHolders`, `NoRequestLost`, `CountNeverTooHigh`: its consequences.
- `Refinement`: every step of the manager maps to a step of `WalletLine` or to a stutter.
- `ServiceImplementsManager`: every behaviour of the service is one of the manager,
  so that what is proved of the manager holds in the service.
- `ServiceInvariance`: to the manager's invariant it adds, for each call of sign(), how
  far it is against what the manager did with its request (a submitted call is
  pending at the mutex of its own wallet, or its rejection is in `rejections`, once),
  and where every error on its way came from.
- `EveryCallAccounted`, `NoForeignErrors`, `ErrorsReleaseLocks`, `NoErrorKeepsLock`: its
  consequences. The first needs the manager's `PendingHeldOnce`: a request in two places
  could be told twice. The last says it of the specification that the run checks, in
  which the service and other callers of the manager take turns.

`CoordinationProofs`, of the coordinator, for any parties, scores, wallets, timeout and
number of attempts:

- `BestAreSelected`: the invariant is that the health entries are of different parties
  (`NodesTyped`). The rest is about sorting: the `Before` of two entries is a strict
  total order, so that of any entries one comes before all others (`FirstOf`, from the
  least score and then the least place), the k-th of the list is the first of those that
  k - 1 others leave (`NextRanked`), and the pair and the fallback are the first three.
- `FallbackIsKept`: any party may be reported as failed at any time. A report of a party
  of the pair swaps it with the one behind; any other report removes nobody and adds one.
  The invariant (`CeremoniesInv`) says both: a ceremony that had no foreign report and
  did not begin with its own fallback has two different parties and a third behind them
  (`PairBacked`), and every attempt adds one party at most.

`CoordinationProofs`, of the transport, for any nodes, sessions, types and numbers of
messages:

- `PairMessagesHandled`: the property speaks of the messages of the one sender that a party
  has heard in a session. Its invariant (`NetInv`) relates the count of the
  session's messages to the highest number received: the count and the messages that are
  late, which were numbered but not counted yet, are together at most that number. When a
  message overtakes others, all of them become late, and they are fewer than the numbers it
  skips (`FewInRange`); when a late one comes, it is counted and late no more. With a
  second sender the relation is lost, and `network_in_order` is what happens then.
- `LiveSessionsAreTimed`: a message that reopens a session, or starts one, leaves its
  timer running (`TimersRun`), for any number of nodes. It is what `EverySessionEnds`
  rests on: the run adds that time passes.

`CeremonyProofs`, for any prime, parties, polynomials, noise, nonces, hashes and
x-coordinates:

- `EveryScalarInverted`: the loop of `modInverse()` ends, with a combination of its
  argument and the prime that is their common divisor; since no number divides a prime,
  the divisor is 1 and the combination the inverse.
- `OnlyVerifiedShares`: the invariant types the messages and what the rounds read, and
  nothing of the secret shares, which no round reads back.
- `TwoSharesReconstruct`: the strengthening is that the secret shares of whole parties
  and the scalar of the public key lie on one line (`SecretSharesOnLine`,
  `ResultOnLine`), the sum of the parties' polynomials. The proof computes with
  congruences (`Same`), sums over the parties element by element (`SumOut`, `SumLine`)
  and the interpolation of a line at 0 (`LineAtZero`).
- `SignaturesVerify`: between the rounds, each contribution is the one its party's
  commitment answers for (`Contributed`), whatever was replaced or cached, and a
  signature satisfies the equation of ECDSA up to the sign that its normalisation chose
  (`SignatureFits`), which is what the verification checks. The invariant was checked by
  TLC on a small instance before it was proved.

`CeremonyProofs`, of what is written and read. An encoder and its reader are functions of
their input, so these theorems are no invariants; each is a part of `ReadersAgree`, for
every input instead of the run's. A length or a number has to fit the bytes that the code
writes it with (`Fits`), which is what its type or its buffer allows:

- `SharesReadBack`: the width of a scalar (`ShareBytes`, 32 in the code) is itself written
  in two bytes; public key and chain code are shorter than 256 bytes.
- `MessagesReadBack`: the session's id, the sequence number, the timestamp and the payload
  fit 2, 4, 8 and 4 bytes, with the 28 bytes that encryption adds. That the cipher of the
  model differs between keys is the external part.
- `DecryptsWhatWasEncrypted`, `SumsDecrypt`: for the key, only that `modInverse()` did not
  throw, and for the random factor that its power lambda is 1 modulo n (`IsUnit`). That
  every factor coprime to n has this property is Carmichael's theorem, which is not proved;
  the run checks it for its primes. The proof computes `(n + 1)^m` modulo the square of n
  (`1 + m * n`) and uses that what `modPow()` returns is a power (`Power`).
- `SignaturesReadBack`: r and s have at most 32 bytes, so that every length of the DER is
  one byte.
- `KeysReadBack`, `ChallengesVerify`: keys of at most 100 bytes for the same reason;
  signatures are values that only key and message produce.
- `LegacyTxsReadBack`, `TypedTxsReadBack`: for any transaction whose encoding has fewer
  than `2^64` bytes. Both rest on `ListsReadBack`, on lists of any number of strings
  in the three forms of RLP.
- `AddressesReadBack`: bytes that are all zero are excluded: however many they are, they
  come back as one.

Their arguments: what is written piece by piece is read piece by piece, each at the place
where the pieces before it end (`Reads`, `Joined`); the digits of a number have its value
(`DigitsValue`), and digits without leading zeros are those of their value (`DigitsBack`).

`NodeProofs`, of social recovery, for any guardians, threshold, time-lock, expiry and clock
bound:

- `TypeCorrect`.
- `Invariance`: `ApprovalsAgree` is not inductive on its own. It is strengthened
  by *no approval is dated in the future* (so that the latest approval is the one
  that sets the time-lock) and *what waits in the notification of an execution
  was approved when it started, or was replaced* (so that finishing it cannot
  complete a request that lacks its threshold).
- `LogAgreement`, `TimeLockHolds`, `CancellationHolds`: the invariant and the two
  action properties of the run.

`NodeProofs`, of what is stored, for any wallets, phrases, salts, ages, shares and bounds:

- `FreshBundleAlwaysServed`: a refusal is dated by the record, the property by the
  latest delivery, so the strengthening is that a record, if there is one, is the
  latest delivery.
- `BackupAlwaysRecovers`, for at least one party: every bundle was made from its
  wallet's phrase, and the phrase stays what it is once there is a bundle.
- `LoadsOwnShare`: the invariant is that every row holds a share under a key derived
  for that very share, wherever the row lies.
- `RotationKeepsEnvelopes`: the invariant says which key wraps the data key of what
  this process encrypted; it needs that cloud keys are drawn at a start only.
- `RetriesAnswered`: for every answer that was given within the window there is an entry
  with a result that is at least as young (`ResultKept`). A second request under way for
  the same key may replace the entry, but only with a younger one, and clean-up takes
  entries by their age.

`PeerConnectionsProofs`, for any parties, any lists of peers without repetition and
without the node itself, and any bounds:

- `TypeCorrect`.
- `Invariance`: none of the properties is inductive. `connectToPeer()` looks for a
  connection when it is called and records its socket when that opens, so that an
  open socket stays on record needs that no second call for the same peer is under
  way meanwhile. The strengthening is that *a peer is in one phase at a time* (still
  in the loop of `onModuleInit()`, being dialed, connected, or due for a
  reconnection), at most once, that nobody dials itself, and that a process that
  does not run is in no phase.
- `SocketsAreOnRecord`, `HealthIsOfSockets`, `RecordIsOpen`, `KeepsTrying`: its
  consequences. The run checks them with two heartbeats on their way at most; the
  theorems have no such bound.

`SessionsProofs`, for any users, tokens, number of calls at a time and number of times that
Redis comes and goes:

- `Invariance`: none of the properties is inductive, since a refresh and a
  revocation hold in their hands what they read before an `await`. The invariant
  follows each call from one await to the next: no two calls hold the same new
  token, and nobody has been given it; a refresh that has taken its token and a
  revocation about to delete a row hold a token that has left the stores; a token
  that was exchanged or handed in has lost its row (`HandedInRowGone`); and of the tokens
  a revocation is about, those still alive are its own or among the keys it has yet to
  look at. *Alive* is said up to what was missed (`Live`): a token that a
  command looked for in the other store is left out, and there is none while one
  store alone was used (`OneStore`).
- `TokenExchangedOnce`, `LiveTokensOnRecord`, `LogoutIsComplete`: its consequences. The first
  holds whatever the stores do, since the row decides.
- `HandedInIsOver`: an action property, from the rows alone: once the row of a token that was
  handed in is gone, no refresh of it returns, whichever stores were asked.

`TransactionsProofs`, for any keys, addresses, transactions, delegations, clock and number
of calls:

- `Invariance`, in three parts. `Provisioned`: at most one call goes on to create what a key
  lacks, and the rows it has written agree with the phase it is in. `Delegating`: the
  end of an accepted nonce's entry is not before that of the delegation, also while the
  look-up of the sender is awaited and the clock goes on. `Syncing`: the rows, and what a
  synchronisation fetched before its write, are behind the chain.
- `OneWalletProvisioned`, `AcceptedNoncesKept`, `RowsFollowChain`: its consequences.

`SdkProofs`, for any drafts, calls, wallets, accounts, dialogs, log-ins and bound of the
history:

- `OneSendWhateverThePage`: a submission keeps the property because the modal, not the
  form, knows that something is being sent; the invariant says so (`SendIInv`).
- `WindowsAreWatched`: inductive but for the shapes of its functions (`LoginIInv`): whoever
  opens, shares or closes the window, and whichever timer fires late, an open one keeps a
  log-in that polls it.
- `PromisesAnswered`: inductive with the types of a dialog and its calls (`DialogIInv`).
- `HistoryFollowsSaves`: inductive as it stands; the work is in what `filter()` and
  `slice()` leave of a sequence without repetition.
- `SdkInvariance`: the four together, in the specification the run checks.

The library's induction theorems take an operator as a parameter, which the installed
provers cannot instantiate. Where the proofs above need induction they use that a set of
natural numbers has a least element (`LeastNumber`): a loop, a sum or a list that fails for
some argument would fail for one of least rank. That a function defined by recursion exists
is shown in the same way, once (`Recursion`), and used for the loops of `modInverse()` and
`modPow()`, sums over sets of parties, digits and their values, powers, joined buffers and
the reader of RLP lists.

Only model-checked, and why:

- All liveness (`ManagerAnswers`, `ServiceIsTold`, `EverySessionEnds`,
  `LostShareReported`, `AgreementEndsAlarms`, `BalanceCatchesUp`, `HistoryRepaired`): it
  depends on fairness and `ENABLED`, which the prover does not handle.
- `ReadersAgree` as a whole. Of its parts, shares, messages, Paillier, both transactions
  of Ethereum, the signatures and base-58 addresses of Bitcoin, Ed25519 keys and challenges
  are proved as above, and backups and stored shares in `NodeProofs`. Left to TLC are
  typed data (recursive operators, which the prover does not accept), addresses in bech32,
  the words of a phrase, the test of primes, and ECDSA with recovery on the small curve,
  where the group law and the primality of the order would have to be proved.

## Findings

- `signing_returns`: sign() awaits `concurrency.submit()`, whose promise is
  resolved only by `complete()` behind that very `await`. The first call that
  gets the lock hangs and holds the wallet for ever; no timeout is applied.
- `peer_survival`: nobody listens to the transport's `error` event, so emitting it
  ends the process: when a peer that is dialed does not run yet, and when a node
  receives the heartbeat of a node it dialed.
- `network_in_order`: the router compares a number of one sender with a count over all
  senders (`transport/index.ts:80`). In a session of three parties, such as a key
  generation, the first message of a second sender counts as out of order; the `error`
  that is emitted for it has no listener and throws, and no handler gets the message.
- `recovery_id`: `produceSignature()` normalises s, which negates the point, and
  keeps the recovery identifier of the original point. The signature verifies, but
  the `v` that `signEthereumHash()` makes of it recovers another address.
- `recovery_expiry`: expiry is read by cleanup() alone; until somebody calls it an
  expired request can be approved and executed.

## Divergences

What else the code does differently from what one would expect of it. The models
reproduce these, except where *(not modelled)* is said; the properties are stated for
what the code does keep.

Node:

- When the queue of a wallet is full, the refused call's catch block fails the holder
  and everyone who waits (`Throw` of `SigningService`).
- When the coordinator is itself the best node, it is recorded as its own fallback, and
  the failure of its partner leaves `[c, c]` (`SelectWithCoordinator`, `Replaced`).
- `attemptFallback()` does not ask whether the party reported is one of the ceremony's
  (`coordinator/index.ts:163`): a late, repeated or foreign report removes nobody and adds
  the fallback, so the ceremony has three parties, or one of them twice. `FallbackKept`
  says what such a ceremony still keeps.
- A repeated idempotency key whose first request is under way runs again; a late
  result is stored into a newer entry. A fee that cannot be parsed is previewed as
  'unknown' with success *(not modelled)*.
- A peer's inventory is compared and never taken over, and an announcement never
  updates an entry that exists (`sync/gossip.ts:60`). The failure count is shared by
  all peers, and a check that fails counts twice. An inventory is cut off after 100
  entries (`sync/gossip.ts:119`): a lost share of a wallet behind them is not compared,
  the answer looks consistent and takes back the failure that the hash had counted, and
  the alarm never comes. `LostShareReported` is about wallets that are sent.
- The cloud providers' master key is drawn per process, and the local provider never
  reads its key file: after a restart no stored share can be read, and with the
  local provider none after a rotation.
- The server's clean-up forgets an old delivery, after which the expired bundle is
  accepted (`recovery/server/index.ts:242`). A recovery phrase is made of sixteen zero
  bytes (`recovery/index.ts:54`).
- Ethereum: the access list of a type-2 transaction is encoded as if it were bytes
  already encoded, which no reader takes for a list (`Eip1559Tx`; the reader checks the
  other fields); such a transaction gets an EIP-155 `v` and hashes are SHA3-256, not
  Keccak *(hashes and signed type-2 transactions are not modelled)*. Bitcoin: witness
  version 0 on 'tb' gets the constant of bech32m (`bitcoin/index.ts:316`).
- Paillier: the random factor is not checked to be coprime, and `isProbablePrime(5)`
  divides by zero. A codec with a key accepts a plain message without a code.
- A node takes the addresses of other nodes by their position in a list, and draws its
  identity anew per process *(not modelled)*.

API:

- Two verifications of one magic code that overlap both pass; an access token stays
  valid after a logout; a reused refresh token is refused and nothing more.
- A logout while Redis is not ready marks and deletes in the map of the process and answers
  with success (`token.service.ts:79-112`): the entry is alive and not marked when Redis is
  back. The token it was given has lost its row, so that a refresh of it still fails at
  the last step (`HandedInNotExchanged`), after it has stored a token that nobody gets;
  other tokens of the user keep their rows and can be refreshed. A refresh of a token that
  was itself stored by the map finds nothing once Redis is back.
- A refresh that has read its token before a logout lists the keys stores a new pair behind
  it, which the logout is not about (`LogoutReachesAll` speaks of what clients had).
- Calls that carry the same delegation and overlap both pass; the SDK attaches one
  delegation to every transaction (`signing.ts:42`), of which the API accepts the
  first. Nonces are forgotten at a restart *(not modelled)*.
- A provisioning that broke off leaves an organisation that later calls take for
  complete; the maximum of active keys is exceeded by overlapping creations;
  a soft-deleted address cannot be registered again.
- A wallet's nonce is never updated, and the next one is a count of pending rows: two
  transactions that are built before either is on record get the same one. A
  synchronisation may write a confirmed row back to pending.

SDK:

- The 120 s timer of a popup is never cleared and all log-ins share the window's
  name, so one log-in's timer closes another's window. A logout forgets a session
  that was stored meanwhile.
- The popup waits for `sessionToken=` where the API redirects with `accessToken`
  (`oauth.controller.ts:48`); logout posts a field the API does not read
  (`docs/tasks.md:180`) *(not modelled: a log-in succeeds in `BrowserLogin`)*.
- The first of several wallets asked from one dialog to fail resolves it with null; a
  remembered wallet that fails resolves it without a dialog; a reconnection saves
  what was cleared during its await.
- The domain of structured data has no part in its hash, and all structured messages
  of Ethereum hash alike (`signing/message.ts:95` and `:172`); the readers of
  `StructuredData` are asked for the rest.
- `useBalance` and `useTransactions` show late answers for another wallet until the next
  one arrives. After one success the send form is not shown again.

## Not modelled

- `topology` but for the selector, previews, controllers, metrics, modules and `main`
  files: configuration and formatting, without state that changes.
- Hash functions, ciphers and random numbers: values that only their inputs produce.
  Cryptographic strength is out of reach; that a wrong key, context or row fails is
  modelled.
- The Bitcoin sighash, the chain registry, the network table and the event bus: tables
  and byte concatenations with no reader in this repository to check them against.
- Cloud key services, Redis, Postgres, the chains and the relayer: what the code sees of
  them is an answer, a failure, or nothing.
- The custody client, the native SDK (the browser's calls on other storage), themes,
  layout, QR codes, the dashboard, the demo and the examples.

## What is left

1. A proof of the parts of `ShareSync` that are safety.
2. The composition of `SigningRequests` with `SigningService`, once sign() gets past its
   await.
3. Several processes of the API: a map of its own for each while Redis is away, nonces of
   delegations that a restart forgets, and two replicas that draw their signing keys at the
   same time.
