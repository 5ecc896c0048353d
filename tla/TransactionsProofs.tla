------------------------- MODULE TransactionsProofs -------------------------
(* The rows of the API, for any keys, addresses, transactions, delegations,   *)
(* lifetimes and number of calls that overlap from await to await and break   *)
(* off anywhere.  Three invariants share the calls: what a provisioning knows *)
(* of the key it generated, what is remembered of a delegation, and what was  *)
(* fetched from the chain.                                                    *)
EXTENDS Transactions, TLAPS

ProvisioningPcs ==
  {"idle", "count_keys", "create_key", "revoke_key", "find_org", "dkg", "create_org",
   "create_wallet", "create_share", "update_sponsorship", "find_address", "register",
   "increment", "find_wallet", "soft_delete", "decrement"}
SendingPcs == {"find_sender", "find_signer", "find_owned", "relayer", "node"}
SyncPcs == {"fetch", "sync", "create_tx", "update_tx"}

\* Calls that work on the row of an address.
AddressPcs == {"create_org", "create_wallet", "find_address", "register", "find_wallet", "soft_delete"}

Signed == {d \in Delegations : delegation[d] # NoDelegation}

CallTypes ==
  [pc : ProvisioningPcs \cup SendingPcs \cup SyncPcs \cup {"build"},
   key : Keys \cup {None}, snap : {"none", "sponsored", "unsponsored"},
   addr : Addresses \cup {None},
   about : Keys \cup Txs \cup (Txs \X (Delegations \cup {None})) \cup {None}]
WalletTypes == [state : {"live", "deleted"}, org : Keys]

-----------------------------------------------------------------------------
(* The invariant.                                                          *)

Types ==
  /\ org \subseteq Keys /\ dkg \subseteq Generated
  /\ wallet \in [Addresses -> WalletTypes \cup {NoWallet}]
  /\ call \in [Calls -> CallTypes]

HasRow(a) == wallet[a] # NoWallet

\* What a call knows between two awaits: the address it generated is nobody
\* else's until it has a row; the key whose organisation a call has created
\* has no generated wallet yet; who registers an address the MPC service
\* generated has it from its row.
WorkOK(c) ==
  /\ call[c].pc # "idle" => call[c].key \in Keys
  /\ call[c].pc \in AddressPcs => call[c].addr \in Addresses
  /\ call[c].pc \in {"create_org", "create_wallet"} => call[c].addr \in dkg
  /\ At(c, "create_wallet") =>
       /\ call[c].key \in org
       /\ \A b \in dkg : HasRow(b) => wallet[b].org # call[c].key
  /\ call[c].pc \in {"find_address", "register"} =>
       (call[c].addr \in Generated => HasRow(call[c].addr))

\* No two calls create the wallet of one organisation.
OneCreates ==
  \A c, d \in Calls :
    At(c, "create_wallet") /\ At(d, "create_wallet") /\ call[c].key = call[d].key => c = d

\* Rows of generated addresses belong to organisations, and come after the
\* generation.
GeneratedRows ==
  \A a \in Generated :
    HasRow(a) => a \in dkg /\ wallet[a].org \in org

Provisioned ==
  /\ Types /\ (\A c \in Calls : WorkOK(c)) /\ OneCreates
  /\ GeneratedRows /\ OneProvisionedWallet

\* Until a delegation has expired, its nonce is on record if it was accepted.
Remembered(d) ==
  /\ d \in Signed
  /\ \/ used[d] = delegation[d].expires + Buffer
     \/ used[d] = 0 /\ Expired(d)

SendOK(c) ==
  /\ call[c].pc \in SendingPcs => call[c].about \in Txs \X (Signed \cup {None})
  /\ At(c, "find_signer") => Delegated(c) # None

Delegating ==
  /\ now \in Nat
  /\ delegation \in [Delegations -> [addr : Addresses, expires : Nat \ {0}] \cup {NoDelegation}]
  /\ session \in [Addresses -> Signed \cup {None}]
  /\ used \in [Delegations -> Nat]
  /\ accepted \subseteq Delegations
  /\ \A d \in accepted : Remembered(d)
  /\ \A c \in Calls : SendOK(c)

\* What is on record or was fetched does not run ahead of the chain.
Behind(s, t) ==
  /\ s \in Statuses
  /\ s # "absent" => chain[t] # "absent"
  /\ s = "confirmed" => chain[t] = "confirmed"

SyncOK(c) == call[c].pc \in {"create_tx", "update_tx"} => call[c].about \in Txs

Syncing ==
  /\ chain \in [Txs -> Statuses]
  /\ record = [t \in Txs |-> record[t]]
  /\ view = [c \in Calls |-> [t \in Txs |-> view[c][t]]]
  /\ \A t \in Txs : Behind(record[t], t)
  /\ \A c \in Calls, t \in Txs : Behind(view[c][t], t)
  /\ \A c \in Calls : SyncOK(c)

IInv == Provisioned /\ Delegating /\ Syncing

-----------------------------------------------------------------------------
(* Calls that stand still, and calls that move.                            *)

LEMMA IdleType == Idle \in CallTypes
BY DEF Idle, CallTypes, ProvisioningPcs

LEMMA IdleOK == ASSUME NEW c \in Calls, call[c] = Idle PROVE WorkOK(c)
BY DEF Idle, WorkOK, AddressPcs, At

\* Organisations and generated keys stay, and so do the rows of addresses that
\* a call is about: a call that stands still knows what it knew.
LEMMA Undisturbed ==
  ASSUME Types, NEW d \in Calls, WorkOK(d), call'[d] = call[d],
         dkg \subseteq dkg', org \subseteq org',
         call[d].addr \in Addresses /\ HasRow(call[d].addr) => HasRow(call[d].addr)',
         At(d, "create_wallet") => \A b \in dkg' : HasRow(b)' => wallet'[b].org # call[d].key
  PROVE  WorkOK(d)'
BY DEF WorkOK, At, HasRow, AddressPcs

\* A step of one call that changes no row of an organisation or a wallet.
LEMMA QuietStep ==
  ASSUME Provisioned, NEW c \in Calls, NEW r \in CallTypes, r.pc # "create_wallet",
         call' = [call EXCEPT ![c] = r], WorkOK(c)', UNCHANGED <<org, wallet, dkg>>
  PROVE  Provisioned'
<1>1. Types' /\ call'[c] = r /\ \A d \in Calls : d # c => call'[d] = call[d]
  BY DEF Provisioned, Types
<1>2. ASSUME NEW d \in Calls, d # c PROVE WorkOK(d)'
  BY <1>1, <1>2, Undisturbed DEF Provisioned, HasRow, WorkOK
<1>3. OneCreates'
  BY <1>1 DEF Provisioned, OneCreates, At
<1>4. GeneratedRows' /\ OneProvisionedWallet'
  BY DEF Provisioned, GeneratedRows, HasRow, OneProvisionedWallet
<1>5. QED BY <1>1, <1>2, <1>3, <1>4 DEF Provisioned

LEMMA EndStep ==
  ASSUME Provisioned, NEW c \in Calls, Ends(c), UNCHANGED <<org, wallet, dkg>>
  PROVE  Provisioned'
<1>1. call' = [call EXCEPT ![c] = Idle] /\ call'[c] = Idle
  BY DEF Provisioned, Types, Ends, Becomes
<1>2. WorkOK(c)'
  BY <1>1 DEF Idle, WorkOK, AddressPcs, At
<1>3. Idle.pc # "create_wallet"
  BY DEF Idle
<1>4. QED BY <1>1, <1>2, <1>3, IdleType, QuietStep

\* A call goes on to a phase where nothing is asked of it but to be of a key,
\* and of an address where it works on one.
LEMMA GotoStep ==
  ASSUME Provisioned, NEW c \in Calls, NEW pc \in ProvisioningPcs \cup SendingPcs \cup SyncPcs,
         pc \notin {"create_org", "create_wallet", "find_address", "register"},
         ~At(c, "idle"), pc \in AddressPcs => call[c].addr \in Addresses,
         Goto(c, pc), UNCHANGED <<org, wallet, dkg>>
  PROVE  Provisioned'
<1> DEFINE r == [call[c] EXCEPT !.pc = pc]
<1>1. r \in CallTypes /\ r.pc # "create_wallet"
  BY DEF Provisioned, Types, CallTypes
<1>2. call' = [call EXCEPT ![c] = r] /\ call'[c] = r
  BY DEF Goto, Becomes, Provisioned, Types
<1>3. call[c].key \in Keys
  BY DEF Provisioned, WorkOK, At
<1>4. WorkOK(c)'
  BY <1>2, <1>3 DEF WorkOK, At, Provisioned, Types, CallTypes
<1> HIDE DEF r
<1>5. QED BY <1>1, <1>2, <1>4, QuietStep

\* A row of a wallet appears, or loses its life, and its call goes on.
LEMMA RowStep ==
  ASSUME Provisioned, NEW c \in Calls, NEW pc \in {"create_share", "increment", "decrement"},
         Goto(c, pc), ~At(c, "idle"), UNCHANGED <<org, dkg>>,
         NEW a \in Addresses, NEW row \in WalletTypes, wallet' = [wallet EXCEPT ![a] = row],
         \/ HasRow(a) /\ row.org = wallet[a].org
         \/ a \notin Generated
         \/ At(c, "create_wallet") /\ a = call[c].addr /\ row.org = call[c].key /\ ~HasRow(a)
  PROVE  Provisioned'
<1> DEFINE r == [call[c] EXCEPT !.pc = pc]
<1>1. r \in CallTypes /\ r.pc = pc
  BY DEF Provisioned, Types, CallTypes, ProvisioningPcs
<1>2. call' = [call EXCEPT ![c] = r] /\ call'[c] = r
  BY DEF Goto, Becomes, Provisioned, Types
<1>3. \A d \in Calls : d # c => call'[d] = call[d]
  BY <1>2 DEF Provisioned, Types
<1>4. Types'
  BY <1>1, <1>2 DEF Provisioned, Types
<1>5. WorkOK(c)'
  <2>1. call[c].key \in Keys
    BY DEF Provisioned, WorkOK, At
  <2>2. r.key = call[c].key
    BY DEF Provisioned, Types, CallTypes
  <2>3. QED BY <2>1, <2>2, <1>1, <1>2 DEF WorkOK, At, AddressPcs
<1>6. wallet'[a] = row /\ HasRow(a)' /\ \A b \in Addresses : b # a => wallet'[b] = wallet[b]
  <2>1. row # NoWallet
    BY DEF WalletTypes, NoWallet
  <2>2. QED BY <2>1 DEF Provisioned, Types, HasRow
<1>7. ASSUME NEW d \in Calls, d # c PROVE WorkOK(d)'
  <2>1. call[d].addr \in Addresses /\ HasRow(call[d].addr) => HasRow(call[d].addr)'
    BY <1>3, <1>6, <1>7 DEF HasRow
  <2>2. ASSUME At(d, "create_wallet"), NEW b \in dkg, HasRow(b)' PROVE wallet'[b].org # call[d].key
    <3>1. b \in Generated /\ b \in Addresses
      BY ProvisioningAssumption DEF Provisioned, Types
    <3>2. HasRow(b) => wallet[b].org # call[d].key
      BY <2>2 DEF Provisioned, WorkOK
    <3>3. CASE b # a
      BY <3>1, <3>2, <3>3, <1>6, <2>2 DEF HasRow
    <3>4. CASE b = a /\ At(c, "create_wallet") /\ row.org = call[c].key
      BY <1>6, <1>7, <2>2, <3>4 DEF Provisioned, OneCreates
    <3>5. CASE b = a /\ HasRow(a) /\ row.org = wallet[a].org
      BY <1>6, <3>2, <3>5
    <3>6. QED BY <3>1, <3>3, <3>4, <3>5
  <2>3. QED BY <1>3, <1>7, <2>1, <2>2, Undisturbed DEF Provisioned
<1>8. OneCreates'
  BY <1>1, <1>2, <1>3 DEF Provisioned, OneCreates, At
<1>9. GeneratedRows' /\ OneProvisionedWallet'
  <2>1. CASE a \notin Generated
    BY <2>1, <1>6, ProvisioningAssumption
    DEF Provisioned, Types, GeneratedRows, OneProvisionedWallet, HasRow
  <2>2. CASE HasRow(a) /\ row.org = wallet[a].org
    <3>1. GeneratedRows'
      BY <2>2, <1>6, ProvisioningAssumption DEF Provisioned, GeneratedRows, HasRow
    <3>2. \A b \in Addresses : wallet'[b].org = wallet[b].org /\ (HasRow(b)' <=> HasRow(b))
      BY <2>2, <1>6 DEF HasRow
    <3>3. OneProvisionedWallet'
      BY <3>2, ProvisioningAssumption DEF Provisioned, Types, OneProvisionedWallet, HasRow
    <3>4. QED BY <3>1, <3>3
  <2>3. CASE At(c, "create_wallet") /\ a = call[c].addr /\ row.org = call[c].key /\ ~HasRow(a)
    <3>1. /\ a \in dkg /\ row.org \in org /\ row.org \in Keys
          /\ \A b \in dkg : HasRow(b) => wallet[b].org # row.org
      BY <2>3 DEF Provisioned, Types, WorkOK, At
    <3>2. GeneratedRows'
      BY <3>1, <1>6, ProvisioningAssumption DEF Provisioned, GeneratedRows, HasRow
    <3>3. \A b \in Addresses : ~HasRow(b) => wallet[b].org \notin Keys
      BY ProvisioningAssumption DEF HasRow, NoWallet
    <3>4. \A b \in dkg : b # a => wallet'[b] = wallet[b] /\ wallet[b].org # row.org
      BY <3>1, <3>3, <1>6, ProvisioningAssumption DEF Provisioned, Types
    <3>5. OneProvisionedWallet'
      BY <3>1, <3>4, <1>6, ProvisioningAssumption
      DEF Provisioned, Types, OneProvisionedWallet, HasRow
    <3>6. QED BY <3>2, <3>5
  <2>4. QED BY <2>1, <2>2, <2>3
<1>10. QED BY <1>4, <1>5, <1>7, <1>8, <1>9 DEF Provisioned

-----------------------------------------------------------------------------
(* Every step keeps what provisionings know.                               *)

LEMMA InitProvisioned == Init => Provisioned
<1> SUFFICES ASSUME Init PROVE Provisioned
  OBVIOUS
<1>1. PICK k \in Keys, had \in {{}} \cup {{a} : a \in Generated} :
        /\ org = IF had = {} THEN {} ELSE {k}
        /\ wallet = [a \in Addresses |->
                       IF a \in had THEN [state |-> "live", org |-> k] ELSE NoWallet]
        /\ dkg = had
  BY DEF Init, ProvisioningInit
<1>2. call = [c \in Calls |-> Idle]
  BY DEF Init, ProvisioningInit
<1>3. Types
  BY <1>1, <1>2, IdleType DEF Types, WalletTypes
<1>4. \A c \in Calls : WorkOK(c)
  BY <1>2, IdleOK
<1>5. OneCreates
  BY <1>2 DEF OneCreates, Idle, At
<1>6. \A a \in Addresses : HasRow(a) <=> a \in had
  BY <1>1 DEF HasRow, NoWallet
<1>7. GeneratedRows
  BY <1>1, <1>6, ProvisioningAssumption DEF GeneratedRows
<1>8. \A a, b \in had : a = b
  OBVIOUS
<1>9. OneProvisionedWallet
  BY <1>1, <1>8 DEF OneProvisionedWallet
<1>10. QED BY <1>3, <1>4, <1>5, <1>7, <1>9 DEF Provisioned

LEMMA BeginStep ==
  ASSUME Provisioned, NEW c \in Calls, NEW k \in Keys,
         NEW pc \in (ProvisioningPcs \ {"idle", "create_org", "create_wallet"})
                      \cup SendingPcs \cup SyncPcs \cup {"build"},
         NEW a \in Addresses \cup {None},
         NEW about \in Keys \cup Txs \cup (Txs \X (Delegations \cup {None})) \cup {None},
         pc \in AddressPcs => a \in Addresses,
         pc \in {"find_address", "register"} => (a \in Generated => HasRow(a)),
         Begin(c, k, pc, a, about)
  PROVE  Provisioned'
<1> DEFINE r == [pc |-> pc, key |-> k, snap |-> Snapshot(k), addr |-> a, about |-> about]
<1>1. r \in CallTypes /\ r.pc # "create_wallet"
  BY DEF CallTypes, Snapshot, ProvisioningPcs, SendingPcs, SyncPcs
<1>2. call' = [call EXCEPT ![c] = r] /\ call'[c] = r /\ UNCHANGED <<org, wallet, dkg>>
  BY DEF Begin, Becomes, rows, Provisioned, Types
<1>3. WorkOK(c)'
  BY <1>2 DEF WorkOK, At, HasRow, ProvisioningPcs, SendingPcs, SyncPcs
<1> HIDE DEF r
<1>4. QED BY <1>1, <1>2, <1>3, QuietStep

LEMMA OrgStep ==
  ASSUME Provisioned, NEW c \in Calls,
         OrgLookedUp(c) \/ DkgAnswered(c) \/ OrgCreated(c)
  PROVE  Provisioned'
<1>1. CASE OrgLookedUp(c)
  BY <1>1, EndStep, GotoStep DEF OrgLookedUp, Reads, rows, At, ProvisioningPcs, AddressPcs
<1>2. CASE DkgAnswered(c)
  <2>1. PICK a \in Generated \ dkg :
          /\ dkg' = dkg \cup {a}
          /\ call' = [call EXCEPT ![c] = [call[c] EXCEPT !.pc = "create_org", !.addr = a]]
    BY <1>2 DEF DkgAnswered, Becomes
  <2>2. a \in Addresses /\ ~HasRow(a) /\ UNCHANGED <<org, wallet>>
    BY <1>2, <2>1, ProvisioningAssumption DEF DkgAnswered, rows, Provisioned, GeneratedRows
  <2> DEFINE r == [call[c] EXCEPT !.pc = "create_org", !.addr = a]
  <2>3. r \in CallTypes /\ r.pc = "create_org" /\ r.addr = a /\ r.key = call[c].key
    BY <2>2 DEF Provisioned, Types, CallTypes, ProvisioningPcs
  <2> HIDE DEF r
  <2>4. call' = [call EXCEPT ![c] = r] /\ call'[c] = r
    BY <2>1 DEF r, Provisioned, Types
  <2>5. \A d \in Calls : d # c => call'[d] = call[d]
    BY <2>4 DEF Provisioned, Types
  <2>6. Types'
    BY <2>1, <2>2, <2>3, <2>4 DEF Provisioned, Types
  <2>7. WorkOK(c)'
    <3>1. call[c].key \in Keys
      BY <1>2 DEF DkgAnswered, Provisioned, WorkOK, At
    <3>2. QED BY <3>1, <2>1, <2>2, <2>3, <2>4 DEF WorkOK, At
  <2>8. ASSUME NEW d \in Calls, d # c PROVE WorkOK(d)'
    <3>1. At(d, "create_wallet") => \A b \in dkg' : HasRow(b)' => wallet'[b].org # call[d].key
      BY <2>1, <2>2 DEF Provisioned, WorkOK, HasRow
    <3>2. QED BY <2>1, <2>2, <2>5, <2>8, <3>1, Undisturbed DEF Provisioned, HasRow
  <2>9. OneCreates'
    BY <2>3, <2>4, <2>5 DEF Provisioned, OneCreates, At
  <2>10. GeneratedRows' /\ OneProvisionedWallet'
    <3>1. GeneratedRows'
      BY <2>1, <2>2 DEF Provisioned, GeneratedRows, HasRow
    <3>2. \A b \in dkg : HasRow(b) => wallet[b].org \in Keys
      BY ProvisioningAssumption DEF Provisioned, Types, WalletTypes, HasRow
    <3>3. wallet[a].org \notin Keys
      BY <2>2, ProvisioningAssumption DEF HasRow, NoWallet
    <3>4. OneProvisionedWallet'
      BY <2>1, <2>2, <3>2, <3>3 DEF Provisioned, OneProvisionedWallet, HasRow
    <3>5. QED BY <3>1, <3>4
  <2>11. QED BY <2>6, <2>7, <2>8, <2>9, <2>10 DEF Provisioned
<1>3. CASE OrgCreated(c) /\ call[c].key \in org
  BY <1>3, EndStep DEF OrgCreated
<1>4. CASE OrgCreated(c) /\ call[c].key \notin org
  <2>1. org' = org \cup {call[c].key} /\ Goto(c, "create_wallet") /\ UNCHANGED <<wallet, dkg>>
    BY <1>4 DEF OrgCreated
  <2>2. call[c].key \in Keys /\ call[c].addr \in dkg /\ call[c].addr \in Addresses
    BY <1>4 DEF OrgCreated, Provisioned, WorkOK, At, AddressPcs
  <2> DEFINE r == [call[c] EXCEPT !.pc = "create_wallet"]
  <2>3. /\ r \in CallTypes /\ r.pc = "create_wallet"
        /\ r.key = call[c].key /\ r.addr = call[c].addr
    BY DEF Provisioned, Types, CallTypes, ProvisioningPcs
  <2> HIDE DEF r
  <2>4. call' = [call EXCEPT ![c] = r] /\ call'[c] = r
    BY <2>1 DEF r, Goto, Becomes, Provisioned, Types
  <2>5. \A d \in Calls : d # c => call'[d] = call[d]
    BY <2>4 DEF Provisioned, Types
  <2>6. Types'
    BY <2>1, <2>2, <2>3, <2>4 DEF Provisioned, Types
  <2>7. \A b \in dkg : HasRow(b) => wallet[b].org \in org
    BY DEF Provisioned, Types, GeneratedRows
  <2>8. WorkOK(c)'
    BY <1>4, <2>1, <2>2, <2>3, <2>4, <2>7 DEF WorkOK, At, HasRow
  <2>9. ASSUME NEW d \in Calls, d # c PROVE WorkOK(d)'
    <3>1. At(d, "create_wallet") => \A b \in dkg' : HasRow(b)' => wallet'[b].org # call[d].key
      BY <2>1 DEF Provisioned, WorkOK, HasRow
    <3>2. QED BY <2>1, <2>5, <2>9, <3>1, Undisturbed DEF Provisioned, HasRow
  <2>10. \A d \in Calls : At(d, "create_wallet") => call[d].key \in org
    BY DEF Provisioned, WorkOK
  <2>11. OneCreates'
    BY <1>4, <2>3, <2>4, <2>5, <2>10 DEF Provisioned, OneCreates, At
  <2>12. GeneratedRows' /\ OneProvisionedWallet'
    BY <2>1 DEF Provisioned, GeneratedRows, OneProvisionedWallet, HasRow
  <2>13. QED BY <2>6, <2>8, <2>9, <2>11, <2>12 DEF Provisioned
<1>5. QED BY <1>1, <1>2, <1>3, <1>4

LEMMA WalletRowStep ==
  ASSUME Provisioned, NEW c \in Calls,
         WalletProvisioned(c) \/ WalletRegistered(c) \/ SoftDeleted(c)
  PROVE  Provisioned'
<1> DEFINE a == call[c].addr
<1>1. a \in Addresses /\ call[c].key \in Keys /\ ~At(c, "idle")
  BY DEF WalletProvisioned, WalletRegistered, SoftDeleted, Provisioned, WorkOK, At, AddressPcs
<1>2. UNCHANGED <<org, dkg>>
  BY DEF WalletProvisioned, WalletRegistered, SoftDeleted
<1>3. CASE Ends(c) /\ UNCHANGED wallet
  BY <1>2, <1>3, EndStep
<1> DEFINE new == [state |-> "live", org |-> call[c].key]
<1>4. new \in WalletTypes /\ new.org = call[c].key
  BY <1>1 DEF WalletTypes
<1>5. CASE WalletProvisioned(c) /\ ~(Ends(c) /\ UNCHANGED wallet)
  <2>1. /\ At(c, "create_wallet") /\ ~HasRow(a) /\ Goto(c, "create_share")
        /\ wallet' = [wallet EXCEPT ![a] = new]
    BY <1>5 DEF WalletProvisioned, HasRow
  <2> HIDE DEF new
  <2>2. QED BY <1>1, <1>2, <1>4, <2>1, RowStep
<1>6. CASE WalletRegistered(c) /\ ~(Ends(c) /\ UNCHANGED wallet)
  <2>1. /\ At(c, "register") /\ ~HasRow(a) /\ Goto(c, "increment")
        /\ wallet' = [wallet EXCEPT ![a] = new]
    BY <1>6 DEF WalletRegistered, HasRow
  <2>2. a \notin Generated
    BY <2>1 DEF Provisioned, WorkOK, At
  <2> HIDE DEF new
  <2>3. QED BY <1>1, <1>2, <1>4, <2>1, <2>2, RowStep
<1>7. CASE SoftDeleted(c) /\ ~(Ends(c) /\ UNCHANGED wallet)
  <2> DEFINE row == [wallet[a] EXCEPT !.state = "deleted"]
  <2>1. HasRow(a) /\ Goto(c, "decrement") /\ wallet' = [wallet EXCEPT ![a] = row]
    BY <1>7 DEF SoftDeleted, HasRow
  <2>2. row \in WalletTypes /\ row.org = wallet[a].org
    BY <1>1, <2>1 DEF HasRow, Provisioned, Types, WalletTypes
  <2> HIDE DEF row
  <2>3. QED BY <1>1, <1>2, <2>1, <2>2, RowStep
<1>8. QED BY <1>3, <1>5, <1>6, <1>7

LEMMA HardDeletedStep ==
  ASSUME Provisioned, NEW a \in Addresses, HardDeleted(a)
  PROVE  Provisioned'
<1>1. /\ wallet' = [wallet EXCEPT ![a] = NoWallet] /\ UNCHANGED <<org, dkg, call>>
      /\ \A c \in Calls : call[c].addr # a
  BY DEF HardDeleted
<1>2. wallet'[a] = NoWallet /\ \A b \in Addresses : b # a => wallet'[b] = wallet[b]
  BY <1>1 DEF Provisioned, Types
<1>3. Types'
  BY <1>1 DEF Provisioned, Types
<1>4. \A b \in Addresses : HasRow(b)' => HasRow(b) /\ wallet'[b] = wallet[b]
  BY <1>2 DEF HasRow
<1>5. ASSUME NEW d \in Calls PROVE WorkOK(d)'
  <2>1. \A b \in dkg : b \in Addresses
    BY ProvisioningAssumption DEF Provisioned, Types
  <2>2. call[d].addr \in Addresses /\ HasRow(call[d].addr) => HasRow(call[d].addr)'
    BY <1>1, <1>2 DEF HasRow
  <2>3. At(d, "create_wallet") => \A b \in dkg' : HasRow(b)' => wallet'[b].org # call[d].key
    BY <1>1, <1>4, <2>1 DEF Provisioned, WorkOK
  <2>4. QED BY <1>1, <2>2, <2>3, Undisturbed DEF Provisioned
<1>6. OneCreates' /\ GeneratedRows'
  BY <1>1, <1>4, ProvisioningAssumption DEF Provisioned, OneCreates, GeneratedRows, At
<1>7. \A b \in Addresses : ~HasRow(b)' => wallet'[b].org \notin Keys
  BY ProvisioningAssumption DEF HasRow, NoWallet
<1>8. OneProvisionedWallet'
  <2> SUFFICES ASSUME NEW x \in dkg, NEW y \in dkg, HasRow(x)', wallet'[x].org = wallet'[y].org
               PROVE  x = y
    BY <1>1 DEF OneProvisionedWallet, HasRow
  <2>1. x \in Addresses /\ y \in Addresses
    BY ProvisioningAssumption DEF Provisioned, Types
  <2>2. HasRow(x) /\ wallet'[x] = wallet[x] /\ wallet[x].org \in Keys
    BY <2>1, <1>4 DEF Provisioned, Types, HasRow, WalletTypes
  <2>3. wallet'[y] = wallet[y]
    BY <2>1, <2>2, <1>4, <1>7
  <2>4. QED BY <2>2, <2>3 DEF Provisioned, OneProvisionedWallet, HasRow
<1>9. QED BY <1>3, <1>5, <1>6, <1>8 DEF Provisioned

LEMMA ProvisioningCallStep ==
  ASSUME Provisioned, NEW c \in Calls, ProvisioningStep(c)
  PROVE  Provisioned'
<1>1. CASE CallFails(c)
  BY <1>1, EndStep DEF CallFails, Reads, rows
<1>2. CASE KeysCounted(c) \/ KeyCreated(c) \/ KeyRevoked(c)
  BY <1>2, EndStep, GotoStep
  DEF KeysCounted, KeyCreated, KeyRevoked, Reads, rows, At, ProvisioningPcs, AddressPcs
<1>3. CASE OrgLookedUp(c) \/ DkgAnswered(c) \/ OrgCreated(c)
  BY <1>3, OrgStep
<1>4. CASE WalletProvisioned(c) \/ WalletRegistered(c) \/ SoftDeleted(c)
  BY <1>4, WalletRowStep
<1>5. CASE ShareStored(c)
  <2>1. CASE Ends(c)
    BY <1>5, <2>1, EndStep DEF ShareStored
  <2>2. CASE UNCHANGED call
    <3>1. \A d \in Calls : WorkOK(d)'
      BY <1>5, <2>2, Undisturbed DEF ShareStored, Provisioned, HasRow, WorkOK
    <3>2. QED
      BY <1>5, <2>2, <3>1 DEF ShareStored, Provisioned, Types, OneCreates, GeneratedRows,
         HasRow, At, OneProvisionedWallet
  <2>3. QED BY <1>5, <2>1, <2>2 DEF ShareStored
<1>6. CASE SponsorshipUpdated(c) \/ CountUpdated(c)
  BY <1>6, EndStep DEF SponsorshipUpdated, CountUpdated
<1>7. CASE AddressLookedUp(c)
  <2>1. CASE Ends(c)
    BY <1>7, <2>1, EndStep DEF AddressLookedUp, Reads, rows
  <2>2. CASE Goto(c, "register")
    <3> DEFINE r == [call[c] EXCEPT !.pc = "register"]
    <3>1. /\ r \in CallTypes /\ r.pc = "register"
          /\ r.key = call[c].key /\ r.addr = call[c].addr
      BY DEF Provisioned, Types, CallTypes, ProvisioningPcs
    <3> HIDE DEF r
    <3>2. call' = [call EXCEPT ![c] = r] /\ call'[c] = r
      BY <2>2 DEF r, Goto, Becomes, Provisioned, Types
    <3>3. /\ call[c].key \in Keys /\ call[c].addr \in Addresses
          /\ call[c].addr \in Generated => HasRow(call[c].addr)
      BY <1>7 DEF AddressLookedUp, Provisioned, WorkOK, At, AddressPcs
    <3>4. UNCHANGED <<org, wallet, dkg>>
      BY <1>7 DEF AddressLookedUp, Reads, rows
    <3>5. WorkOK(c)'
      BY <3>1, <3>2, <3>3, <3>4 DEF WorkOK, At, HasRow
    <3>6. QED BY <3>1, <3>2, <3>4, <3>5, QuietStep
  <2>3. QED BY <1>7, <2>1, <2>2 DEF AddressLookedUp
<1>8. CASE WalletLookedUp(c)
  BY <1>8, EndStep, GotoStep
  DEF WalletLookedUp, Reads, rows, At, ProvisioningPcs, AddressPcs, Provisioned, WorkOK
<1>9. QED
  BY <1>1, <1>2, <1>3, <1>4, <1>5, <1>6, <1>7, <1>8 DEF ProvisioningStep

LEMMA ProvisioningBeginStep ==
  ASSUME Provisioned, NEW c \in Calls, NEW k \in Keys, ProvisioningBegins(c, k)
  PROVE  Provisioned'
<1>1. CASE \E pc \in {"count_keys", "find_org", "update_sponsorship"} :
             Begin(c, k, pc, None, None)
  BY <1>1, BeginStep DEF ProvisioningPcs, AddressPcs
<1>2. CASE \E x \in Keys : Begin(c, k, "revoke_key", None, x)
  BY <1>2, BeginStep DEF ProvisioningPcs, AddressPcs
<1>3. CASE \E a \in Known \cup (Addresses \ Generated) :
             BeginWallet(c, k, "find_address", a, None)
  BY <1>3, BeginStep DEF BeginWallet, ProvisioningPcs, AddressPcs, Known, HasRow
<1>4. CASE \E a \in Known : BeginWallet(c, k, "find_wallet", a, None)
  BY <1>4, BeginStep DEF BeginWallet, ProvisioningPcs, AddressPcs, Known
<1>5. QED BY <1>1, <1>2, <1>3, <1>4 DEF ProvisioningBegins

LEMMA TransactionBeginStep ==
  ASSUME Provisioned, Delegating, NEW c \in Calls, NEW k \in Keys, TransactionBegins(c, k)
  PROVE  Provisioned'
<1>1. ASSUME NEW a \in Addresses, NEW t \in Txs, SignAndSend(c, k, a, t) PROVE Provisioned'
  <2>1. Attached(a) \in Delegations \cup {None}
    BY DEF Attached, Delegating, Signed
  <2>2. Begin(c, k, "find_sender", a, <<t, Attached(a)>>)
    BY <1>1 DEF SignAndSend, BeginWallet
  <2>3. QED BY <2>1, <2>2, BeginStep DEF SendingPcs, AddressPcs
<1>2. ASSUME NEW a \in Addresses, NEW t \in Txs, BeginWallet(c, k, "find_owned", a, <<t, None>>)
      PROVE Provisioned'
  BY <1>2, BeginStep DEF BeginWallet, SendingPcs, AddressPcs
<1>3. ASSUME NEW a \in Addresses, NEW pc \in {"build", "fetch"}, BeginWallet(c, k, pc, a, None)
      PROVE Provisioned'
  BY <1>3, BeginStep DEF BeginWallet, SyncPcs, AddressPcs
<1>4. QED BY <1>1, <1>2, <1>3 DEF TransactionBegins

LEMMA TransactionCallStep ==
  ASSUME Provisioned, NEW c \in Calls, TransactionStep(c)
  PROVE  Provisioned'
<1>1. UNCHANGED <<org, wallet, dkg>>
  BY DEF TransactionStep, NonceChosen, SenderLookedUp, DelegationVerified, WalletFound,
     RelayerAnswers, RelayerFails, NodeAnswers, Fetched, TxLookedUp, TxWritten, Reads, rows
<1>2. CASE Ends(c)
  BY <1>1, <1>2, EndStep
<1>3. ASSUME NEW pc \in {"find_signer", "relayer", "node", "sync"}, Goto(c, pc), ~At(c, "idle")
      PROVE  Provisioned'
  BY <1>1, <1>3, GotoStep DEF SendingPcs, SyncPcs, AddressPcs
<1>4. ASSUME NEW t \in Txs, NEW pc \in {"create_tx", "update_tx"}, ~At(c, "idle"),
             Becomes(c, [call[c] EXCEPT !.pc = pc, !.about = t])
      PROVE  Provisioned'
  <2> DEFINE r == [call[c] EXCEPT !.pc = pc, !.about = t]
  <2>1. r \in CallTypes /\ r.pc = pc /\ r.key = call[c].key
    BY DEF Provisioned, Types, CallTypes, SyncPcs
  <2>2. call' = [call EXCEPT ![c] = r] /\ call'[c] = r
    BY <1>4 DEF Becomes, Provisioned, Types
  <2>3. call[c].key \in Keys
    BY <1>4 DEF Provisioned, WorkOK, At
  <2> HIDE DEF r
  <2>4. WorkOK(c)'
    BY <2>1, <2>2, <2>3 DEF WorkOK, At, AddressPcs
  <2>5. QED BY <1>1, <2>1, <2>2, <2>4, QuietStep
<1>5. CASE NonceChosen(c) \/ SenderLookedUp(c) \/ DelegationVerified(c) \/ WalletFound(c)
  BY <1>2, <1>3, <1>5
  DEF NonceChosen, SenderLookedUp, DelegationVerified, WalletFound, Broadcasts, At
<1>6. CASE RelayerAnswers(c) \/ RelayerFails(c) \/ NodeAnswers(c)
  BY <1>2, <1>3, <1>6 DEF RelayerAnswers, RelayerFails, NodeAnswers, At
<1>7. CASE Fetched(c)
  BY <1>2, <1>3, <1>7 DEF Fetched, At
<1>8. ASSUME NEW t \in Txs, TxLookedUp(c, t) PROVE Provisioned'
  BY <1>2, <1>3, <1>4, <1>8 DEF TxLookedUp, Took, At
<1>9. CASE TxWritten(c)
  BY <1>2, <1>3, <1>9 DEF TxWritten, Took, At
<1>10. QED BY <1>5, <1>6, <1>7, <1>8, <1>9 DEF TransactionStep

LEMMA QuietRows ==
  ASSUME Provisioned, UNCHANGED <<org, wallet, dkg, call>> PROVE Provisioned'
<1>1. \A d \in Calls : WorkOK(d)'
  BY Undisturbed DEF Provisioned, HasRow, WorkOK
<1>2. QED
  BY <1>1 DEF Provisioned, Types, OneCreates, GeneratedRows, HasRow, At, OneProvisionedWallet

LEMMA StepProvisioned == Provisioned /\ Delegating /\ [Next]_vars => Provisioned'
<1> SUFFICES ASSUME Provisioned, Delegating, [Next]_vars PROVE Provisioned'
  OBVIOUS
<1>1. CASE ProvisioningNext
  BY <1>1, ProvisioningCallStep, ProvisioningBeginStep, HardDeletedStep DEF ProvisioningNext
<1>2. CASE \E c \in Calls : TransactionStep(c) \/ \E k \in Keys : TransactionBegins(c, k)
  BY <1>2, TransactionCallStep, TransactionBeginStep
<1>3. CASE \E a \in Addresses : CreateSession(a) \/ ClearSession(a)
  BY <1>3, QuietRows DEF CreateSession, ClearSession, NoProvisioning, provisioningVars, rows
<1>4. CASE \E t \in Txs : RelayerSends(t) \/ Confirmed(t)
  BY <1>4, QuietRows DEF RelayerSends, Confirmed, NoProvisioning, provisioningVars, rows
<1>5. CASE PruneNonces \/ Tick
  BY <1>5, QuietRows DEF PruneNonces, Tick, NoProvisioning, provisioningVars, rows
<1>6. CASE UNCHANGED vars
  BY <1>6, QuietRows DEF vars, provisioningVars, rows
<1>7. QED BY <1>1, <1>2, <1>3, <1>4, <1>5, <1>6 DEF Next

-----------------------------------------------------------------------------
(* Calls of provisioning and calls of transactions do not meet.            *)

\* One call moves, to one of some phases.
Moves(c, pcs) ==
  /\ \A d \in Calls : d # c => call'[d] = call[d]
  /\ call'[c].pc \in pcs

LEMMA EndMoves == ASSUME Types, NEW c \in Calls, Ends(c) PROVE Moves(c, {"idle"})
BY DEF Types, Ends, Becomes, Idle, Moves

LEMMA GotoMoves ==
  ASSUME Types, NEW c \in Calls, NEW pc, Goto(c, pc)
  PROVE  Moves(c, {pc}) /\ call'[c].about = call[c].about
BY DEF Types, CallTypes, Goto, Becomes, Moves

LEMMA BeginMoves ==
  ASSUME Types, NEW c \in Calls, NEW k, NEW pc, NEW a, NEW about, Begin(c, k, pc, a, about)
  PROVE  Moves(c, {pc}) /\ call'[c].about = about
BY DEF Types, Begin, Becomes, Moves

LEMMA ProvisioningMoves ==
  ASSUME Types, ProvisioningNext
  PROVE  UNCHANGED call \/ \E c \in Calls : Moves(c, ProvisioningPcs)
<1>1. ASSUME NEW c \in Calls, Ends(c) PROVE Moves(c, ProvisioningPcs)
  BY <1>1, EndMoves DEF Moves, ProvisioningPcs
<1>2. ASSUME NEW c \in Calls, NEW pc \in ProvisioningPcs, Goto(c, pc)
      PROVE  Moves(c, ProvisioningPcs)
  BY <1>2, GotoMoves DEF Moves
<1>3. ASSUME NEW c \in Calls, NEW k \in Keys, ProvisioningBegins(c, k)
      PROVE  Moves(c, ProvisioningPcs)
  BY <1>3, BeginMoves DEF ProvisioningBegins, BeginWallet, Moves, ProvisioningPcs
<1>4. ASSUME NEW c \in Calls, ProvisioningStep(c)
      PROVE  UNCHANGED call \/ Moves(c, ProvisioningPcs)
  <2>1. CASE DkgAnswered(c)
    BY <2>1 DEF DkgAnswered, Becomes, Types, CallTypes, Moves, ProvisioningPcs
  <2>2. CASE KeysCounted(c) \/ KeyCreated(c) \/ KeyRevoked(c) \/ CallFails(c)
    BY <2>2, <1>1, <1>2 DEF KeysCounted, KeyCreated, KeyRevoked, CallFails, ProvisioningPcs
  <2>3. CASE OrgLookedUp(c) \/ OrgCreated(c) \/ WalletProvisioned(c) \/ ShareStored(c)
    BY <2>3, <1>1, <1>2
    DEF OrgLookedUp, OrgCreated, WalletProvisioned, ShareStored, ProvisioningPcs
  <2>4. CASE SponsorshipUpdated(c) \/ AddressLookedUp(c) \/ WalletRegistered(c)
    BY <2>4, <1>1, <1>2
    DEF SponsorshipUpdated, AddressLookedUp, WalletRegistered, ProvisioningPcs
  <2>5. CASE WalletLookedUp(c) \/ SoftDeleted(c) \/ CountUpdated(c)
    BY <2>5, <1>1, <1>2 DEF WalletLookedUp, SoftDeleted, CountUpdated, ProvisioningPcs
  <2>6. QED BY <1>4, <2>1, <2>2, <2>3, <2>4, <2>5 DEF ProvisioningStep
<1>5. ASSUME NEW a \in Addresses, HardDeleted(a) PROVE UNCHANGED call
  BY <1>5 DEF HardDeleted
<1>6. QED BY <1>3, <1>4, <1>5 DEF ProvisioningNext

-----------------------------------------------------------------------------
(* Delegations.                                                            *)

LEMMA InitDelegating == Init => Delegating
<1> SUFFICES ASSUME Init PROVE Delegating
  OBVIOUS
<1>1. \A c \in Calls : SendOK(c)
  BY DEF Init, ProvisioningInit, Idle, SendOK, SendingPcs, At
<1>2. QED BY <1>1 DEF Init, Delegating

\* Where nothing happens to delegations.
LEMMA SameDelegations ==
  ASSUME Delegating, UNCHANGED <<now, sessionVars>>,
         \A d \in Calls : call'[d] = call[d] \/ SendOK(d)'
  PROVE  Delegating'
<1>1. Signed' = Signed
  BY DEF Signed, sessionVars
<1>2. \A d \in Calls : SendOK(d)'
  BY <1>1 DEF Delegating, SendOK, At, Delegated
<1>3. \A d \in Delegations : Remembered(d)' <=> Remembered(d)
  BY <1>1 DEF Remembered, Expired, sessionVars
<1>4. QED BY <1>1, <1>2, <1>3 DEF Delegating, sessionVars

\* A call that moves to a phase in which it sends nothing, or what it was
\* sending before.
LEMMA MoveSends ==
  ASSUME Delegating, UNCHANGED <<now, sessionVars>>, NEW c \in Calls, NEW pcs, Moves(c, pcs),
         \/ pcs \cap SendingPcs = {}
         \/ /\ call[c].pc \in SendingPcs /\ call'[c].about = call[c].about
            /\ "find_signer" \in pcs => Delegated(c) # None
  PROVE  Delegating'
<1>1. Signed' = Signed
  BY DEF Signed, sessionVars
<1>2. SendOK(c)'
  BY <1>1 DEF Moves, SendOK, SendingPcs, At, Delegated, Delegating
<1>3. QED BY <1>2, SameDelegations DEF Moves

LEMMA SessionStep ==
  ASSUME Delegating, NEW a \in Addresses, CreateSession(a) \/ ClearSession(a)
  PROVE  Delegating'
<1> UNCHANGED <<now, used, accepted, call>>
  BY DEF CreateSession, ClearSession, NoProvisioning, provisioningVars
<1>1. CASE CreateSession(a)
  <2>1. PICK d \in Delegations :
          /\ delegation[d] = NoDelegation
          /\ delegation' = [delegation EXCEPT ![d] = [addr |-> a, expires |-> now + Lifetime]]
          /\ session' = [session EXCEPT ![a] = d]
    BY <1>1 DEF CreateSession
  <2> DEFINE new == [addr |-> a, expires |-> now + Lifetime]
  <2>2. new \in [addr : Addresses, expires : Nat \ {0}] /\ new # NoDelegation
    BY TransactionsAssumption, ProvisioningAssumption DEF Delegating, NoDelegation
  <2> HIDE DEF new
  <2>3. delegation'[d] = new /\ \A e \in Delegations : e # d => delegation'[e] = delegation[e]
    BY <2>1 DEF new, Delegating
  <2>4. Signed' = Signed \cup {d} /\ d \notin Signed
    BY <2>1, <2>2, <2>3 DEF Signed
  <2>5. \A e \in accepted : Remembered(e)'
    BY <2>3, <2>4 DEF Delegating, Remembered, Expired
  <2>6. \A c \in Calls : SendOK(c)'
    BY <2>4 DEF Delegating, SendOK, At, Delegated
  <2>7. /\ delegation' \in [Delegations -> [addr : Addresses, expires : Nat \ {0}] \cup {NoDelegation}]
        /\ session' \in [Addresses -> Signed' \cup {None}]
    BY <2>1, <2>2, <2>4 DEF new, Delegating
  <2>8. QED BY <2>5, <2>6, <2>7 DEF Delegating
<1>2. CASE ClearSession(a)
  <2>1. delegation' = delegation /\ session' = [session EXCEPT ![a] = None] /\ Signed' = Signed
    BY <1>2 DEF ClearSession, Signed
  <2>2. \A e \in accepted : Remembered(e)'
    BY <2>1 DEF Delegating, Remembered, Expired
  <2>3. \A c \in Calls : SendOK(c)'
    BY <2>1 DEF Delegating, SendOK, At, Delegated
  <2>4. QED BY <2>1, <2>2, <2>3 DEF Delegating
<1>3. QED BY <1>1, <1>2

LEMMA SendStep ==
  ASSUME Types, Delegating, NEW c \in Calls, NEW k \in Keys, NEW a \in Addresses, NEW t \in Txs,
         SignAndSend(c, k, a, t)
  PROVE  Delegating'
<1>1. /\ Begin(c, k, "find_sender", a, <<t, Attached(a)>>)
      /\ session' = [session EXCEPT ![a] = Attached(a)]
      /\ UNCHANGED <<now, delegation, used, accepted>>
  BY DEF SignAndSend, BeginWallet
<1>2. Signed' = Signed /\ Attached(a) \in Signed \cup {None}
  BY <1>1 DEF Signed, Attached, Delegating
<1>3. \A d \in Calls : d # c => call'[d] = call[d]
  BY <1>1, BeginMoves DEF Moves
<1>4. call'[c].pc = "find_sender" /\ call'[c].about = <<t, Attached(a)>>
  BY <1>1, BeginMoves DEF Moves
<1>5. SendOK(c)'
  BY <1>2, <1>4 DEF SendOK, At
<1>6. \A d \in Calls : SendOK(d)'
  BY <1>2, <1>3, <1>5 DEF Delegating, SendOK, At, Delegated
<1>7. \A e \in accepted : Remembered(e)'
  BY <1>1, <1>2 DEF Delegating, Remembered, Expired
<1>8. QED BY <1>1, <1>2, <1>6, <1>7 DEF Delegating

LEMMA VerifiedStep ==
  ASSUME Types, Delegating, NEW c \in Calls, DelegationVerified(c)
  PROVE  Delegating'
<1> DEFINE d == Delegated(c)
<1>1. d \in Signed /\ call[c].pc = "find_signer"
  BY DEF DelegationVerified, Delegating, SendOK, At, SendingPcs, Delegated
<1>2. CASE UNCHANGED <<used, accepted>>
  <2>1. Ends(c) \/ Goto(c, "relayer") \/ Goto(c, "node")
    BY DEF DelegationVerified, Broadcasts
  <2>2. UNCHANGED <<now, sessionVars>>
    BY <1>2 DEF DelegationVerified, sessionVars
  <2>3. CASE Ends(c)
    BY <2>2, <2>3, EndMoves, MoveSends DEF SendingPcs
  <2>4. ASSUME NEW pc \in {"relayer", "node"}, Goto(c, pc) PROVE Delegating'
    <3>1. Moves(c, {pc}) /\ call'[c].about = call[c].about /\ call[c].pc \in SendingPcs
      BY <1>1, <2>4, GotoMoves DEF SendingPcs
    <3>2. QED BY <2>2, <3>1, MoveSends
  <2>5. QED BY <2>1, <2>3, <2>4
<1>3. CASE ~UNCHANGED <<used, accepted>>
  <2>1. /\ used' = [used EXCEPT ![d] = delegation[d].expires + Buffer]
        /\ accepted' = accepted \cup {d}
        /\ Goto(c, "relayer") \/ Goto(c, "node")
        /\ UNCHANGED <<now, delegation, session>>
    BY <1>3 DEF DelegationVerified, Broadcasts
  <2>2. Signed' = Signed /\ d \in Delegations
    BY <1>1, <2>1 DEF Signed
  <2>3. delegation[d].expires + Buffer \in Nat
    BY <1>1, TransactionsAssumption DEF Delegating, Signed
  <2> HIDE DEF d
  <2>4. used' \in [Delegations -> Nat] /\ used'[d] = delegation[d].expires + Buffer
    BY <2>1, <2>2, <2>3 DEF Delegating
  <2>5. \A e \in accepted' : Remembered(e)'
    BY <1>1, <2>1, <2>2, <2>4 DEF Delegating, Remembered, Expired
  <2>6. \A e \in Calls : SendOK(e)'
    <3>1. \A e \in Calls : e # c => call'[e] = call[e]
      BY <2>1, GotoMoves DEF Moves
    <3>2. call'[c].pc \in {"relayer", "node"} /\ call'[c].about = call[c].about
      BY <2>1, GotoMoves DEF Moves
    <3>3. SendOK(c)'
      BY <1>1, <2>2, <3>2 DEF Delegating, SendOK, At, SendingPcs
    <3>4. QED BY <2>2, <3>1, <3>3 DEF Delegating, SendOK, At, Delegated
  <2>7. QED BY <2>1, <2>2, <2>4, <2>5, <2>6 DEF Delegating
<1>4. QED BY <1>2, <1>3

LEMMA PruneStep == ASSUME Delegating, PruneNonces PROVE Delegating'
<1>1. /\ used' = [d \in Delegations |-> IF now > used[d] THEN 0 ELSE used[d]]
      /\ UNCHANGED <<now, delegation, session, accepted, call>>
  BY DEF PruneNonces, NoProvisioning, provisioningVars
<1>2. Signed' = Signed
  BY <1>1 DEF Signed
<1>3. ASSUME NEW d \in accepted PROVE Remembered(d)'
  <2>1. d \in Signed /\ d \in Delegations /\ delegation[d].expires \in Nat
    BY DEF Delegating, Remembered, Signed
  <2>2. used'[d] = IF now > used[d] THEN 0 ELSE used[d]
    BY <1>1, <2>1
  <2>3. QED
    BY <1>1, <1>2, <2>1, <2>2, TransactionsAssumption DEF Delegating, Remembered, Expired
<1>4. used' \in [Delegations -> Nat]
  BY <1>1 DEF Delegating
<1>5. \A c \in Calls : SendOK(c)'
  BY <1>1, <1>2 DEF Delegating, SendOK, At, Delegated
<1>6. QED BY <1>1, <1>2, <1>3, <1>4, <1>5 DEF Delegating

LEMMA TickStep == ASSUME Delegating, Tick PROVE Delegating'
<1>1. now' = now + 1 /\ UNCHANGED <<sessionVars, call>>
  BY DEF Tick, NoProvisioning, provisioningVars
<1>2. Signed' = Signed
  BY <1>1 DEF Signed, sessionVars
<1>3. ASSUME NEW d \in accepted PROVE Remembered(d)'
  <2>1. d \in Signed /\ delegation[d].expires \in Nat
    BY DEF Delegating, Remembered, Signed
  <2>2. QED BY <1>1, <1>2, <2>1 DEF Delegating, Remembered, Expired, sessionVars
<1>4. \A c \in Calls : SendOK(c)'
  BY <1>1, <1>2 DEF Delegating, SendOK, At, Delegated
<1>5. QED BY <1>1, <1>2, <1>3, <1>4 DEF Delegating, sessionVars

LEMMA TransactionSendStep ==
  ASSUME Types, Delegating, NEW c \in Calls, TransactionStep(c)
  PROVE  Delegating'
<1>1. CASE DelegationVerified(c)
  BY <1>1, VerifiedStep
<1>2. ASSUME UNCHANGED <<now, sessionVars>>, Ends(c) PROVE Delegating'
  BY <1>2, EndMoves, MoveSends DEF SendingPcs
<1>3. ASSUME UNCHANGED <<now, sessionVars>>, NEW pc \in {"relayer", "node"}, Goto(c, pc),
             call[c].pc \in SendingPcs
      PROVE  Delegating'
  BY <1>3, GotoMoves, MoveSends
<1>4. ASSUME UNCHANGED <<now, sessionVars>>, NEW pc \in SyncPcs, Moves(c, {pc})
      PROVE  Delegating'
  BY <1>4, MoveSends DEF SendingPcs, SyncPcs
<1>5. CASE SenderLookedUp(c)
  <2>1. UNCHANGED <<now, sessionVars>> /\ call[c].pc \in SendingPcs
    BY <1>5 DEF SenderLookedUp, sessionVars, SendingPcs, At
  <2>2. CASE Goto(c, "find_signer") /\ Delegated(c) # None
    <3>1. Moves(c, {"find_signer"}) /\ call'[c].about = call[c].about
      BY <2>2, GotoMoves
    <3>2. QED BY <2>1, <2>2, <3>1, MoveSends
  <2>3. QED BY <1>5, <2>1, <2>2, <1>2, <1>3 DEF SenderLookedUp, Broadcasts
<1>6. CASE WalletFound(c) \/ NonceChosen(c)
  BY <1>6, <1>2, <1>3
  DEF WalletFound, NonceChosen, Broadcasts, transactionVars, sessionVars, SendingPcs, At
<1>7. CASE RelayerAnswers(c) \/ RelayerFails(c) \/ NodeAnswers(c)
  BY <1>7, <1>2, <1>3
  DEF RelayerAnswers, RelayerFails, NodeAnswers, sessionVars, SendingPcs, At
<1>8. ASSUME UNCHANGED <<now, sessionVars>>, Goto(c, "sync") PROVE Delegating'
  BY <1>4, <1>8, GotoMoves DEF SyncPcs
<1>9. CASE Fetched(c) \/ TxWritten(c)
  BY <1>9, <1>2, <1>8 DEF Fetched, TxWritten, Took
<1>10. ASSUME NEW t \in Txs, TxLookedUp(c, t) PROVE Delegating'
  <2>1. UNCHANGED <<now, sessionVars>>
    BY <1>10 DEF TxLookedUp
  <2>2. ASSUME NEW pc \in {"create_tx", "update_tx"},
               Becomes(c, [call[c] EXCEPT !.pc = pc, !.about = t])
        PROVE  Delegating'
    <3>1. Moves(c, {pc})
      BY <2>2 DEF Becomes, Types, CallTypes, Moves
    <3>2. QED BY <2>1, <3>1, <1>4 DEF SyncPcs
  <2>3. QED BY <1>10, <2>1, <2>2, <1>2, <1>8 DEF TxLookedUp, Took
<1>11. QED BY <1>1, <1>5, <1>6, <1>7, <1>9, <1>10 DEF TransactionStep

LEMMA StepDelegating == Types /\ Delegating /\ [Next]_vars => Delegating'
<1> SUFFICES ASSUME Types, Delegating, [Next]_vars PROVE Delegating'
  OBVIOUS
<1>1. ASSUME UNCHANGED <<now, sessionVars>>, UNCHANGED call PROVE Delegating'
  BY <1>1, SameDelegations
<1>2. CASE ProvisioningNext /\ UNCHANGED transactionVars
  <2>1. UNCHANGED <<now, sessionVars>>
    BY <1>2 DEF transactionVars
  <2>2. ASSUME NEW c \in Calls, Moves(c, ProvisioningPcs) PROVE Delegating'
    BY <2>1, <2>2, MoveSends DEF ProvisioningPcs, SendingPcs
  <2>3. QED BY <1>1, <1>2, <2>1, <2>2, ProvisioningMoves
<1>3. ASSUME NEW c \in Calls, NEW k \in Keys, TransactionBegins(c, k) PROVE Delegating'
  <2>1. ASSUME NEW a \in Addresses, NEW t \in Txs, SignAndSend(c, k, a, t) PROVE Delegating'
    BY <2>1, SendStep
  <2>2. ASSUME NEW a \in Addresses, NEW t \in Txs, UNCHANGED transactionVars,
               BeginWallet(c, k, "find_owned", a, <<t, None>>)
        PROVE  Delegating'
    <3>1. Moves(c, {"find_owned"}) /\ call'[c].about = <<t, None>>
      BY <2>2, BeginMoves DEF BeginWallet
    <3>2. SendOK(c)'
      BY <3>1 DEF SendOK, Moves, At
    <3>3. QED BY <2>2, <3>1, <3>2, SameDelegations DEF Moves, transactionVars
  <2>3. ASSUME NEW a \in Addresses, NEW pc \in {"build", "fetch"}, UNCHANGED transactionVars,
               BeginWallet(c, k, pc, a, None)
        PROVE  Delegating'
    <3>1. Moves(c, {pc}) /\ UNCHANGED <<now, sessionVars>>
      BY <2>3, BeginMoves DEF BeginWallet, transactionVars
    <3>2. QED BY <3>1, MoveSends DEF SendingPcs
  <2>4. QED BY <1>3, <2>1, <2>2, <2>3 DEF TransactionBegins
<1>4. ASSUME NEW c \in Calls, TransactionStep(c) PROVE Delegating'
  BY <1>4, TransactionSendStep
<1>5. ASSUME NEW a \in Addresses, CreateSession(a) \/ ClearSession(a) PROVE Delegating'
  BY <1>5, SessionStep
<1>6. ASSUME NEW t \in Txs, RelayerSends(t) \/ Confirmed(t) PROVE Delegating'
  BY <1>1, <1>6 DEF RelayerSends, Confirmed, NoProvisioning, provisioningVars
<1>7. CASE UNCHANGED vars
  BY <1>1, <1>7 DEF vars, provisioningVars, transactionVars
<1>8. QED
  BY <1>2, <1>3, <1>4, <1>5, <1>6, <1>7, PruneStep, TickStep DEF Next

-----------------------------------------------------------------------------
(* What is known of the chain.                                             *)

LEMMA InitSyncing == Init => Syncing
BY DEF Init, ProvisioningInit, Idle, Syncing, SyncOK, Behind, Statuses

\* The chain only moves on: from absent to pending to confirmed.
ChainMovesOn ==
  /\ chain' \in [Txs -> Statuses]
  /\ \A t \in Txs : /\ chain[t] # "absent" => chain'[t] # "absent"
                    /\ chain[t] = "confirmed" => chain'[t] = "confirmed"

LEMMA BehindStays ==
  ASSUME ChainMovesOn, NEW s, NEW t \in Txs, Behind(s, t)
  PROVE  /\ s \in Statuses
         /\ s # "absent" => chain'[t] # "absent"
         /\ s = "confirmed" => chain'[t] = "confirmed"
BY DEF ChainMovesOn, Behind

\* Rows and what was fetched may stay, or be written with what is behind.
LEMMA SyncStep ==
  ASSUME Syncing, ChainMovesOn,
         record' = [t \in Txs |-> record'[t]],
         view' = [c \in Calls |-> [t \in Txs |-> view'[c][t]]],
         \A t \in Txs : record'[t] = record[t] \/ Behind(record'[t], t),
         \A c \in Calls, t \in Txs : view'[c][t] = view[c][t] \/ Behind(view'[c][t], t),
         \A c \in Calls : call'[c] = call[c] \/ SyncOK(c)'
  PROVE  Syncing'
<1>1. \A t \in Txs : Behind(record[t], t)'
  BY BehindStays DEF Syncing, Behind
<1>2. \A c \in Calls, t \in Txs : Behind(view[c][t], t)'
  BY BehindStays DEF Syncing, Behind
<1>3. \A c \in Calls : SyncOK(c)'
  BY DEF Syncing, SyncOK
<1>4. QED BY <1>1, <1>2, <1>3 DEF Syncing, ChainMovesOn

LEMMA SameChain ==
  ASSUME Syncing, UNCHANGED <<chain, record, view>>,
         \A c \in Calls : call'[c] = call[c] \/ SyncOK(c)'
  PROVE  Syncing'
BY SyncStep DEF Syncing, ChainMovesOn

\* A call that moves to a phase that writes no row, or back to its own.
LEMMA MoveSyncs ==
  ASSUME Syncing, UNCHANGED <<chain, record, view>>, NEW c \in Calls, NEW pcs, Moves(c, pcs),
         pcs \cap {"create_tx", "update_tx"} = {}
  PROVE  Syncing'
<1>1. SyncOK(c)'
  BY DEF Moves, SyncOK
<1>2. QED BY <1>1, SameChain DEF Moves

\* The end of a step of a synchronisation that wrote a row, or did not.
LEMMA TookStep ==
  ASSUME Types, Syncing, NEW c \in Calls, NEW t \in Txs, Took(c, t), UNCHANGED chain,
         \/ UNCHANGED record
         \/ record' = [record EXCEPT ![t] = view[c][t]]
  PROVE  Syncing'
<1>1. view' = [view EXCEPT ![c][t] = "absent"]
  BY DEF Took
<1>2. ChainMovesOn
  BY DEF Syncing, ChainMovesOn
<1>3. record' = [x \in Txs |-> record'[x]] /\ \A x \in Txs : record'[x] = record[x] \/ Behind(record'[x], x)
  BY DEF Syncing
<1>4. /\ view' = [d \in Calls |-> [x \in Txs |-> view'[d][x]]]
      /\ \A d \in Calls, x \in Txs : view'[d][x] = view[d][x] \/ view'[d][x] = "absent"
  BY <1>1 DEF Syncing
<1>5. \A x \in Txs : Behind("absent", x)
  BY DEF Behind, Statuses
<1>6. \A d \in Calls : call'[d] = call[d] \/ SyncOK(d)'
  BY EndMoves, GotoMoves DEF Took, Moves, SyncOK
<1>7. QED BY <1>2, <1>3, <1>4, <1>5, <1>6, SyncStep

LEMMA FetchedStep == ASSUME Types, Syncing, NEW c \in Calls, Fetched(c) PROVE Syncing'
<1> DEFINE known == {t \in Txs : sender[t] = call[c].addr /\ chain[t] # "absent"}
           seen == [t \in Txs |-> IF t \in known THEN chain[t] ELSE "absent"]
<1>1. view' = [view EXCEPT ![c] = seen] /\ UNCHANGED <<chain, record>>
  BY DEF Fetched
<1>2. \A t \in Txs : Behind(seen[t], t)
  BY DEF Syncing, Behind, Statuses
<1>3. \A d \in Calls : call'[d] = call[d] \/ SyncOK(d)'
  BY EndMoves, GotoMoves DEF Fetched, Moves, SyncOK
<1> HIDE DEF known
<1>4. /\ view' = [d \in Calls |-> [t \in Txs |-> view'[d][t]]]
      /\ \A d \in Calls, t \in Txs : view'[d][t] = view[d][t] \/ view'[d][t] = seen[t]
  BY <1>1 DEF Syncing
<1> HIDE DEF seen
<1>5. QED BY <1>1, <1>2, <1>3, <1>4, SyncStep DEF Syncing, ChainMovesOn

LEMMA ChainStep ==
  ASSUME Syncing, NEW t \in Txs, NEW s \in {"pending", "confirmed"},
         chain' = [chain EXCEPT ![t] = IF @ = "confirmed" THEN @ ELSE s],
         UNCHANGED <<record, view>>,
         \A c \in Calls : call'[c] = call[c] \/ SyncOK(c)'
  PROVE  Syncing'
<1>1. ChainMovesOn
  BY DEF Syncing, ChainMovesOn, Statuses
<1>2. QED BY <1>1, SyncStep DEF Syncing

LEMMA TransactionChainStep ==
  ASSUME Types, Delegating, Syncing, NEW c \in Calls, TransactionStep(c)
  PROVE  Syncing'
<1>1. ASSUME Ends(c) \/ \E pc \in SendingPcs : Goto(c, pc)
      PROVE  \A d \in Calls : call'[d] = call[d] \/ SyncOK(d)'
  BY <1>1, EndMoves, GotoMoves DEF Moves, SyncOK, SendingPcs
<1>2. CASE NonceChosen(c) \/ SenderLookedUp(c) \/ DelegationVerified(c) \/ WalletFound(c)
  BY <1>2, <1>1, SameChain
  DEF NonceChosen, SenderLookedUp, DelegationVerified, WalletFound, Broadcasts,
      transactionVars, chainVars, SendingPcs
<1>3. CASE RelayerAnswers(c) \/ RelayerFails(c)
  BY <1>3, <1>1, SameChain DEF RelayerAnswers, RelayerFails, SendingPcs
<1>4. CASE NodeAnswers(c)
  <2>1. Tx(c) \in Txs
    BY <1>4 DEF NodeAnswers, Delegating, SendOK, SendingPcs, At, Tx
  <2>2. chain' = [chain EXCEPT ![Tx(c)] = IF @ = "confirmed" THEN @ ELSE "pending"]
    BY <1>4, <2>1 DEF NodeAnswers, Syncing, Statuses
  <2>3. QED BY <1>4, <2>1, <2>2, <1>1, ChainStep DEF NodeAnswers
<1>5. CASE Fetched(c)
  BY <1>5, FetchedStep
<1>6. ASSUME NEW t \in Txs, TxLookedUp(c, t) PROVE Syncing'
  <2>1. UNCHANGED <<chain, record>>
    BY <1>6 DEF TxLookedUp
  <2>2. ASSUME NEW pc \in {"create_tx", "update_tx"}, UNCHANGED view,
               Becomes(c, [call[c] EXCEPT !.pc = pc, !.about = t])
        PROVE  Syncing'
    <3>1. \A d \in Calls : call'[d] = call[d] \/ SyncOK(d)'
      BY <2>2 DEF Becomes, Types, CallTypes, SyncOK
    <3>2. QED BY <2>1, <2>2, <3>1, SameChain
  <2>3. QED BY <1>6, <2>1, <2>2, TookStep DEF TxLookedUp
<1>7. CASE TxWritten(c)
  <2>1. call[c].about \in Txs /\ UNCHANGED chain
    BY <1>7 DEF TxWritten, Syncing, SyncOK, At
  <2>2. QED BY <1>7, <2>1, <1>1, SameChain, TookStep DEF TxWritten
<1>8. QED BY <1>2, <1>3, <1>4, <1>5, <1>6, <1>7 DEF TransactionStep

LEMMA StepSyncing == Types /\ Delegating /\ Syncing /\ [Next]_vars => Syncing'
<1> SUFFICES ASSUME Types, Delegating, Syncing, [Next]_vars PROVE Syncing'
  OBVIOUS
<1>1. ASSUME UNCHANGED <<chain, record, view, call>> PROVE Syncing'
  BY <1>1, SameChain
<1>2. CASE ProvisioningNext /\ UNCHANGED transactionVars
  <2>1. UNCHANGED <<chain, record, view>>
    BY <1>2 DEF transactionVars, chainVars
  <2>2. ASSUME NEW c \in Calls, Moves(c, ProvisioningPcs) PROVE Syncing'
    BY <2>1, <2>2, MoveSyncs DEF ProvisioningPcs
  <2>3. QED BY <1>1, <1>2, <2>1, <2>2, ProvisioningMoves
<1>3. ASSUME NEW c \in Calls, NEW k \in Keys, TransactionBegins(c, k) PROVE Syncing'
  <2>1. UNCHANGED <<chain, record, view>>
    BY <1>3 DEF TransactionBegins, SignAndSend, transactionVars, chainVars
  <2>2. \E pc \in {"find_sender", "find_owned", "build", "fetch"} : Moves(c, {pc})
    BY <1>3, BeginMoves DEF TransactionBegins, SignAndSend, BeginWallet
  <2>3. QED BY <2>1, <2>2, MoveSyncs
<1>4. ASSUME NEW c \in Calls, TransactionStep(c) PROVE Syncing'
  BY <1>4, TransactionChainStep
<1>5. CASE \E a \in Addresses : CreateSession(a) \/ ClearSession(a)
  BY <1>1, <1>5 DEF CreateSession, ClearSession, NoProvisioning, provisioningVars, chainVars
<1>6. ASSUME NEW t \in Txs, RelayerSends(t) \/ Confirmed(t) PROVE Syncing'
  <2>1. UNCHANGED <<record, view, call>>
    BY <1>6 DEF RelayerSends, Confirmed, NoProvisioning, provisioningVars
  <2>2. \E s \in {"pending", "confirmed"} :
           chain' = [chain EXCEPT ![t] = IF @ = "confirmed" THEN @ ELSE s]
    BY <1>6 DEF RelayerSends, Confirmed, Syncing
  <2>3. QED BY <2>1, <2>2, ChainStep
<1>7. CASE PruneNonces \/ Tick
  BY <1>1, <1>7 DEF PruneNonces, Tick, NoProvisioning, provisioningVars, chainVars
<1>8. CASE UNCHANGED vars
  BY <1>1, <1>8 DEF vars, provisioningVars, transactionVars, chainVars
<1>9. QED BY <1>2, <1>3, <1>4, <1>5, <1>6, <1>7, <1>8 DEF Next

-----------------------------------------------------------------------------
(* The theorems.                                                           *)

LEMMA StepIInv == IInv /\ [Next]_vars => IInv'
BY StepProvisioned, StepDelegating, StepSyncing DEF IInv, Provisioned

\* What the calls of the API know from one await to the next fits the rows:
\* provisionings, delegations and synchronisations.
THEOREM Invariance == Spec => []IInv
<1>1. Init => IInv
  BY InitProvisioned, InitDelegating, InitSyncing DEF IInv
<1>2. QED BY <1>1, StepIInv, PTL DEF Spec

\* However many calls of provisionMpcOrg() overlap or break off, one generated
\* key at most becomes the wallet of the organisation of an API key.
THEOREM OneWalletProvisioned == Spec => []OneProvisionedWallet
<1>1. IInv => OneProvisionedWallet
  BY DEF IInv, Provisioned
<1>2. QED BY <1>1, Invariance, PTL

\* pruneExpiredNonces() never forgets the nonce of an accepted delegation while
\* verifyDelegation() would still accept it.
THEOREM AcceptedNoncesKept == Spec => []DelegationRemembered
<1>1. IInv => DelegationRemembered
  <2> SUFFICES ASSUME IInv, NEW d \in accepted, ~Expired(d) PROVE used[d] # 0
    BY DEF DelegationRemembered
  <2>1. Remembered(d) /\ d \in Signed /\ delegation[d].expires \in Nat \ {0}
    BY DEF IInv, Delegating, Remembered, Signed
  <2>2. QED BY <2>1, TransactionsAssumption DEF Remembered
<1>2. QED BY <1>1, Invariance, PTL

\* syncTransactions() writes no status that the chain has not reached, in
\* whatever order the writes of overlapping synchronisations land.
THEOREM RowsFollowChain == Spec => []RecordFromChain
<1>1. IInv => RecordFromChain
  BY DEF IInv, Syncing, Behind, RecordFromChain
<1>2. QED BY <1>1, Invariance, PTL
=============================================================================
