---------------------------- MODULE Provisioning ----------------------------
(***************************************************************************)
(* The rows the API keeps for a developer (apps/api/src/auth, .../mpc,     *)
(* .../wallet and common/guards): API keys, the MPC organisation of a key, *)
(* wallets and key shares.                                                 *)
(*                                                                         *)
(* A call runs without interruption from one `await' to the next; an       *)
(* action is the end of an await (a command to the database, or a request  *)
(* to the MPC service) with the code that follows it.  No command is part  *)
(* of a transaction of the database, and any may throw (CallFails).  A row *)
(* of a wallet is named by its address, which is unique.                   *)
(***************************************************************************)
EXTENDS Integers, FiniteSets

CONSTANTS
  Keys,           \* API keys of one developer
  Addresses,      \* addresses of wallets, each with its public key
  Generated,      \* those whose key the MPC service generates
  Calls,          \* calls that can be under way at a time
  MaxActiveKeys,  \* active keys a developer may have
  MaxCalls,       \* bound: calls that are begun
  None

ASSUME ProvisioningAssumption ==
  /\ None \notin Keys \cup Addresses
  /\ Generated \subseteq Addresses
  /\ MaxActiveKeys \in Nat \ {0}
  /\ MaxCalls \in Nat
  /\ IsFiniteSet(Keys) /\ IsFiniteSet(Calls)

VARIABLES
  key,      \* key[k]: the status of an API key
  org,      \* keys that have an MpcOrganization row
  sponsor,  \* sponsor[k]: sponsorFees of the organisation of k
  count,    \* count[k]: its walletCount
  wallet,   \* wallet[a]: the MpcWallet row of an address, and whose it is
  shares,   \* shares[a]: indices of its KeyShare rows
  dkg,      \* generated addresses that were drawn
  call,     \* the call that each slot is busy with
  begun     \* calls that were begun

rows == <<key, org, sponsor, count, wallet, shares>>
provisioningVars == <<rows, dkg, call, begun>>

ShareIndices == 1..3
Idle == [pc |-> "idle", key |-> None, snap |-> "none", addr |-> None, about |-> None]
NoWallet == [state |-> "absent", org |-> None]

\* The API starts on the rows that are there: a developer has one active key,
\* and may have provisioned its organisation before.
ProvisioningInit ==
  /\ \E k \in Keys, had \in {{}} \cup {{a} : a \in Generated}, b \in BOOLEAN :
       /\ key = [x \in Keys |-> IF x = k THEN "Active" ELSE "absent"]
       /\ org = IF had = {} THEN {} ELSE {k}
       /\ sponsor = [x \in Keys |-> x \in org /\ b]
       /\ wallet = [a \in Addresses |->
                      IF a \in had THEN [state |-> "live", org |-> k] ELSE NoWallet]
       /\ shares = [a \in Addresses |-> IF a \in had THEN ShareIndices ELSE {}]
       /\ dkg = had
  /\ count = [k \in Keys |-> 0]
  /\ call = [c \in Calls |-> Idle]
  /\ begun = 0

At(c, pc) == call[c].pc = pc
Becomes(c, record) == call' = [call EXCEPT ![c] = record]
Goto(c, pc) == Becomes(c, [call[c] EXCEPT !.pc = pc])
Ends(c) == Becomes(c, Idle)
Reads == UNCHANGED <<rows, dkg, begun>>   \* a command that changes no row

IsLive(a, k) == wallet[a] = [state |-> "live", org |-> k]

-----------------------------------------------------------------------------
(* API keys.                                                               *)

\* ApiKeyGuard.canActivate(): the key is active when it is looked up; what it
\* read of the organisation stays with the request.
Snapshot(k) == IF k \notin org THEN "none" ELSE IF sponsor[k] THEN "sponsored" ELSE "unsponsored"

Begin(c, k, pc, a, about) ==
  /\ At(c, "idle")
  /\ begun < MaxCalls
  /\ key[k] = "Active"
  /\ begun' = begun + 1
  /\ Becomes(c, [pc |-> pc, key |-> k, snap |-> Snapshot(k), addr |-> a, about |-> about])
  /\ UNCHANGED <<rows, dkg>>

\* An endpoint of wallets: `MPC not provisioned' is thrown at once.
BeginWallet(c, k, pc, a, about) == Snapshot(k) # "none" /\ Begin(c, k, pc, a, about)

ActiveKeys == {k \in Keys : key[k] = "Active"}

\* createApiKey(): the active keys are counted, then one is created.
KeysCounted(c) ==
  /\ At(c, "count_keys")
  /\ IF Cardinality(ActiveKeys) >= MaxActiveKeys THEN Ends(c) ELSE Goto(c, "create_key")
  /\ Reads

KeyCreated(c) ==
  /\ At(c, "create_key")
  /\ \E k \in Keys : key[k] = "absent" /\ key' = [key EXCEPT ![k] = "Active"]
  /\ Ends(c)
  /\ UNCHANGED <<org, sponsor, count, wallet, shares, dkg, begun>>

\* revokeApiKey(), on any key of the developer.
KeyRevoked(c) ==
  /\ At(c, "revoke_key")
  /\ key[call[c].about] # "absent"
  /\ key' = [key EXCEPT ![call[c].about] = "Revoked"]
  /\ Ends(c)
  /\ UNCHANGED <<org, sponsor, count, wallet, shares, dkg, begun>>

-----------------------------------------------------------------------------
(* provisionMpcOrg() and updateSponsorship().                              *)

\* An organisation that is there is returned as it is.
OrgLookedUp(c) ==
  /\ At(c, "find_org")
  /\ IF call[c].key \in org THEN Ends(c) ELSE Goto(c, "dkg")
  /\ Reads

\* The MPC service generates a key, from which the address is derived.
DkgAnswered(c) ==
  /\ At(c, "dkg")
  /\ \E a \in Generated \ dkg :
       /\ dkg' = dkg \cup {a}
       /\ Becomes(c, [call[c] EXCEPT !.pc = "create_org", !.addr = a])
  /\ UNCHANGED <<rows, begun>>

\* Mutant: the organisation of a concurrent call is taken over.
OrgUpserted(c) ==
  /\ At(c, "create_org")
  /\ org' = org \cup {call[c].key}
  /\ \E b \in BOOLEAN : sponsor' = [sponsor EXCEPT ![call[c].key] = b]
  /\ Goto(c, "create_wallet")
  /\ UNCHANGED <<key, count, wallet, shares, dkg, begun>>

\* The organisation of a key is unique: a second one is an error, and the key
\* that was generated for it is left behind.
OrgCreated(c) ==
  /\ At(c, "create_org")
  /\ IF call[c].key \in org
     THEN Ends(c) /\ UNCHANGED <<org, sponsor>>
     ELSE /\ org' = org \cup {call[c].key}
          /\ \E b \in BOOLEAN : sponsor' = [sponsor EXCEPT ![call[c].key] = b]
          /\ Goto(c, "create_wallet")
  /\ UNCHANGED <<key, count, wallet, shares, dkg, begun>>

WalletProvisioned(c) ==
  /\ At(c, "create_wallet")
  /\ IF wallet[call[c].addr] = NoWallet
     THEN /\ wallet' = [wallet EXCEPT ![call[c].addr] = [state |-> "live", org |-> call[c].key]]
          /\ Goto(c, "create_share")
     ELSE Ends(c) /\ UNCHANGED wallet
  /\ UNCHANGED <<key, org, sponsor, count, shares, dkg, begun>>

\* The shares are encrypted and stored one after the other.
ShareStored(c) ==
  LET a == call[c].addr
      stored == shares[a] \cup {Cardinality(shares[a]) + 1}
  IN /\ At(c, "create_share")
     /\ shares' = [shares EXCEPT ![a] = stored]
     /\ IF stored = ShareIndices THEN Ends(c) ELSE UNCHANGED call
     /\ UNCHANGED <<key, org, sponsor, count, wallet, dkg, begun>>

\* An organisation is never removed, so that finding it and updating it are
\* one step.
SponsorshipUpdated(c) ==
  /\ At(c, "update_sponsorship")
  /\ \E b \in BOOLEAN :
       sponsor' = IF call[c].key \in org THEN [sponsor EXCEPT ![call[c].key] = b] ELSE sponsor
  /\ Ends(c)
  /\ UNCHANGED <<key, org, count, wallet, shares, dkg, begun>>

-----------------------------------------------------------------------------
(* WalletController and WalletService.                                     *)

\* create(): a live wallet of the organisation is a conflict.
AddressLookedUp(c) ==
  /\ At(c, "find_address")
  /\ IF IsLive(call[c].addr, call[c].key) THEN Ends(c) ELSE Goto(c, "register")
  /\ Reads

\* The address is unique among all rows, also those that were deleted.
WalletRegistered(c) ==
  /\ At(c, "register")
  /\ IF wallet[call[c].addr] = NoWallet
     THEN /\ wallet' = [wallet EXCEPT ![call[c].addr] = [state |-> "live", org |-> call[c].key]]
          /\ Goto(c, "increment")
     ELSE Ends(c) /\ UNCHANGED wallet
  /\ UNCHANGED <<key, org, sponsor, count, shares, dkg, begun>>

\* delete(): a wallet that is gone by now is not found.
WalletLookedUp(c) ==
  /\ At(c, "find_wallet")
  /\ IF IsLive(call[c].addr, call[c].key) THEN Goto(c, "soft_delete") ELSE Ends(c)
  /\ Reads

\* softDelete(): the row is updated whether or not it is still live.
SoftDeleted(c) ==
  /\ At(c, "soft_delete")
  /\ IF wallet[call[c].addr] = NoWallet
     THEN Ends(c) /\ UNCHANGED wallet
     ELSE /\ wallet' = [wallet EXCEPT ![call[c].addr].state = "deleted"]
          /\ Goto(c, "decrement")
  /\ UNCHANGED <<key, org, sponsor, count, shares, dkg, begun>>

CountUpdated(c) ==
  /\ At(c, "increment") \/ At(c, "decrement")
  /\ count' = [count EXCEPT ![call[c].key] = IF At(c, "increment") THEN @ + 1 ELSE @ - 1]
  /\ Ends(c)
  /\ UNCHANGED <<key, org, sponsor, wallet, shares, dkg, begun>>

\* hardDeleteExpired(), for a wallet that was deleted seven days ago: its row
\* goes unless key shares refer to it.  No call takes that long.
HardDeleted(a) ==
  /\ wallet[a].state = "deleted"
  /\ shares[a] = {}
  /\ \A c \in Calls : call[c].addr # a
  /\ wallet' = [wallet EXCEPT ![a] = NoWallet]
  /\ UNCHANGED <<key, org, sponsor, count, shares, dkg, call, begun>>

-----------------------------------------------------------------------------
\* The database or the MPC service does not answer.
CallFails(c) ==
  /\ ~At(c, "idle")
  /\ Ends(c)
  /\ Reads

\* A generated address is known to nobody before it has a row.
Known == {a \in Addresses : wallet[a] # NoWallet}

ProvisioningBegins(c, k) ==
  \/ \E pc \in {"count_keys", "find_org", "update_sponsorship"} : Begin(c, k, pc, None, None)
  \/ \E x \in Keys : Begin(c, k, "revoke_key", None, x)
  \/ \E a \in Known \cup (Addresses \ Generated) : BeginWallet(c, k, "find_address", a, None)
  \/ \E a \in Known : BeginWallet(c, k, "find_wallet", a, None)

ProvisioningStep(c) ==
  \/ KeysCounted(c) \/ KeyCreated(c) \/ KeyRevoked(c)
  \/ OrgLookedUp(c) \/ DkgAnswered(c) \/ OrgCreated(c) \/ WalletProvisioned(c) \/ ShareStored(c)
  \/ SponsorshipUpdated(c)
  \/ AddressLookedUp(c) \/ WalletRegistered(c)
  \/ WalletLookedUp(c) \/ SoftDeleted(c) \/ CountUpdated(c)
  \/ CallFails(c)

ProvisioningNext ==
  \/ \E c \in Calls : ProvisioningStep(c) \/ \E k \in Keys : ProvisioningBegins(c, k)
  \/ \E a \in Addresses : HardDeleted(a)

-----------------------------------------------------------------------------
(* Properties.                                                             *)

\* However many provisionings of a key overlap or break off, one generated key
\* at most becomes the wallet of its organisation.
OneProvisionedWallet ==
  \A a, b \in dkg :
    wallet[a] # NoWallet /\ wallet[a].org = wallet[b].org => a = b

=============================================================================
