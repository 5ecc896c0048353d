---------------------------- MODULE Transactions ----------------------------
(***************************************************************************)
(* Transactions of the wallets of Provisioning (apps/api/src/transaction,  *)
(* wallet/transactions, session, relayer and indexing): the nonce a        *)
(* transaction is built with, delegations of session keys, sponsored and   *)
(* direct broadcast, and the rows that indexing keeps of what the chain    *)
(* knows.  The session keys are those of the SDK                           *)
(* (packages/sdk/src/session.ts and signing.ts).                           *)
(***************************************************************************)
EXTENDS Provisioning

CONSTANTS
  Txs,          \* signed transactions, each of one wallet
  Delegations,  \* delegations a wallet can sign
  Lifetime,     \* how long a delegation is valid
  Buffer,       \* how much longer its nonce is remembered
  MaxTime       \* bound of the clock

ASSUME TransactionsAssumption ==
  /\ None \notin Txs \cup Delegations
  /\ Lifetime \in Nat \ {0} /\ Buffer \in Nat /\ MaxTime \in Nat

VARIABLES
  now,
  delegation,  \* delegation[d]: the wallet that signed it, and when it expires
  session,     \* session[a]: the active session of the SDK of the owner of a
  used,        \* usedNonces: nonces of delegations, with the end of the entry
  sender,      \* sender[t]: the wallet a transaction is of
  nonce,       \* nonce[t]: the nonce that was chosen when it was built, or None
  chain,       \* chain[t]: what the chain says of t
  sponsored,   \* transactions the relayer has taken
  record,      \* record[t]: the status of its MpcTransaction row
  view,        \* view[c]: what the call c fetched from the chain
  accepted     \* history: delegations that passed verification

sessionVars == <<delegation, session, used, accepted>>
chainVars == <<sender, nonce, chain, sponsored, record, view>>
transactionVars == <<now, sessionVars, chainVars>>
vars == <<provisioningVars, transactionVars>>

NoDelegation == [addr |-> None, expires |-> 0]
Statuses == {"absent", "pending", "confirmed"}

Init ==
  /\ ProvisioningInit
  /\ now = 1
  /\ delegation = [d \in Delegations |-> NoDelegation]
  /\ session = [a \in Addresses |-> None]
  /\ used = [d \in Delegations |-> 0]
  /\ sender = [t \in Txs |-> None]
  /\ nonce = [t \in Txs |-> None]
  /\ chain = [t \in Txs |-> "absent"]
  /\ sponsored = {}
  /\ record = [t \in Txs |-> "absent"]
  /\ view = [c \in Calls |-> record]
  /\ accepted = {}

NoProvisioning == UNCHANGED provisioningVars

-----------------------------------------------------------------------------
(* The SDK: sessions and signing.                                          *)

Expired(d) == now > delegation[d].expires

\* createSession(): the wallet signs a delegation, which becomes the active one.
CreateSession(a) ==
  /\ wallet[a].state = "live"
  /\ \E d \in Delegations :
       /\ delegation[d] = NoDelegation
       /\ delegation' = [delegation EXCEPT ![d] = [addr |-> a, expires |-> now + Lifetime]]
       /\ session' = [session EXCEPT ![a] = d]
  /\ NoProvisioning /\ UNCHANGED <<now, used, accepted, chainVars>>

ClearSession(a) ==
  /\ session[a] # None
  /\ session' = [session EXCEPT ![a] = None]
  /\ NoProvisioning /\ UNCHANGED <<now, delegation, used, accepted, chainVars>>

\* signTx() and broadcast(): the delegation of the active session goes along
\* with every transaction; an expired session is cleared.
Attached(a) == IF session[a] # None /\ ~Expired(session[a]) THEN session[a] ELSE None

SignAndSend(c, k, a, t) ==
  /\ sender[t] \in {None, a}
  /\ sender' = [sender EXCEPT ![t] = a]
  /\ session' = [session EXCEPT ![a] = Attached(a)]
  /\ BeginWallet(c, k, "find_sender", a, <<t, Attached(a)>>)
  /\ UNCHANGED <<now, delegation, used, accepted, nonce, chain, sponsored, record, view>>

-----------------------------------------------------------------------------
(* TransactionBuilderService.                                              *)

\* buildStxTransfer() and the others: the caller may choose the nonce of a
\* transfer; else it is the one of the wallet, which is always zero, and the
\* pending rows are counted on top.  The API keeps nothing of what it built.
NonceChosen(c) ==
  /\ At(c, "build")
  /\ \E t \in Txs :
       /\ sender[t] = None
       /\ sender' = [sender EXCEPT ![t] = call[c].addr]
       /\ nonce' = [nonce EXCEPT ![t] =
                      Cardinality({p \in Txs : sender[p] = call[c].addr /\ record[p] = "pending"})]
  /\ Ends(c)
  /\ Reads /\ UNCHANGED <<now, sessionVars, chain, sponsored, record, view>>

-----------------------------------------------------------------------------
(* TransactionController.send().                                           *)

Tx(c) == call[c].about[1]
Delegated(c) == call[c].about[2]

Broadcasts(c) == Goto(c, IF call[c].snap = "sponsored" THEN "relayer" ELSE "node")

\* The sender must be a live wallet of the organisation.  verifyDelegation()
\* then runs up to its own await: expiry, address, nonce.
SenderLookedUp(c) ==
  LET d == Delegated(c) IN
  /\ At(c, "find_sender")
  /\ \/ ~IsLive(call[c].addr, call[c].key) /\ Ends(c)
     \/ /\ IsLive(call[c].addr, call[c].key)
        /\ d = None
        /\ Broadcasts(c)
     \/ /\ IsLive(call[c].addr, call[c].key)
        /\ d # None
        /\ IF ~Expired(d) /\ used[d] = 0
           THEN Goto(c, "find_signer")
           ELSE Ends(c)
  /\ Reads /\ UNCHANGED <<now, delegation, session, used, accepted, chainVars>>

\* Mutant: the entry lasts for the buffer alone.
DelegationVerifiedBriefly(c) ==
  /\ At(c, "find_signer")
  /\ used' = [used EXCEPT ![Delegated(c)] = now + Buffer]
  /\ accepted' = accepted \cup {Delegated(c)}
  /\ Broadcasts(c)
  /\ Reads /\ UNCHANGED <<now, delegation, session, chainVars>>

\* The wallet is found under its address, deleted or not, and its signature is
\* right: the nonce is recorded, until the delegation has expired.
DelegationVerified(c) ==
  LET d == Delegated(c) IN
  /\ At(c, "find_signer")
  /\ IF wallet[call[c].addr] = NoWallet
     THEN Ends(c) /\ UNCHANGED <<used, accepted>>
     ELSE /\ used' = [used EXCEPT ![d] = delegation[d].expires + Buffer]
          /\ accepted' = accepted \cup {d}
          /\ Broadcasts(c)
  /\ Reads /\ UNCHANGED <<now, delegation, session, chainVars>>

\* The interval that prunes usedNonces.
PruneNonces ==
  /\ used' = [d \in Delegations |-> IF now > used[d] THEN 0 ELSE used[d]]
  /\ used' # used
  /\ NoProvisioning /\ UNCHANGED <<now, delegation, session, accepted, chainVars>>

\* WalletTransactionController.broadcast(): the delegation is not looked at.
WalletFound(c) ==
  /\ At(c, "find_owned")
  /\ IF IsLive(call[c].addr, call[c].key) THEN Broadcasts(c) ELSE Ends(c)
  /\ Reads /\ UNCHANGED transactionVars

-----------------------------------------------------------------------------
(* RelayerService.                                                         *)

\* The relayer sponsors the transaction and answers.
RelayerAnswers(c) ==
  /\ At(c, "relayer")
  /\ sponsored' = sponsored \cup {Tx(c)}
  /\ Ends(c)
  /\ Reads /\ UNCHANGED <<now, sessionVars, sender, nonce, chain, record, view>>

\* It fails, or its answer is lost: the transaction is broadcast directly.
RelayerFails(c) ==
  /\ At(c, "relayer")
  /\ \/ sponsored' = sponsored \cup {Tx(c)}
     \/ UNCHANGED sponsored
  /\ Goto(c, "node")
  /\ Reads /\ UNCHANGED <<now, sessionVars, sender, nonce, chain, record, view>>

\* The node takes what it does not know yet, and refuses the rest.
NodeAnswers(c) ==
  /\ At(c, "node")
  /\ chain' = [chain EXCEPT ![Tx(c)] = IF @ = "absent" THEN "pending" ELSE @]
  /\ Ends(c)
  /\ Reads /\ UNCHANGED <<now, sessionVars, sender, nonce, sponsored, record, view>>

\* The relayer sends what it took; the chain confirms what it was sent.
RelayerSends(t) ==
  /\ t \in sponsored /\ chain[t] = "absent"
  /\ chain' = [chain EXCEPT ![t] = "pending"]
  /\ NoProvisioning /\ UNCHANGED <<now, sessionVars, sender, nonce, sponsored, record, view>>

Confirmed(t) ==
  /\ chain[t] = "pending"
  /\ chain' = [chain EXCEPT ![t] = "confirmed"]
  /\ NoProvisioning /\ UNCHANGED <<now, sessionVars, sender, nonce, sponsored, record, view>>

-----------------------------------------------------------------------------
(* IndexingService.syncTransactions().                                     *)

\* The transactions of the address are fetched, then taken one by one: a row
\* that is there gets the status that was fetched.
Fetched(c) ==
  LET known == {t \in Txs : sender[t] = call[c].addr /\ chain[t] # "absent"} IN
  /\ At(c, "fetch")
  /\ view' = [view EXCEPT ![c] = [t \in Txs |-> IF t \in known THEN chain[t] ELSE "absent"]]
  /\ IF known = {} THEN Ends(c) ELSE Goto(c, "sync")
  /\ Reads /\ UNCHANGED <<now, sessionVars, sender, nonce, chain, sponsored, record>>

Rest(c) == {t \in Txs : view[c][t] # "absent"}
Took(c, t) ==
  /\ view' = [view EXCEPT ![c][t] = "absent"]
  /\ IF Rest(c) = {t} THEN Ends(c) ELSE Goto(c, "sync")

TxLookedUp(c, t) ==
  /\ At(c, "sync") /\ t \in Rest(c)
  /\ IF record[t] = view[c][t]
     THEN Took(c, t)
     ELSE /\ Becomes(c, [call[c] EXCEPT !.pc = IF record[t] = "absent" THEN "create_tx" ELSE "update_tx",
                                        !.about = t])
          /\ UNCHANGED view
  /\ Reads /\ UNCHANGED <<now, sessionVars, sender, nonce, chain, sponsored, record>>

\* Mutant: whatever was fetched counts as confirmed.
TxWrittenConfirmed(c) ==
  LET t == call[c].about IN
  /\ At(c, "create_tx") \/ At(c, "update_tx")
  /\ record' = [record EXCEPT ![t] = "confirmed"]
  /\ Took(c, t)
  /\ Reads /\ UNCHANGED <<now, sessionVars, sender, nonce, chain, sponsored>>

\* A row that another call created meanwhile ends the synchronisation.
TxWritten(c) ==
  LET t == call[c].about IN
  /\ At(c, "create_tx") \/ At(c, "update_tx")
  /\ IF At(c, "create_tx") /\ record[t] # "absent"
     THEN Ends(c) /\ UNCHANGED <<record, view>>
     ELSE record' = [record EXCEPT ![t] = view[c][t]] /\ Took(c, t)
  /\ Reads /\ UNCHANGED <<now, sessionVars, sender, nonce, chain, sponsored>>

-----------------------------------------------------------------------------
Tick ==
  /\ now < MaxTime
  /\ now' = now + 1
  /\ NoProvisioning /\ UNCHANGED <<sessionVars, chainVars>>

TransactionBegins(c, k) ==
  \E a \in Addresses :
    \/ \E t \in Txs : SignAndSend(c, k, a, t)
    \/ /\ \/ \E t \in Txs : sender[t] = a /\ BeginWallet(c, k, "find_owned", a, <<t, None>>)
          \/ IsLive(a, k) /\ \E pc \in {"build", "fetch"} : BeginWallet(c, k, pc, a, None)
       /\ UNCHANGED transactionVars

TransactionStep(c) ==
  \/ NonceChosen(c) \/ SenderLookedUp(c) \/ DelegationVerified(c) \/ WalletFound(c)
  \/ RelayerAnswers(c) \/ RelayerFails(c) \/ NodeAnswers(c)
  \/ Fetched(c) \/ \E t \in Txs : TxLookedUp(c, t)
  \/ TxWritten(c)

Next ==
  \/ ProvisioningNext /\ UNCHANGED transactionVars
  \/ \E c \in Calls : TransactionStep(c) \/ \E k \in Keys : TransactionBegins(c, k)
  \/ \E a \in Addresses : CreateSession(a) \/ ClearSession(a)
  \/ \E t \in Txs : RelayerSends(t) \/ Confirmed(t)
  \/ PruneNonces \/ Tick

Spec == Init /\ [][Next]_vars

-----------------------------------------------------------------------------
(* Properties.                                                             *)

\* "Replay protection -- reject reused nonces": pruning does not forget the
\* nonce of a delegation that was taken while that could be taken again.
\* (Calls that overlap may all pass: the nonce is looked up before an await
\* and recorded after it.)
DelegationRemembered == \A d \in accepted : ~Expired(d) => used[d] # 0

\* The rows of transactions never run ahead of the chain, in whatever order
\* synchronisations that overlap write what they fetched.
RecordFromChain ==
  \A t \in Txs : /\ record[t] # "absent" => chain[t] # "absent"
                 /\ record[t] = "confirmed" => chain[t] = "confirmed"

=============================================================================
