---------------------------- MODULE WalletBalance ----------------------------
(* The balance that the SDK's React components show: WalletProvider with the  *)
(* connected wallet, and useBalance(), which asks a service for the balance   *)
(* at once, whenever the address changes and at every tick of an interval.    *)
(* Answers arrive in any order, also those for an address that is no longer   *)
(* the connected one.  A balance is whose it is and how many blocks old the   *)
(* chain was when it was read.  An effect of a render is taken together with  *)
(* the change that causes the render.                                         *)
EXTENDS Naturals, FiniteSets

CONSTANTS Addresses,     \* addresses that may be connected
          None,          \* no address, no balance, no call
          BalanceCalls,  \* calls that may be under way at the same time
          MaxBlocks,     \* bound of this model on the blocks of the chain
          MaxFailures    \* bound of this model on failing calls

VARIABLES wallet,          \* wallet.address of the context
          balance,         \* the state of useBalance()
          contextBalance,  \* balance of the context
          asked,           \* the call under way of each slot, or None
          loading,         \* isLoading
          block,           \* the height of the chain
          failures

balanceVars ==
    <<wallet, balance, contextBalance, asked, loading, block, failures>>

Init ==
    /\ wallet = None
    /\ balance = None
    /\ contextBalance = None
    /\ asked = [c \in BalanceCalls |-> None]
    /\ loading = FALSE
    /\ block = 0
    /\ failures = 0

\* What the service answers for an address, as of the time of the call.
BalanceOf(a) == [of |-> a, at |-> block]

\* refresh() for an address: a call for the balance as it now is, while the
\* bound leaves one free.
Refresh(a) ==
    \E c \in BalanceCalls :
        /\ asked[c] = None
        /\ asked' = [asked EXCEPT ![c] = BalanceOf(a)]
        /\ loading' = TRUE

-----------------------------------------------------------------------------
\* connect() of the context; the effect of useBalance() refreshes for the new
\* address.
Connect(a) ==
    /\ wallet # a
    /\ wallet' = a
    /\ Refresh(a)
    /\ UNCHANGED <<balance, contextBalance, block, failures>>

\* disconnect(); without an address refresh() only drops the balance, and the
\* calls that are under way go on.
Disconnect ==
    /\ wallet # None
    /\ wallet' = None
    /\ balance' = None
    /\ contextBalance' = None
    /\ UNCHANGED <<asked, loading, block, failures>>

\* An interval whose function was not replaced when the address changed: what
\* the answer of its call belongs to is the balance that is shown.
IntervalOfShown ==
    /\ wallet # None
    /\ Refresh(IF balance = None THEN wallet ELSE balance.of)
    /\ UNCHANGED <<wallet, balance, contextBalance, block, failures>>

\* The interval ticks, with the address of the last render.
Interval ==
    /\ wallet # None
    /\ Refresh(wallet)
    /\ UNCHANGED <<wallet, balance, contextBalance, block, failures>>

\* A call is answered: its balance is shown whoever is connected by now, and
\* WalletModal passes it on to the context.
Answered(c) ==
    /\ asked[c] # None
    /\ balance' = asked[c]
    /\ contextBalance' = asked[c]
    /\ asked' = [asked EXCEPT ![c] = None]
    /\ loading' = FALSE
    /\ UNCHANGED <<wallet, block, failures>>

\* A call fails: setError(), and the balance stays.
Fails(c) ==
    /\ asked[c] # None /\ failures < MaxFailures
    /\ asked' = [asked EXCEPT ![c] = None]
    /\ loading' = FALSE
    /\ failures' = failures + 1
    /\ UNCHANGED <<wallet, balance, contextBalance, block>>

NewBlock ==
    /\ block < MaxBlocks
    /\ block' = block + 1
    /\ UNCHANGED <<wallet, balance, contextBalance, asked, loading, failures>>

Next ==
    \/ \E a \in Addresses : Connect(a)
    \/ Disconnect
    \/ Interval
    \/ \E c \in BalanceCalls : Answered(c) \/ Fails(c)
    \/ NewBlock

\* An interval ticks again and again, and every call comes to an end.
Fairness ==
    /\ WF_balanceVars(Interval)
    /\ \A c \in BalanceCalls : WF_balanceVars(Answered(c) \/ Fails(c))

Spec == Init /\ [][Next]_balanceVars /\ Fairness

-----------------------------------------------------------------------------
\* However answers overtake each other while wallets come and go: when a
\* wallet stays connected, the balance in the end is its own, as of the last
\* block (useBalance() has no guard against late answers but its interval).
BalanceCatchesUp ==
    \A a \in Addresses :
        <>[](wallet = a) => <>[](balance = BalanceOf(a))

=============================================================================
