---------------------------- MODULE WalletHistory ----------------------------
(* The transactions that the SDK's React components show: useTransactions()   *)
(* fetches the first page at once, when the wallet changes and at every tick  *)
(* of an interval, and a further page when the user asks for more.  A list is *)
(* a sequence of pages, a page whose it is and its number.                    *)
EXTENDS Naturals, Sequences

CONSTANTS Addresses,  \* addresses that may be connected
          None,       \* no address, no call
          Calls,      \* page requests that may be under way at the same time
          LastPage,   \* the number of the last page of every address
          MaxPages    \* bound of this model on the pages of a list

VARIABLES walletId,  \* the address the hook is called with
          shown,     \* transactions, page by page
          pageRef,   \* pageRef: the page to fetch next
          hasMore,
          fetching,  \* isLoading and isLoadingRef
          fetched    \* the page each call under way is for, or None

historyVars == <<walletId, shown, pageRef, hasMore, fetching, fetched>>

Page(a, n) == [of |-> a, number |-> n]

Init ==
    /\ walletId = None
    /\ shown = << >>
    /\ pageRef = 0
    /\ hasMore = TRUE
    /\ fetching = FALSE
    /\ fetched = [c \in Calls |-> None]

\* fetchPage() of an address, up to the await; only refresh() starts again
\* from the first page.
FetchPage(a, page) ==
    \E c \in Calls :
        /\ fetched[c] = None
        /\ fetched' = [fetched EXCEPT ![c] = Page(a, page)]
        /\ fetching' = TRUE

\* refresh(); it does not look whether something is being fetched.
Refresh(a) ==
    /\ pageRef' = 0
    /\ FetchPage(a, 0)
    /\ UNCHANGED <<shown, hasMore>>

-----------------------------------------------------------------------------
\* Another wallet: the effect refreshes.  The list of the one before stays.
Connect(a) ==
    /\ walletId # a
    /\ walletId' = a
    /\ Refresh(a)

\* No wallet: refresh() only goes back to the first page.
Disconnect ==
    /\ walletId # None
    /\ walletId' = None
    /\ pageRef' = 0
    /\ UNCHANGED <<shown, hasMore, fetching, fetched>>

\* The interval ticks.
Interval ==
    /\ walletId # None
    /\ Refresh(walletId)
    /\ UNCHANGED walletId

\* The button of TransactionList is shown while there is more, and disabled
\* while something is being fetched.
CanLoadMore == hasMore /\ ~fetching

\* loadMore(), which looks at the same again.
LoadMore ==
    /\ walletId # None
    /\ CanLoadMore
    /\ Len(shown) < MaxPages
    /\ FetchPage(walletId, pageRef)
    /\ UNCHANGED <<walletId, shown, pageRef, hasMore>>

\* The list after a page that is appended whatever its number is.
WithAppended(p) == Append(shown, p)

\* The list after a page: the first one replaces it.
With(p) == IF p.number = 0 THEN <<p>> ELSE Append(shown, p)

\* A page arrives, for whichever wallet and list there is by now.
Arrives(c) ==
    /\ fetched[c] # None
    /\ Len(With(fetched[c])) <= MaxPages
    /\ shown' = With(fetched[c])
    /\ hasMore' = (fetched[c].number < LastPage)
    /\ pageRef' = fetched[c].number + 1
    /\ fetched' = [fetched EXCEPT ![c] = None]
    /\ fetching' = FALSE
    /\ UNCHANGED walletId

\* A page that does not arrive leaves the list alone.
Fails(c) ==
    /\ fetched[c] # None
    /\ fetched' = [fetched EXCEPT ![c] = None]
    /\ fetching' = FALSE
    /\ UNCHANGED <<walletId, shown, pageRef, hasMore>>

Next ==
    \/ \E a \in Addresses : Connect(a)
    \/ Disconnect \/ Interval \/ LoadMore
    \/ \E c \in Calls : Arrives(c) \/ Fails(c)

\* The interval ticks, calls end, and some of them succeed: the network does
\* not fail for ever.
Fairness ==
    /\ SF_historyVars(Interval)
    /\ \A c \in Calls : SF_historyVars(Arrives(c))

Spec == Init /\ [][Next]_historyVars /\ Fairness

-----------------------------------------------------------------------------
\* The list is the beginning of the history of the connected wallet.
IsBeginning ==
    \A i \in DOMAIN shown : shown[i] = Page(walletId, i - 1)

\* A refresh that crosses a request for more can leave out pages or show them
\* twice, and a late page of another wallet is appended; but while a wallet
\* stays connected the list is put right again and again.
HistoryRepaired ==
    \A a \in Addresses :
        <>[](walletId = a) => []<>(shown # << >> /\ IsBeginning)

=============================================================================
