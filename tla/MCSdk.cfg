CONSTANTS
    None = None
    \* DappWallets
    Dialogs = {d1}
    Wallets = {leather, xverse}
    Accounts = {m1, m2}
    NotAsked = NotAsked
    Pending = Pending
    MaxHistorySize = 2
    MaxSwitches = 2
    MaxSaves = 3
    \* WalletBalance
    Addresses = {a, b}
    BalanceCalls = {c1, c2}
    MaxBlocks = 1
    MaxFailures = 1
    \* WalletHistory
    PageCalls = {c1, c2}
    LastPage = 2
    MaxPages = 4
    \* WalletModal
    Drafts = {t1, t2, bad}
    Valid = {t1, t2}
    Empty = Empty
    SendCalls = {c1, c2}
    MaxSends = 3
    \* BrowserLogin
    Logins = {l1, l2, l3}
    Users = {u1, u2}
    MaxWindows = 3
SPECIFICATION SdkSpec
INVARIANTS DialogUntilAnswered HistoryAgrees OneSendAtATime NoWindowLeft
PROPERTIES BalanceCatchesUp HistoryRepaired
CHECK_DEADLOCK FALSE
