----------------------------- MODULE WalletLine -----------------------------
(***************************************************************************)
(* What the per-wallet concurrency control of the signing node promises:   *)
(* one waiting line per wallet, whose head is the request being signed.    *)
(* A request is refused when the line is full, requests are served in the  *)
(* order they came, every request is answered at most once, and an abort   *)
(* answers everybody in the line.  Concurrency.tla refines it.             *)
(***************************************************************************)
EXTENDS Naturals, Sequences

CONSTANTS
  Wallets,       \* wallet identifiers
  Requests,      \* signing requests, each submitted at most once
  MaxQueueDepth  \* requests that may wait behind the one being signed

VARIABLES
  line,          \* line[w]: the requests of wallet w, in service order
  outcome        \* outcome[r]: what the submitter of r has been told

lineVars == <<line, outcome>>

LineInit ==
  /\ line = [w \in Wallets |-> <<>>]
  /\ outcome = [r \in Requests |-> "none"]

\* A request enters the line, unless one is being signed and the rest is full.
Enter(w, r) ==
  /\ outcome[r] = "none"
  /\ Len(line[w]) <= MaxQueueDepth
  /\ line' = [line EXCEPT ![w] = Append(@, r)]
  /\ outcome' = [outcome EXCEPT ![r] = "pending"]

Refuse(w, r) ==
  /\ outcome[r] = "none"
  /\ Len(line[w]) > MaxQueueDepth
  /\ outcome' = [outcome EXCEPT ![r] = "rejected"]
  /\ UNCHANGED line

\* The head of the line is answered and the next request takes its place.
Serve(w) ==
  /\ line[w] # <<>>
  /\ outcome' = [outcome EXCEPT ![Head(line[w])] = "resolved"]
  /\ line' = [line EXCEPT ![w] = Tail(@)]

InLine(w, r) == \E i \in 1..Len(line[w]) : line[w][i] = r

\* Everybody in the lines of the wallets ws is turned away.
Abort(ws) ==
  /\ line' = [w \in Wallets |-> IF w \in ws THEN <<>> ELSE line[w]]
  /\ outcome' = [r \in Requests |->
                   IF \E w \in ws : InLine(w, r) THEN "rejected" ELSE outcome[r]]

LineNext ==
  \/ \E w \in Wallets, r \in Requests : Enter(w, r) \/ Refuse(w, r)
  \/ \E w \in Wallets : Serve(w)
  \/ \E ws \in SUBSET Wallets : Abort(ws)

LineSpec == LineInit /\ [][LineNext]_lineVars
=============================================================================
