------------------------------- MODULE MCNode -------------------------------
(***************************************************************************)
(* What a node does on its own, on small instances: key generation and     *)
(* signing by the 3 parties of the deployment on a field of 11 scalars;    *)
(* social recovery with three guardians of whom two must approve, so that  *)
(* one more approval can arrive after the threshold, a time-lock of one    *)
(* and an expiry of two ticks of a clock of four; the storage of shares    *)
(* and their recovery from a backup; the checks around a request to sign;  *)
(* and what the node writes for others to read.  These share no state, so  *)
(* that their interleavings would add nothing: a behaviour of the instance *)
(* is a behaviour of one of them, while the others do not move.            *)
(***************************************************************************)
EXTENDS Node, TLC

CONSTANTS Refused, FieldPrime, CurveOrder, BaseX, BaseY, CurveKeys, CurveNonces,
          CurveHashes, ShareBytes, ShareOrder, PrimeBits, Plaintexts, Randoms

VARIABLES part, in, out

encodingVars == <<in, out>>
nodeVars == <<part, ceremonySpecVars, vars, custodyVars, backupVars, requestVars,
              encodingVars>>

-----------------------------------------------------------------------------
(* The instance.                                                           *)

\* The guardians are alike.
GuardianSymmetry == Permutations(Guardians)

\* Executions nest through the notification handler; two deep suffice.
NestedTwice == Len(running) <= 2

\* The coefficients of two polynomials.
Lines == {<<3, 5>>, <<4, 2>>}

\* Five x-coordinates for the five pairs of a point and its negative.
XOf == [k \in Scalars |->
          CASE k = 0 -> 0
            [] k \in {1, 10} -> 7
            [] k \in {2, 9} -> 4
            [] k \in {3, 8} -> 10
            [] k \in {4, 7} -> 2
            [] k \in {5, 6} -> 9]
Parity == [k \in Scalars |-> k % 2]

\* The loop of modInverse() gives inverses.
ASSUME InverseInverts == \A k \in Scalars \ {0} : Mod(k * ModInverse(k)) = 1

\* Ceremonies are explored with shares that are whole.
WithWholeShares == result # None => \A p \in Parties : Whole(p)

\* The part of the instance that key generation and signing are.
IsCeremony == part = "ceremony"

-----------------------------------------------------------------------------
Encodings == INSTANCE MCEncodings WITH Keys <- CurveKeys, Nonces <- CurveNonces,
    Hashes <- CurveHashes, Messages <- Plaintexts

NodeInit ==
  /\ part \in {"ceremony", "guardians", "custody", "backup", "requests", "encodings"}
  /\ CeremonyInit /\ Init
  /\ CustodyInit /\ (part # "custody" => provider = "local")
  /\ Backup!Init /\ Requests!Init
  /\ IF part = "encodings" THEN Encodings!Init ELSE in = None /\ out = << >>

NodeNext ==
  /\ UNCHANGED part
  /\ IF part = "ceremony" THEN CeremonyNext ELSE UNCHANGED ceremonySpecVars
  /\ IF part = "guardians" THEN Next ELSE UNCHANGED vars
  /\ IF part = "custody" THEN CustodyNext ELSE UNCHANGED custodyVars
  /\ IF part = "backup" THEN Backup!Next ELSE UNCHANGED backupVars
  /\ IF part = "requests" THEN Requests!Next ELSE UNCHANGED requestVars
  /\ IF part = "encodings" THEN Encodings!Next ELSE UNCHANGED encodingVars

NodeSpec == NodeInit /\ [][NodeNext]_nodeVars

\* What a node writes is what its reader gets, of each thing it writes: bytes
\* and signatures (MCEncodings), ciphertexts, shares at rest and backups.
ReadersAgree ==
  /\ part = "encodings" => /\ Encodings!WrittenIsRead
                           /\ Encodings!SignerRecovered
                           /\ Encodings!SumDecrypts
  /\ LoadedShareIsOwn
  /\ BackupRecovers
=============================================================================
