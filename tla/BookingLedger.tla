---------------------------- MODULE BookingLedger ----------------------------
(***************************************************************************)
(* With one connection the transactions of Booking run one after another,  *)
(* and the reservation module keeps the promises of RoomLedger: the effect *)
(* of a transaction is its COMMIT, a crash changes nothing.                *)
(***************************************************************************)
EXTENDS Booking

\* The ledger's view of a committed row.  A row soft-deleted or expired is a
\* claim given up.
LedgerClaim(row) ==
  IF row = NoRow THEN NONE
  ELSE [state   |-> CASE ~Live(row)                             -> "released"
                      [] Live(row) /\ row.status = "HOLD"       -> "held"
                      [] Live(row) /\ row.status = "CONFIRMED"  -> "settled",
        session |-> row.session,
        room    |-> row.room]

LedgerSession(st) == CASE st = "ABSENT"    -> "unknown"
                       [] st = "ACTIVE"    -> "open"
                       [] st = "COMPLETED" -> "paid"
                       [] st = "EXPIRED"   -> "lapsed"

Ledger == INSTANCE RoomLedger WITH
            Claims  <- Reservations,
            Shares  <- Overlap,
            session <- [s \in Sessions |-> LedgerSession(sess[s])],
            claim   <- [r \in Reservations |-> LedgerClaim(resv[r])]

\* null is no claim.
ASSUME NullAssumption == NONE \notin Ledger!Claim

\* Serial transactions implement the ledger: a session holds one room, gives it
\* up with the step that takes another or that expires it, pays once and only
\* while it is open, and a settled claim stays settled.
ImplementsLedger == Ledger!Spec
=============================================================================
