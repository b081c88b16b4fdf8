------------------------------ MODULE MCBooking ------------------------------
(***************************************************************************)
(* Small instances of Booking for TLC.                                     *)
(***************************************************************************)
EXTENDS BookingLedger, TLC

CONSTANTS s1, s2

\* The second stay begins at the instant the first one ends: with closed
\* ranges the two overlap.
MCCheckIn  == [s \in Sessions |-> IF s = s1 THEN 1 ELSE 3]
MCCheckOut == [s \in Sessions |-> IF s = s1 THEN 3 ELSE 5]

\* Two stays that share a night.
MCCheckOutLate == [s \in Sessions |-> IF s = s1 THEN 4 ELSE 5]

Symmetry == Permutations(Rooms) \cup Permutations(Txs)
            \cup Permutations(Reservations) \cup Permutations(Refs)

\* Start after the links were sent, where every session is ACTIVE and its
\* expire message queued: a state Spec reaches, and a shorter search.
LinkedInit ==
  /\ sess = [s \in Sessions |-> "ACTIVE"]
  /\ resv = [r \in Reservations |-> NoRow]
  /\ sdraft = [s \in Sessions |-> NoSDraft]
  /\ draft = [r \in Reservations |-> NoDraft]
  /\ tx = [t \in Txs |-> Idle]
  /\ lapsed = {}
  /\ expireMsg = Sessions
  /\ sent = {Event("session_link", s, NONE, NONE) : s \in Sessions}
  /\ intentOf = [i \in Intents |-> NONE]
  /\ reply = [i \in Intents |-> "none"]
  /\ crashes = 0

LinkedSpec == LinkedInit /\ [][Next]_vars
=============================================================================
