----------------------------- MODULE RoomLedger -----------------------------
(***************************************************************************)
(* What the reservation module promises, with no transactions, rows or     *)
(* messages: a ledger of claims on rooms in which every operation is one   *)
(* indivisible step.                                                       *)
(***************************************************************************)
CONSTANTS
  Sessions,       \* booking sessions
  Rooms,          \* rooms
  Claims,         \* claims that can be made
  NONE,           \* a claim not made yet
  Shares(_, _)    \* the stays of two sessions have an instant in common

VARIABLES
  session,  \* "unknown", then "open", then "paid" or "lapsed"
  claim     \* NONE, then "held", then "settled" or "released"

ledger == <<session, claim>>

Claim == [state   : {"held", "settled", "released"},
          session : Sessions,
          room    : Rooms]

Taken(c) == claim[c] # NONE /\ claim[c].state \in {"held", "settled"}

HeldBy(s) == {c \in Claims : /\ claim[c] # NONE
                             /\ claim[c].state = "held"
                             /\ claim[c].session = s}

Init ==
  /\ session = [s \in Sessions |-> "unknown"]
  /\ claim = [c \in Claims |-> NONE]

Open(s) ==
  /\ session[s] = "unknown"
  /\ session' = [session EXCEPT ![s] = "open"]
  /\ UNCHANGED claim

\* The claims in C, and no others, are given up.
Without(C) == [c \in Claims |-> IF c \in C
                                  THEN [claim[c] EXCEPT !.state = "released"]
                                  ELSE claim[c]]

\* Hold a room that nobody else has, in place of the room held so far.
Hold(s, rm, c) ==
  /\ session[s] \in {"open", "paid"}
  /\ claim[c] = NONE
  /\ \A d \in Claims \ HeldBy(s) :
       ~(Taken(d) /\ claim[d].room = rm /\ Shares(s, claim[d].session))
  /\ claim' = [Without(HeldBy(s)) EXCEPT
                 ![c] = [state |-> "held", session |-> s, room |-> rm]]
  /\ UNCHANGED session

\* The session lapses and everything it holds is given up.
Lapse(s) ==
  /\ session[s] = "open"
  /\ session' = [session EXCEPT ![s] = "lapsed"]
  /\ claim' = Without(HeldBy(s))

\* An open session pays for a room it holds, once.
Settle(c) ==
  /\ \E s \in Sessions :
       /\ c \in HeldBy(s) /\ session[s] = "open"
       /\ session' = [session EXCEPT ![s] = "paid"]
  /\ claim' = [claim EXCEPT ![c].state = "settled"]

Next ==
  \/ \E s \in Sessions : Open(s) \/ Lapse(s)
  \/ \E s \in Sessions, rm \in Rooms, c \in Claims : Hold(s, rm, c)
  \/ \E c \in Claims : Settle(c)

Spec == Init /\ [][Next]_ledger
=============================================================================
