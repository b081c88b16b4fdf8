------------------------------ MODULE Purchase -------------------------------
(***************************************************************************)
(* What the checkout promises a guest: money, then the room, then thanks.  *)
(* An intent is paid at most once, a room is booked only with a paid       *)
(* intent, the guest is thanked only for a booked one and told the session *)
(* is over only when it is.                                                *)
(***************************************************************************)
CONSTANT Intents

VARIABLES paid, booked, over, screen

Init == paid = {} /\ booked = {} /\ over = FALSE /\ screen = "booking"

Pay == /\ \E i \in Intents \ paid : paid' = paid \cup {i}
       /\ UNCHANGED <<booked, over, screen>>

Book == /\ \E i \in paid \ booked : booked' = booked \cup {i}
        /\ UNCHANGED <<paid, over, screen>>

EndSession == ~over /\ over' = TRUE /\ UNCHANGED <<paid, booked, screen>>

Thank == booked # {} /\ screen' = "confirmation" /\ UNCHANGED <<paid, booked, over>>

SendAway == over /\ screen' = "expired" /\ UNCHANGED <<paid, booked, over>>

Next == Pay \/ Book \/ EndSession \/ Thank \/ SendAway

Spec == Init /\ [][Next]_<<paid, booked, over, screen>>
=============================================================================
