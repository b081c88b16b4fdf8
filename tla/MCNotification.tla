---------------------------- MODULE MCNotification ----------------------------
(***************************************************************************)
(* Small instances of Notification for TLC.                                *)
(***************************************************************************)
EXTENDS Notification, TLC

CONSTANTS c1, q1, r1, r2, r3

\* A confirmed reservation that two rules may route, and a reply.
MCType == c1 :> "reservation.confirmed" @@ q1 :> "conversation.reply"
MCTo   == c1 :> {r1, r2} @@ q1 :> {r3}
OneTo  == c1 :> {r1} @@ q1 :> {r3}

\* The queued reply needs its consumer too, which notification.module.ts lacks.
MCConsumed == {"reservation.confirmed", "conversation.reply"}

Symmetry == Permutations(Runs) \cup Permutations(Workers) \cup Permutations({r1, r2})
=============================================================================
