--------------------------- MODULE AtomicUpgrade ---------------------------
(***************************************************************************)
(* What one upgrade of the installed executable promises, whatever fails   *)
(* on the way: it is decided once, for the new bytes or for the old ones,  *)
(* the executable holds the decided bytes from then on, and only a decided *)
(* upgrade is forgotten.  An upgrade whose restore failed is broken and    *)
(* stays on record.                                                        *)
(***************************************************************************)
VARIABLES verdict, bytes

vars == <<verdict, bytes>>

Init == verdict = "none" /\ bytes = "previous"

\* The journal of a new upgrade is durable; an old verdict is superseded.
Begin == /\ verdict \in {"none", "old"} /\ bytes = "previous"
         /\ verdict' = "open" /\ bytes' = bytes

\* Nobody took the upgrade over; its initiator withdraws it.
Withdraw == /\ verdict = "open" /\ bytes = "previous"
            /\ verdict' = "none" /\ bytes' = bytes

\* Until it is decided the executable may be replaced and put back.
Try == verdict = "open" /\ bytes' \in {"previous", "candidate"} /\ verdict' = verdict

Decide == /\ verdict = "open" /\ bytes' = bytes
          /\ \/ bytes = "candidate" /\ verdict' = "new"
             \/ bytes = "previous" /\ verdict' = "old"

Break == verdict \in {"open", "old"} /\ verdict' = "broken"
         /\ bytes' \in {"previous", "candidate"}

Repair == verdict = "broken" /\ verdict' = verdict
          /\ bytes' \in {"previous", "candidate"}

End == verdict \in {"new", "old"} /\ verdict' = "none" /\ bytes' = bytes

Next == Begin \/ Withdraw \/ Try \/ Decide \/ Break \/ Repair \/ End

Spec == Init /\ [][Next]_vars
=============================================================================
