------------------------------- MODULE Handoff -------------------------------
(***************************************************************************)
(* What the two speed tasks promise together: a reading is published, then *)
(* judged, in strict alternation.  No reading is overwritten before it is  *)
(* judged and none is judged twice.                                        *)
(***************************************************************************)
EXTENDS Naturals

CONSTANTS Speed, HIGH_SPEED_THRESHOLD

VARIABLES value,    \* the published reading
          pending,  \* it has not been judged yet
          verdict   \* the last judgement: above the threshold

Init == value = 0 /\ pending = FALSE /\ verdict = FALSE

Publish ==
    /\ ~pending
    /\ pending' = TRUE
    /\ value' \in Speed
    /\ UNCHANGED verdict

Judge ==
    /\ pending
    /\ pending' = FALSE
    /\ verdict' = (value > HIGH_SPEED_THRESHOLD)
    /\ UNCHANGED value

Next == Publish \/ Judge

vars == <<value, pending, verdict>>

Spec == Init /\ [][Next]_vars

\* Readings keep coming and each one is judged.
FairSpec == Spec /\ WF_vars(Publish) /\ WF_vars(Judge)

=============================================================================
