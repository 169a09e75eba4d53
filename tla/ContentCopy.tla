---------------------------- MODULE ContentCopy ----------------------------
(* What a download promises its reader: the content in order, and an end   *)
(* that says "complete" only after the last byte.                          *)
EXTENDS Naturals

CONSTANT TotalBytes

VARIABLES delivered, outcome

Init == delivered = 0 /\ outcome = "copying"

(* What was received before a failure may still be handed over. *)
Deliver ==
    /\ outcome # "complete"
    /\ \E n \in 1..(TotalBytes - delivered) : delivered' = delivered + n
    /\ UNCHANGED outcome

Complete ==
    /\ outcome = "copying" /\ delivered = TotalBytes
    /\ outcome' = "complete"
    /\ UNCHANGED delivered

Fail ==
    /\ outcome = "copying"
    /\ outcome' = "failed"
    /\ UNCHANGED delivered

Next == Deliver \/ Complete \/ Fail

Spec == Init /\ [][Next]_<<delivered, outcome>>
=============================================================================
