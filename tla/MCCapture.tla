----------------------------- MODULE MCCapture ------------------------------
(* Four sessions of the capture service, three of them of one journey. *)
EXTENDS CaptureService

Journeys == [s \in Session |-> IF s = 3 THEN "B" ELSE "A"]
=============================================================================
