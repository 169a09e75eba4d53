-------------------------- MODULE MCEventsAndExport --------------------------
(* The events of a session whose output keeps up, under fair scheduling,   *)
(* and its exports while one session changes: a behaviour exercises one.   *)
EXTENDS MCSessionEvents, SessionExport

CONSTANT a  \* the session that is selected first
VARIABLE exercised

TrafficInit ==
    /\ Init /\ ExportInit /\ exercised \in {"events", "export"}
    /\ view.selected = a

TrafficNext ==
    /\ \/ exercised = "events" /\ Next /\ UNCHANGED exportVars
       \/ exercised = "export" /\ ExportNext /\ UNCHANGED vars
          /\ \A s \in Exported \ {a} : revision'[s] = revision[s]
    /\ UNCHANGED exercised

(* Nothing of the events that is scheduled fairly is enabled before the    *)
(* client's first request: an export meets the fairness.                   *)
TrafficSpec ==
    TrafficInit /\ [][TrafficNext]_<<vars, exportVars, exercised>> /\ Fairness
=============================================================================
