--------------------------- MODULE MCInProcessApi ---------------------------
(* Instances of InProcessApi for TLC.                                      *)
EXTENDS InProcessApi

CONSTANTS panel

NewVersions == [t \in Tools |-> {7}]

\* A panel of the first version beside the API.
PanelIsOld == [t \in Controls |-> IF t = panel THEN 1 ELSE 2]

\* The application from its start to its end, alone with the driver.
Alone == [api |-> TRUE, ends |-> TRUE, captures |-> 1, late |-> 0,
          orders |-> 0, requests |-> {}]

\* One of its requests times out.
Late == [Alone EXCEPT !.ends = FALSE, !.late = 1]

\* A panel that connects, and may resume the driver while the API does.
Together == [Alone EXCEPT !.ends = FALSE, !.captures = 0,
                          !.orders = 2, !.requests = {"ResumeDriver"}]

\* A panel that pauses, steps and resumes an application without the API.
Panel == [Together EXCEPT !.api = FALSE, !.orders = 3, !.requests = Requests]

\* A panel whose request times out.
PanelLate == [Panel EXCEPT !.late = 1, !.orders = 2]

AllPlans == {Alone, Late, Together, Panel, PanelLate}
=============================================================================
