------------------------------- MODULE MCLab --------------------------------
(***************************************************************************)
(* The two command-line tools around the fault scenarios, in one run: the  *)
(* fault lab with two cases of different classes, one of them compared     *)
(* with its last fault sample and of the resource family, and the          *)
(* readiness measurement with two directories.  They share no state: a     *)
(* behaviour is one of one tool and the other one is not started.          *)
(***************************************************************************)
EXTENDS FaultLab, Readiness

VARIABLE tool   \* the tool that is used

MCCases == <<"emailMemoryLeak", "paymentFailure">>
MCSampleBound == {"emailMemoryLeak"}
MCSignificant == {<<2, 4>>, <<3, 4>>}

MCLabInit == tool \in {"lab", "readiness"} /\ LabInit /\ ReadinessInit

MCLabNext ==
    /\ UNCHANGED tool
    /\ \/ tool = "lab" /\ LabNext /\ UNCHANGED readinessVars
       \/ tool = "readiness" /\ ReadinessNext /\ UNCHANGED labVars

MCLabSpec == MCLabInit /\ [][MCLabNext]_<<tool, labVars, readinessVars>>

=============================================================================
