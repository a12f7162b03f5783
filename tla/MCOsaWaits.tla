----------------------------- MODULE MCOsaWaits -----------------------------
(***************************************************************************)
(* The semaphore and the event flags share nothing: in each behaviour one  *)
(* of them runs and the other stays as it is.                              *)
(***************************************************************************)
EXTENDS OsaSem, MCOsaEvent

VARIABLE primitive

waitVars == <<primitive, semVars, eventVars>>

Init ==
    /\ primitive \in {"semaphore", "event"}
    /\ SemInit /\ EventInit
    /\ primitive # "event" => askable = SameAll

Next ==
    /\ \/ primitive = "semaphore" /\ SemNext   /\ UNCHANGED eventVars
       \/ primitive = "event"     /\ EventNext /\ UNCHANGED semVars
    /\ UNCHANGED primitive

Spec == Init /\ [][Next]_waitVars /\ SemFairness /\ EventFairness
=============================================================================
