------------------------------ MODULE MCDelivery ----------------------------
(* Two instances of CaptureOutbox in one run, as both at once are beyond TLC  *)
(* under fairness: two processes and one identity, or one process and two     *)
(* identities that captured the same bytes.                                   *)
EXTENDS MCCaptureOutbox

CONSTANT p1

VARIABLE instance

delivery == <<instance, vars>>

Users   == IF instance = "processes" THEN Proc ELSE {p1}
Sources == IF instance = "processes" THEN {k1} ELSE Key

Within ==
    /\ \A p \in Proc : pc[p] = "publish" => Job(p).row[1] \in Sources
    /\ \A v \in Rev : tomb[v] # "none" => v[1] \in Sources
    /\ \A p \in Proc : pc[p] # "idle" => p \in Users

DeliveryNext == UNCHANGED instance /\ Next /\ Within'

(* CaptureOutbox's fairness, of those who take part. *)
DeliverySpec ==
    /\ Init /\ instance \in {"processes", "identities"}
    /\ [][DeliveryNext]_delivery
    /\ \A p \in Proc : /\ SF_delivery(p \in Users /\ BeginDrain(p) /\ UNCHANGED instance)
                       /\ SF_delivery(p \in Users /\ Proceed(p) /\ UNCHANGED instance)
    /\ \A v \in Rev : /\ WF_delivery(StoreAnswers(v) /\ UNCHANGED instance)
                      /\ WF_delivery(ExpireAbandoned(v) /\ UNCHANGED instance)
=============================================================================
