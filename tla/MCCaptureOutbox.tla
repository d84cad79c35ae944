--------------------------- MODULE MCCaptureOutbox --------------------------
(* Small instances of CaptureOutbox for TLC. *)
EXTENDS CaptureOutbox, TLC

CONSTANTS k1, k2, o1, o2, h1

(* One identity, one object. *)
OneObject == o1 :> h1
OneCapture == {<<k1, o1>>}
OneRank == <<k1, h1>> :> 1

(* Two identities captured the same bytes: two rows, one object. *)
SharedCaptures == {<<k1, o1>>, <<k2, o1>>}
FirstCapture == {<<k1, o1>>}
SharedRank == (<<k1, h1>> :> 1) @@ (<<k2, h1>> :> 2)

NoCaptures == {}
AllRevs == Rev
NoRevs == {}

(* What may go wrong, and how often. *)
Quiet == [t \in Trouble |-> 0]
Failure == [Quiet EXCEPT !["failure"] = 1]
OneCrash == [Quiet EXCEPT !["crash"] = 1]
OneDamage == [Quiet EXCEPT !["damage"] = 1]
EverythingButDamage == [t \in Trouble |-> IF t = "damage" THEN 0 ELSE 1]

ProcSymmetry == Permutations(Proc)
=============================================================================
