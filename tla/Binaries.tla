------------------------------ MODULE Binaries ------------------------------
(***************************************************************************)
(* What the two programs of src/bin do around the pipeline: the exporter's  *)
(* command line and health sidecar, the opening of a durable root that its  *)
(* local modes begin with, and reconstitution.  They share no state; a      *)
(* behaviour is one of the three.                                           *)
(***************************************************************************)
EXTENDS Restore, Command, SecureRoot

VARIABLE part

all == <<part, vars, command, root>>

Init ==
    /\ part \in {"restore", "command", "root"}
    /\ RestoreInit /\ CommandInit
    /\ SecureRootInit
    /\ part # "root" => ~create /\ entry = CHOOSE e \in Entries : TRUE
    /\ part # "restore" => checkout[Here] = CHOOSE w \in Workplace : TRUE

Next ==
    /\ \/ part = "restore" /\ RestoreNext /\ UNCHANGED <<command, root>>
       \/ part = "command" /\ CommandNext /\ UNCHANGED <<vars, root>>
       \/ part = "root" /\ SecureRootNext /\ UNCHANGED <<vars, command>>
    /\ UNCHANGED part

Spec == Init /\ [][Next]_all

(* Type correctness, with what the parts keep of their own.                 *)
TypeOK == RestoreTypeOK /\ CommandTypeOK /\ SecureRootTypeOK
=============================================================================
