------------------------------ MODULE MCApplier ------------------------------
(* Instances of Applier for TLC. *)
EXTENDS Applier, TLC

\* A CRD and an instance of it in one stack, an ordinary object in another.
MCObjects == {"crd", "cr", "obj"}
MCNeeds == [o \in MCObjects |-> IF o = "cr" THEN "crd" ELSE None]
MCManifests ==
    "a" :> {"crd" :> 1 @@ "cr" :> 1, "crd" :> 2}
    @@ "b" :> {"obj" :> 1}
=============================================================================
