-------------------------- MODULE MCReferencePending --------------------------
(* An instance of ReferencePending for TLC. *)
EXTENDS ReferencePending

CONSTANTS WeakRefs, PhantomRefs, FinalRefs

MCRefs == WeakRefs \cup PhantomRefs \cup FinalRefs
MCTypeOf == [r \in MCRefs |-> IF r \in WeakRefs THEN "Weak"
                              ELSE IF r \in PhantomRefs THEN "Phantom" ELSE "Final"]
===============================================================================
