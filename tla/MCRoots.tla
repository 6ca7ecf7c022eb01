------------------------------- MODULE MCRoots --------------------------------
(***************************************************************************)
(* An instance of the two parts that report roots, RootScanning (with      *)
(* RootsClosure) and CodeCacheRoots, for TLC.  They share no state, so     *)
(* that every behaviour of one goes with every behaviour of the other, and *)
(* it is enough to look at each of them while the other one rests.         *)
(***************************************************************************)
EXTENDS RootScanning, CodeCacheRoots

\* A stack with two compiled frames among other slots, and two roots elsewhere.
RootsOfSources == "stack" :> <<1, 2, 3, 4, 5>> @@ "universe" :> <<6, 7>>
LocationOfSlots == [s \in Slots |-> 100 + s]

\* RootScanning rests in an initial state without any reference.
NoRoots == InitRootScanning /\ \A s \in Slots : refersTo[s] = None

InitBoth == InitRootScanning /\ InitCodeCache

NextBoth == \/ NextRootScanning /\ InitCodeCache /\ UNCHANGED codeCacheVars
            \/ NextCodeCache /\ NoRoots /\ UNCHANGED allVars

SpecBoth == InitBoth /\ [][NextBoth]_<<allVars, codeCacheVars>>
===============================================================================
