---------------------------- MODULE MCHeapStartup -----------------------------
(* An instance of HeapStartup for TLC. *)
EXTENDS HeapStartup

\* Nothing given, or one option, by each combination of sources: options are
\* independent of each other.
OneOptionGiven ==
  {g \in [Options -> SUBSET {"env", "flag", "bulk"}] :
     /\ "flag" \notin g["plan"]
     /\ Cardinality({o \in Options : g[o] # {}}) <= 1}

\* With and without a base, with and without a shift.
NarrowKlassChoices == {[base |-> 0, shift |-> 3], [base |-> HalfWord, shift |-> 0],
                       [base |-> HalfWord, shift |-> 3]}

\* Objects of every kind, with none, one or two runs of reference fields.
SmallShapes ==
       [id : {"Instance"}, refs : SUBSET {0, 1, 3}, len : {0},
        type : {"None"}, vtable : {1}, itable : {0, 2}, slow : BOOLEAN]
  \cup [id : {"InstanceClassLoader"}, refs : {{0, 1, 3}}, len : {0},
        type : {"None"}, vtable : {1}, itable : {0}, slow : {FALSE}]
  \cup [id : {"InstanceMirror"}, refs : SUBSET {1, 2}, len : 0 .. 2,
        type : {"None"}, vtable : {1}, itable : {0}, slow : {TRUE}]
  \cup [id : {"InstanceRef"}, refs : {{1, 2}, {1, 2, 4}}, len : {0},
        type : {"Soft", "Weak", "Phantom", "Final", "Other"},
        vtable : {1}, itable : {0}, slow : BOOLEAN]
  \cup [id : {"ObjArray"}, refs : {{}}, len : 0 .. 3, type : {"None"},
        vtable : {0}, itable : {0}, slow : {FALSE}]
  \cup [id : {"TypeArray"}, refs : {{}}, len : 0 .. 3, type : {"None"},
        vtable : {0}, itable : {0}, slow : {FALSE}, log2 : 0 .. 3]
===============================================================================
