----------------------------- MODULE MCSnapshots -----------------------------
(* Lists of up to three snapshots, one more than an event has flags for    *)
(* here (eight in the program): a register, a buffer of five bytes named   *)
(* by an argument or by a live register, and a buffer whose length an      *)
(* argument carries, each required or optional.  The argument is one that  *)
(* is recorded, the fifth, whose place lr takes, or one beyond; words have *)
(* four bits, and lr means the same length as 18 and another than 0 and 3. *)
EXTENDS Snapshots
MCPhases == {"enter", "leave", "instruction"}
Plain(phase, shape, source, optional) ==
  [phase |-> phase, shape |-> shape, source |-> source, size |-> 5,
   sizeArg |-> 0, multiplier |-> 0, max |-> 0, optional |-> optional]
Dynamic(arg, optional) ==
  [phase |-> "enter", shape |-> "dynamic", source |-> "arg0", size |-> 0,
   sizeArg |-> arg, multiplier |-> 4, max |-> 9, optional |-> optional]
Registers(optional) == {Plain(p, "register", "s0", optional) : p \in MCPhases}
Buffers ==
  {Plain(p, "memory", s, o) : p \in MCPhases, s \in {"arg0", "x1"}, o \in BOOLEAN}
MCArguments == {[r \in 0..5 |-> IF r \in {1, 4} THEN count ELSE 1] : count \in {0, 3, 18}}
Lengths(args_) == {Dynamic(a, o) : a \in args_, o \in BOOLEAN}
ListsOf(D) == UNION {[1..n -> D] : n \in 1..3}
MCDeclarations ==
  ListsOf(Registers(FALSE) \cup Registers(TRUE) \cup Buffers
            \cup Lengths({1, 4, 5}))
=============================================================================
