-------------------------- MODULE MCFixtureSession --------------------------
(* Four probes: a function, another that shares its address through a GOT  *)
(* slot, an instruction at the entry of the function, and a second GOT     *)
(* slot.  A file overrides a name of an earlier one; one directory has a   *)
(* function without expected bytes, one misses listed probes.  Images: the *)
(* pinned build, the pinned build with patched code or an unbound slot,    *)
(* another build at another base.                                          *)
EXTENDS FixtureSession
CONSTANTS fixture, worker
P(type, rva, expected) == [type |-> type, rva |-> rva, expected |-> expected]
File == [predict |-> P("function", 4, "stp"), slot |-> P("got", 8, Absent),
         point |-> P("instruction", 4, "stp"), other |-> P("got", 9, Absent)]
MCProbesDirs ==
  {<<[predict |-> P("function", 7, "old")], File>>,
   <<File, [unlisted |-> P("function", 4, Absent)]>>,
   <<[predict |-> P("function", 4, "stp")]>>}
MCListed == <<"predict", "point", "slot", "other">>
Image(base, identity, code, second) ==
  [base |-> base, identity |-> identity, code |-> [rva \in {4, 7} |-> code],
   got |-> [rva \in {8, 9} |-> IF rva = 8 THEN base + 4 ELSE second]]
MCModules ==
  {Image(100, "pinned", "stp", 300), Image(100, "pinned", "brk", 300),
   Image(100, "pinned", "stp", Absent), Image(200, "rebuilt", "stp", 300)}
MCWorkers == {worker}
=============================================================================
