----------------------------- MODULE MCCaseRun -----------------------------
(* Recordings made of Oracle and spoilt in one way or none, and programs   *)
(* that differ from it in one way or none.  One session runs any job, its  *)
(* neighbour replays geom on the same device.                              *)
EXTENDS CaseRun
CONSTANTS s1, s2
Scale(wrong) ==
  [x \in [1..2 -> 1..2] |-> <<10 * x[1], x[2], IF x = wrong THEN 0 ELSE x[1] + x[2]>>]
Direction(wrong) ==
  [x \in [1..3 -> 1..2] |-> <<x[1], IF x = wrong THEN 0 ELSE 50 + x[2], x[3]>>]
Args == [scale |-> <<<<1, 2>>, <<2, 1>>>>, direction |-> <<<<1, 2, 1>>, <<2, 1, 2>>>>]

Room == 2
SampleLists == UNION {[1..n -> 1..2] : n \in 0..(Room + 1)}
Gain(x, b) == ChildCall("apply", b, Len(x), "none")
Peak(x, b) == ChildCall("normalize", b, Len(x), "none")
Sum(x, b) == ChildCall("summarize", b, Len(x), "out")
Path(c, x, b) ==
  CASE c = 0 -> <<Gain(x, b), Sum(x, b)>>
    [] c = 1 -> <<Gain(x, b), Peak(x, b), Sum(x, b)>>
    [] OTHER -> <<Peak(x, b), Gain(x, b), Sum(x, b)>>
Taken(paths) ==
  [c \in Configs |-> [x \in SampleLists |->
     [children |-> IF Len(x) \in 1..Room THEN paths[c][x] ELSE <<>>, floats |-> <<c, Len(x)>>]]]
Paths(b) == [c \in Configs |-> [x \in SampleLists |-> Path(c, x, b)]]
Swapped == [Paths("work") EXCEPT ![1] = Paths("work")[2]]
NoPeak == [Paths("work") EXCEPT ![1][<<2, 1>>] = Path(0, <<2, 1>>, "work")]
MCOracle ==
  [scale |-> Scale(<<>>), direction |-> Direction(<<>>), process |-> Taken(Paths("work"))]
Programs(case) ==
  IF case = "pipeline"
    THEN {[MCOracle EXCEPT !.process = Taken(p)] :
            p \in {Paths("work"), Paths("input"), Swapped, NoPeak}}
    ELSE {MCOracle, [MCOracle EXCEPT !.scale = Scale(Args.scale[2])],
          [MCOracle EXCEPT !.direction = Direction(Args.direction[1])]}

Call(kind, a) ==
  [kind |-> kind, arg |-> Args[kind][a], out |-> MCOracle[kind][Args[kind][a]],
   complete |-> TRUE, children |-> <<>>, captured |-> TRUE, sequence |-> 0]
Good == {Call(k, a) : k \in {"scale", "direction"}, a \in 1..2}
Spoilt == LET c == Call("scale", 1)
          IN  {[c EXCEPT !.children = <<1>>], [c EXCEPT !.captured = FALSE]}
Trace(set, calls, claims) ==
  [parses |-> TRUE, set |-> set, calls |-> calls, claims |-> claims]
Recording(trace, usable) == [trace |-> trace, usable |-> usable]
HasBoth(calls) == {calls[n].kind : n \in DOMAIN calls} = {"scale", "direction"}
GeomRuns ==
  [1..3 -> Good]
    \cup {r \o <<Call("direction", 1)>> : r \in [1..3 -> {Call("scale", 1), Call("scale", 2)}]}
Pair == <<Call("direction", 1), Call("scale", 1)>>
GeomRecordings ==
  {Recording(Trace("probe-set", r, <<>>), HasBoth(r)) : r \in GeomRuns}
    \cup {Recording(Trace("probe-set", <<Call("direction", 1), c>>, <<>>), FALSE) :
            c \in Spoilt}
    \cup {Recording(Trace("pipeline-probe-set", Pair, <<>>), FALSE),
          Recording([Trace("probe-set", Pair, <<>>) EXCEPT !.parses = FALSE], FALSE)}

(* A fixture calls from one thread, or from two, of which the second has   *)
(* made fewer calls before.                                                *)
Numbered(r, numbers) == [n \in DOMAIN r |-> [r[n] EXCEPT !.sequence = numbers[n]]]
FixtureRuns ==
  {Numbered(<<Call("direction", d), Call("direction", 1), Call("scale", a), Call("scale", 2)>>,
            numbers) :
     d, a \in 1..2, numbers \in {<<1, 3, 5, 7>>, <<3, 1, 5, 5>>}}
Claim(c) == [kind |-> c.kind, output |-> Buffer(c.kind, c.out)]
Claims(r) == [n \in DOMAIN r |-> Claim(r[n])]
Honest(r) == Claims(BySequence(OfKind(r, "direction")) \o BySequence(OfKind(r, "scale")))
Lies(r) == {[Honest(r) EXCEPT ![n].output = [@ EXCEPT ![2] = 0]] : n \in DOMAIN r}
             \cup {[Honest(r) EXCEPT ![n].kind = k] : n \in DOMAIN r, k \in {"other", "scale"}}
             \cup ({Claims(r)} \ {Honest(r)})
FixtureRecordings ==
  UNION {{Recording(Trace("probe-set", r, Honest(r)), TRUE),
          Recording(Trace("probe-set", r, SubSeq(Honest(r), 1, 3)), FALSE)}
           \cup {Recording(Trace("probe-set", r, l), FALSE) : l \in Lies(r)} : r \in FixtureRuns}

(* Addresses of the buffers of a recorded call.                            *)
Layouts == {[work |-> 1, out |-> 2, input |-> i, none |-> 0] : i \in {2, 3}}
Parent(config, x, layout) ==
  [kind |-> "process", config |-> config, count |-> Len(x), samples |-> x,
   x1 |-> layout.input, x3 |-> layout.out, complete |-> TRUE,
   captured |-> {"x0", "x1", "x2", "x3", "arg1"},
   children |->
     IF config \notin Configs THEN <<>> ELSE
     LET made == MCOracle["process"][config][x].children
     IN  [n \in DOMAIN made |->
            [kind |-> made[n].kind, x0 |-> layout[made[n].args[1]], count |-> made[n].args[2],
             x3 |-> IF made[n].kind = "summarize" THEN layout.out ELSE 9,
             captured |-> {"x0", "x1", "x3", "s0"}]]]
Five(l) ==
  <<Parent(0, <<1>>, l), Parent(3, <<1>>, l), Parent(2, <<1, 2>>, l), Parent(2, <<2>>, l),
    Parent(1, <<2, 1>>, l)>>
Pipeline(calls, usable) == Recording(Trace("pipeline-probe-set", calls, <<>>), usable)
PipelineRecordings ==
  UNION {{Pipeline(Five(l), TRUE),
          Pipeline([Five(l) EXCEPT ![1] = Parent(0, <<>>, l)], TRUE),
          Pipeline([Five(l) EXCEPT ![1] = Parent(0, <<1, 2, 1>>, l)], FALSE),
          Pipeline([Five(l) EXCEPT ![3].samples = <<1>>], FALSE),
          Pipeline([Five(l) EXCEPT ![3].captured = @ \ {"arg1"}], FALSE),
          Pipeline([Five(l) EXCEPT ![4].captured = {}], FALSE),
          Pipeline([Five(l) EXCEPT ![5].children[2].captured = {"x0", "x1"}], FALSE),
          Pipeline(SubSeq(Five(l), 1, 4), FALSE),
          Pipeline([Five(l) EXCEPT ![1].children[1].kind = "process"], FALSE)}
         : l \in Layouts}

Job(case, r, program, place, registered) ==
  [case |-> case, trace |-> r.trace, usable |-> r.usable /\ registered,
   program |-> program, target |-> place[1], compiler |-> place[2], registered |-> registered]
Places == {<<"host", "none">>, <<"device", "none">>, <<"device", "cc">>,
            <<"device", "ndk">>, <<"host", "ndk">>}
JobsOf(case, recordings) ==
  {Job(case, r, p, place, TRUE) : r \in recordings, p \in Programs(case), place \in Places}
Neighbour ==
  Job("geom",
      Recording(Trace("probe-set", <<Call("direction", 2), Call("scale", 2)>>, <<>>), TRUE),
      MCOracle, <<"device", "ndk">>, TRUE)
Beside(jobs_) == {(s1 :> j) @@ (s2 :> Neighbour) : j \in jobs_}
MCJobs ==
  Beside(JobsOf("geom", GeomRecordings) \cup JobsOf("fixture", FixtureRecordings)
           \cup JobsOf("pipeline", PipelineRecordings)
           \cup {[Neighbour EXCEPT !.registered = FALSE, !.usable = FALSE]})
MCSessions == {s1, s2}
MCNumbers == Nat
=============================================================================
