------------------------------ MODULE Adapters ------------------------------
(***************************************************************************)
(* The case adapters: what compare_geom, compare_fixture and               *)
(* compare_pipeline require of a recording, the input they give to a       *)
(* replay program, what the program makes of it with an implementation,    *)
(* and what is compared.  compare_predict is in FixtureSession.            *)
(*                                                                         *)
(* A float is a number that is only compared.  A program maps the function *)
(* names "scale" and "direction" to functions from the floats of the       *)
(* arguments (two, three) to three floats (two in the output buffer and    *)
(* the returned one; three in the buffer), and "process" to a function     *)
(* from a config and the samples to the calls made and the floats left.    *)
(***************************************************************************)
EXTENDS Integers, SequencesExt, Comprehension

CONSTANTS
  Numbers,          \* the values of a float
  CasesPerKind,     \* SCALE_CASES and DIRECTION_CASES, 32
  CasesPerConfig,   \* 4
  MaxSamples,       \* what replay_pipeline has room for, 64
  Refused           \* a recording, an input or a run that is refused; no sequence

ASSUME CasesAssumption == CasesPerKind \in Nat \ {0}
ASSUME RefusedAssumption == Refused \notin Seq(Numbers)

Configs == 0..2
Arity == [apply |-> 3, normalize |-> 2, summarize |-> 4]     \* argc of a child call

OfKind(calls, kind) == Picked(calls, {n \in DOMAIN calls : calls[n].kind = kind})
Prefix(s, n) == SubSeq(s, 1, IF Len(s) < n THEN Len(s) ELSE n)

(* validate.load: the file parses and names the probe set; the adapters    *)
(* pass no build to compare.                                               *)
Loads(trace, name) == trace.parses /\ trace.set = name

-----------------------------------------------------------------------------
(* compare_geom and compare_fixture, which write the same stream: the      *)
(* number of cases of each kind, then the arguments of the scales and of   *)
(* the directions, with nothing to tell them apart.                        *)

Joined(calls, part) == FlattenSeq([n \in DOMAIN calls |-> calls[n][part]])
ExpectedOutputs(cases) == Joined(cases.scale, "out") \o Joined(cases.direction, "out")
Inputs(cases) ==
  <<Len(cases.scale), Len(cases.direction)>>
    \o Joined(cases.scale, "arg") \o Joined(cases.direction, "arg")

(* Mutant: one case of a kind too few.                                     *)
OneLess(calls) == Prefix(calls, CasesPerKind - 1)

FirstCases(calls) == Prefix(calls, CasesPerKind)

GeomCases(trace) ==
  LET scales == OfKind(trace.calls, "scale")
      directions == OfKind(trace.calls, "direction")
      cases == [scale |-> FirstCases(scales), direction |-> FirstCases(directions)]
  IN  IF /\ scales # <<>> /\ directions # <<>>
         /\ \A c \in Range(scales) \cup Range(directions) : c.complete /\ c.children = <<>>
         /\ \A c \in Range(cases.scale) \cup Range(cases.direction) : c.captured
        THEN cases ELSE Refused

(* compare_fixture: claims are checked directions first, the order of the  *)
(* fixture; only their output buffers are compared, and a claim of another *)
(* kind counts as checked.                                                 *)
Buffer(kind, out) == IF kind = "scale" THEN SubSeq(out, 1, 2) ELSE out
Floats == [scale |-> 2, direction |-> 3]

(* Mutant: only directions are compared.                                   *)
DirectionAgrees(claim, c) ==
  claim.kind = "direction" =>
    Len(Buffer(c.kind, c.out)) >= 3 /\ claim.output = SubSeq(Buffer(c.kind, c.out), 1, 3)

ClaimAgrees(claim, c) ==
  claim.kind \in DOMAIN Floats =>
    LET n == Floats[claim.kind]
        buffer == Buffer(c.kind, c.out)
    IN  c.captured /\ Len(buffer) >= n /\ claim.output = SubSeq(buffer, 1, n)

ClaimsAgree(aligned, claims) ==
  /\ aligned # <<>> /\ claims # <<>>
  /\ \A n \in DOMAIN aligned \cap DOMAIN claims : ClaimAgrees(claims[n], aligned[n])

FixtureCases(trace) ==
  LET scales == BySequence(OfKind(trace.calls, "scale"))
      directions == BySequence(OfKind(trace.calls, "direction"))
  IN  IF /\ ClaimsAgree(directions \o scales, trace.claims)
         /\ Len(trace.claims) >= Len(scales) + Len(directions)
         /\ \A c \in Range(scales) \cup Range(directions) : c.complete /\ c.captured
        THEN [scale |-> scales, direction |-> directions] ELSE Refused

(* replay_geom: too short an input and bytes left over are refused.        *)
ScaleAnswers(program, stream, count) ==
  FlattenSeq([n \in 1..count |-> program["scale"][SubSeq(stream, 2 * n - 1, 2 * n)]])
DirectionAnswers(program, stream, count) ==
  FlattenSeq([n \in 1..count |-> program["direction"][SubSeq(stream, 3 * n - 2, 3 * n)]])

ReplayGeom(program, input) ==
  LET scales == input[1]
      directions == input[2]
      last == 2 + 2 * scales
  IN  IF Len(input) = last + 3 * directions
        THEN ScaleAnswers(program, SubSeq(input, 3, last), scales)
               \o DirectionAnswers(program, SubSeq(input, last + 1, Len(input)), directions)
        ELSE Refused

-----------------------------------------------------------------------------
(* compare_pipeline: a pointer argument is named by its role.              *)

(* Mutant: the input buffer is recognised before the output buffer.        *)
InputFirst(parent, address) ==
  IF parent.children # <<>> /\ address = parent.children[1].x0 THEN "work"
  ELSE IF address = parent.x1 THEN "input"
  ELSE IF address = parent.x3 THEN "out" ELSE "unknown"

Identity(parent, address) ==
  IF parent.children # <<>> /\ address = parent.children[1].x0 THEN "work"
  ELSE IF address = parent.x3 THEN "out"
  ELSE IF address = parent.x1 THEN "input" ELSE "unknown"

(* The gain and the scale are not compared, nor are the bytes in a buffer. *)
ChildCall(kind, values, count, out) ==
  [kind |-> kind, argc |-> Arity[kind],
   args |-> <<values, count>> \o (IF kind = "summarize" THEN <<out>> ELSE <<>>)]

ChildContract(parent) ==
  [n \in DOMAIN parent.children |->
     LET child == parent.children[n]
     IN  ChildCall(child.kind, Identity(parent, child.x0), child.count,
                   Identity(parent, child.x3))]

(* The first calls of each config, in the order they were made.            *)
Chosen(trace) ==
  LET parents == OfKind(trace.calls, "process")
      Earlier(n) == Cardinality({m \in 1..(n - 1) : parents[m].config = parents[n].config})
  IN  Picked(parents, {n \in DOMAIN parents :
                         parents[n].config \in Configs /\ Earlier(n) < CasesPerConfig})

(* What is read of a chosen call and of a helper's, on enter but for s0.   *)
ParentParts == {"x1", "x2", "x3", "arg1"}
ChildParts ==
  [apply |-> {"x0", "x1"}, normalize |-> {"x0", "x1", "s0"}, summarize |-> {"x0", "x1", "x3"}]

Samples(c) == SubSeq(c.samples, 1, c.count)

PipelineInput(trace) ==
  LET chosen == Chosen(trace)
  IN  IF /\ \A c \in Range(OfKind(trace.calls, "process")) : c.complete /\ "x0" \in c.captured
         /\ \A config \in Configs : \E c \in Range(chosen) : c.config = config
         /\ \A c \in Range(chosen) :
              /\ ParentParts \subseteq c.captured /\ c.count <= Len(c.samples)
              /\ \A k \in Range(c.children) :
                   k.kind \in DOMAIN Arity /\ ChildParts[k.kind] \subseteq k.captured
        THEN [n \in DOMAIN chosen |-> [config |-> chosen[n].config,
                                       samples |-> Samples(chosen[n]),
                                       expected |-> ChildContract(chosen[n])]]
        ELSE Refused

(* Mutant: only which helper is called is compared.                        *)
SameKinds(made, expected) ==
  [n \in DOMAIN made |-> made[n].kind] = [n \in DOMAIN expected |-> expected[n].kind]

SameChildren(made, expected) == made = expected

(* replay_pipeline: contract_child at every call, and none may be missing. *)
Made(program, case) == program["process"][case.config][case.samples]
ReplayPipeline(program, input) ==
  IF \A n \in DOMAIN input :
       /\ Len(input[n].samples) <= MaxSamples
       /\ SameChildren(Made(program, input[n]).children, input[n].expected)
    THEN FlattenSeq([n \in DOMAIN input |-> Made(program, input[n]).floats])
    ELSE Refused

-----------------------------------------------------------------------------
(* The three cases.                                                        *)

ProbeSet ==
  [geom |-> "probe-set", fixture |-> "probe-set", pipeline |-> "pipeline-probe-set"]

GeomStream(case, trace) == IF case = "geom" THEN GeomCases(trace) ELSE FixtureCases(trace)

(* load(), the checks and the encoding of an adapter's main().             *)
Encoded(case, trace) ==
  IF ~Loads(trace, ProbeSet[case]) THEN Refused
  ELSE IF case = "pipeline" THEN PipelineInput(trace)
  ELSE LET cases == GeomStream(case, trace)
       IN  IF cases = Refused THEN Refused ELSE Inputs(cases)

Replay(case, program, input) ==
  IF case = "pipeline" THEN ReplayPipeline(program, input) ELSE ReplayGeom(program, input)

(* The comparison: of a pipeline only that there is output at all.         *)
Passes(case, trace, output) ==
  IF case = "pipeline" THEN output # <<>>
                       ELSE output = ExpectedOutputs(GeomStream(case, trace))
=============================================================================
