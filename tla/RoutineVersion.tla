--------------------------- MODULE RoutineVersion ---------------------------
(***************************************************************************)
(* What a routine version may say (src/src/domain/routines.rs).  A version *)
(* is [number, inputs, steps]: an input is required, optional or has a     *)
(* default; a step has dependencies, bindings from placeholder names to    *)
(* sources, the holes its prompt leaves, the outputs it declares, an       *)
(* approval gate, a retry budget and the floor it claims, if any.  Names,  *)
(* prompts and saved canvas arrangements are left out, and so are the      *)
(* limits on their number and the other resources a step claims.           *)
(***************************************************************************)
EXTENDS Naturals, FiniteSets

Input(key) == [from |-> "input", key |-> key]
Output(step, key) == [from |-> "output", step |-> step, key |-> key]
Literal == [from |-> "literal"]

StepIds(v) == DOMAIN v.steps
DependsOn(v, s) == v.steps[s].deps

KnownDependencies(v) ==
  \A s \in StepIds(v) : DependsOn(v, s) \subseteq StepIds(v) \ {s}

\* The steps that come out of the repeated removal of a step with no
\* dependency left.
Ordered(v) ==
  LET out[n \in 0 .. Cardinality(StepIds(v))] ==
        IF n = 0 THEN {}
        ELSE {s \in StepIds(v) : DependsOn(v, s) \subseteq out[n - 1]}
  IN  out[Cardinality(StepIds(v))]

Acyclic(v) == Ordered(v) = StepIds(v)

\* The steps that have completed whenever step s is ready.
Ancestors(v, s) ==
  LET reached[n \in 0 .. Cardinality(StepIds(v))] ==
        IF n = 0 THEN DependsOn(v, s)
        ELSE reached[n - 1] \cup UNION {DependsOn(v, d) : d \in reached[n - 1]}
  IN  reached[Cardinality(StepIds(v))]

Available(v, s, source) ==
  CASE source.from = "input" -> source.key \in DOMAIN v.inputs
    [] source.from = "output" ->
         source.step \in Ancestors(v, s) /\ source.key \in v.steps[source.step].outputs
    [] OTHER -> TRUE

WellBound(v, s) ==
  LET binds == v.steps[s].binds IN
  /\ \A name \in DOMAIN binds : Available(v, s, binds[name])
  /\ v.steps[s].holes \subseteq DOMAIN binds

Accepts(v) ==
  /\ v.number > 0
  /\ StepIds(v) # {}
  /\ KnownDependencies(v)
  /\ Acyclic(v)
  /\ \A s \in StepIds(v) : WellBound(v, s)

\* Every required input is supplied and every supplied one is declared; a
\* default fills what is left out.
CanResolve(v, supplied) ==
  /\ supplied \subseteq DOMAIN v.inputs
  /\ \A key \in DOMAIN v.inputs : v.inputs[key] = "required" => key \in supplied

ResolveInputs(v, supplied) ==
  [key \in supplied \cup {k \in DOMAIN v.inputs : v.inputs[k] = "default"} |->
     IF key \in supplied THEN "supplied" ELSE "default"]
=============================================================================
