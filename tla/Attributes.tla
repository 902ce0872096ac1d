----------------------------- MODULE Attributes -----------------------------
(***************************************************************************)
(* The attribute bag and what is decided on it without leaving the crate   *)
(* (ppe-apl-core: attributes.rs, evaluator.rs, pipeline.rs): conditions,   *)
(* rule lists and field pipelines.                                         *)
(*                                                                         *)
(* A bag maps a key, the sequence of its dotted segments, to a tagged      *)
(* value: <<"bool", b>>, <<"int", n>>, <<"float", h, real>> (h halves, 3   *)
(* for 1.5, and real FALSE for NaN), <<"string", s>>, <<"set", S>>.  Field *)
(* values keep what stages can tell apart: [kind, n, len, shown, need],    *)
(* where shown counts the trailing characters of the original text still   *)
(* readable and need[t] the trailing characters a trait t rests on.        *)
(***************************************************************************)
EXTENDS Integers, Sequences, FiniteSets, SequencesExt

CONSTANTS Numeric,      \* strings that parse as a number, with their value
          ExactDouble,  \* largest integer from which a double has gaps (2^53)
          TextOf        \* segments a scalar's text adds to a key

Min2(a, b) == IF a < b THEN a ELSE b

-----------------------------------------------------------------------------
(* AttributeBag *)

Has(bag, key) == key \in DOMAIN bag
Is(bag, key, tag) == Has(bag, key) /\ bag[key][1] = tag
GetBool(bag, key) == IF Is(bag, key, "bool") THEN <<bag[key][2]>> ELSE <<>>
GetString(bag, key) == IF Is(bag, key, "string") THEN <<bag[key][2]>> ELSE <<>>
GetStringSet(bag, key) == IF Is(bag, key, "set") THEN <<bag[key][2]>> ELSE <<>>
SetContains(bag, key, value) == Is(bag, key, "set") /\ value \in bag[key][2]

ScalarAsString(bag, key) ==
    IF Has(bag, key) /\ bag[key][1] # "set" THEN <<TextOf[bag[key]]>> ELSE <<>>

(* A written key is a sequence of parts, <<"lit", segments>> or            *)
(* <<"ref", key>> for a bracketed reference.  One reference that is absent *)
(* or holds a set makes the whole key unresolvable.                        *)
ResolveKey(bag, parts) ==
    LET text(p) == IF p[1] = "lit" THEN <<p[2]>> ELSE ScalarAsString(bag, p[2])
    IN IF \E i \in DOMAIN parts : text(parts[i]) = <<>> THEN <<>>
       ELSE <<FoldLeft(LAMBDA acc, p : acc \o text(p)[1], <<>>, parts)>>

-----------------------------------------------------------------------------
(* Comparisons.  A double is counted in halves; integers beyond the exact  *)
(* range fall onto the even one below.                                     *)

AsDouble(n) == 2 * (IF n <= ExactDouble /\ n >= -ExactDouble THEN n ELSE 2 * (n \div 2))

CoerceF64(v) ==
    CASE v[1] = "int" -> <<AsDouble(v[2])>>
      [] v[1] = "float" -> IF v[3] THEN <<v[2]>> ELSE <<>>
      [] v[1] = "string" -> IF v[2] \in DOMAIN Numeric THEN <<AsDouble(Numeric[v[2]])>> ELSE <<>>
      [] OTHER -> <<>>

Ordered(op, a, b) ==
    CASE op = "gt" -> a > b
      [] op = "gt_eq" -> a >= b
      [] op = "lt" -> a < b
      [] op = "lt_eq" -> a <= b

(* Two integers compare exactly; any other pair through doubles. *)
NumericCompare(attr, lit, op) ==
    IF attr[1] = "int" /\ lit[1] = "int" THEN Ordered(op, attr[2], lit[2])
    ELSE LET a == CoerceF64(attr)
             b == CoerceF64(lit)
         IN a # <<>> /\ b # <<>> /\ Ordered(op, a[1], b[1])

ValuesEq(attr, lit) ==
    \/ attr[1] = lit[1] /\ attr[1] \in {"bool", "int", "string"} /\ attr[2] = lit[2]
    \/ {attr[1], lit[1]} \in {{"float"}, {"int", "float"}} /\ CoerceF64(attr) # <<>>
       /\ CoerceF64(attr) = CoerceF64(lit)

Compared(bag, key, op, lit) ==
    CASE op = "contains" -> lit[1] = "string" /\ SetContains(bag, key, lit[2])
      [] op = "eq" -> ValuesEq(bag[key], lit)
      [] op = "not_eq" -> ~ValuesEq(bag[key], lit)
      [] OTHER -> NumericCompare(bag[key], lit, op)

(* Mutant: an absent attribute differs from every literal. *)
AbsentDiffers(bag, key, op, lit) ==
    IF Has(bag, key) THEN Compared(bag, key, op, lit) ELSE op = "not_eq"

EvalComparison(bag, key, op, lit) == Has(bag, key) /\ Compared(bag, key, op, lit)

-----------------------------------------------------------------------------
(* Conditions and expressions. *)

EvalCondition(cond, bag) ==
    LET key == ResolveKey(bag, cond.key)
    IN CASE cond.c = "is_true" -> key # <<>> /\ GetBool(bag, key[1]) = <<TRUE>>
         [] cond.c = "is_false" -> key = <<>> \/ GetBool(bag, key[1]) # <<TRUE>>
         [] cond.c = "exists" -> key # <<>> /\ Has(bag, key[1])
         [] cond.c = "compare" -> key # <<>> /\ EvalComparison(bag, key[1], cond.op, cond.lit)
         [] cond.c = "in_set" ->
              LET set == ResolveKey(bag, cond.set)
                  in == /\ key # <<>> /\ set # <<>>
                        /\ GetString(bag, key[1]) # <<>>
                        /\ SetContains(bag, set[1], GetString(bag, key[1])[1])
              IN in # cond.negate

RECURSIVE EvalExpression(_, _)
EvalExpression(expr, bag) ==
    CASE expr.x = "cond" -> EvalCondition(expr.cond, bag)
      [] expr.x = "and" -> \A i \in DOMAIN expr.parts : EvalExpression(expr.parts[i], bag)
      [] expr.x = "or" -> \E i \in DOMAIN expr.parts : EvalExpression(expr.parts[i], bag)
      [] expr.x = "not" -> ~EvalExpression(expr.inner, bag)
      [] expr.x = "always" -> TRUE

(* The synchronous rule list: the first deny of a rule that applies; every *)
(* other effect is skipped.                                                *)
EvaluateRules(rules, bag) ==
    LET denies == {i \in DOMAIN rules : /\ EvalExpression(rules[i].condition, bag)
                                        /\ "deny" \in ToSet(rules[i].effects)}
        first == rules[CHOOSE i \in denies : \A j \in denies : i <= j]
    IN IF denies = {} THEN "allow" ELSE IF first.code # <<>> THEN first.code[1] ELSE first.source

-----------------------------------------------------------------------------
(* Field pipelines (evaluate_pipeline). *)

NoTraits == [t \in {} |-> 0]
Text(len, shown, need) == [kind |-> "string", n |-> 0, len |-> len, shown |-> shown, need |-> need]
Redacted == Text(10, 0, NoTraits)
HashedLen == 21

HasTrait(value, t) == value.kind = "string" /\ t \in DOMAIN value.need
Outside(n, min, max) == (min # <<>> /\ n < min[1]) \/ (max # <<>> /\ n > max[1])

TypeCheck(t, value) ==
    CASE t = "str" -> value.kind = "string"
      [] t = "int" -> value.kind = "int"
      [] t = "bool" -> value.kind = "bool"
      [] t = "float" -> value.kind \in {"int", "float"}
      [] t \in {"email", "url", "uuid"} -> HasTrait(value, t)

(* What a validator refuses; mask needs a text, `validate` has no          *)
(* implementation and always refuses.                                      *)
Refuses(stage, value) ==
    CASE stage.op = "type" -> ~TypeCheck(stage.t, value)
      [] stage.op = "length" -> value.kind # "string" \/ Outside(value.len, stage.min, stage.max)
      [] stage.op = "range" -> value.kind # "int" \/ Outside(value.n, stage.min, stage.max)
      [] stage.op = "enum" -> ~\E t \in stage.values : HasTrait(value, t)
      [] stage.op = "regex" -> ~stage.valid \/ ~HasTrait(value, stage.pattern)
      [] stage.op = "mask" -> value.kind # "string"
      [] stage.op = "plugin" -> stage.verdict \in {"deny", "error"}
      [] stage.op = "validate" -> TRUE
      [] OTHER -> FALSE

Mask(value, keep_last) ==
    LET keep == Min2(keep_last, value.len)
        kept == {t \in DOMAIN value.need : value.need[t] <= keep}
    IN Text(value.len, Min2(value.shown, keep), [t \in kept |-> value.need[t]])

(* The value a stage leaves behind: <<>> when it does not replace it. *)
Rewrites(stage, value, bag) ==
    CASE stage.op = "mask" -> <<Mask(value, stage.keep_last)>>
      [] stage.op = "redact" ->
           IF stage.condition = <<>> \/ EvalExpression(stage.condition[1], bag)
           THEN <<Redacted>> ELSE <<>>
      [] stage.op = "hash" -> <<Text(HashedLen, 0, NoTraits)>>
      [] stage.op = "plugin" -> stage.value
      [] stage.op = "scan" /\ stage.kind = "pii_redact" -> <<Redacted>>
      [] OTHER -> <<>>

(* A plugin's labels are kept whatever it decides, unless it failed. *)
Emits(stage) ==
    CASE stage.op = "taint" -> <<stage.label>>
      [] stage.op = "scan" -> <<IF stage.kind = "injection_scan" THEN "injection" ELSE "PII">>
      [] stage.op = "plugin" /\ stage.verdict # "error" -> stage.taints
      [] OTHER -> <<>>

RunStage(run, stage, bag) ==
    IF run.outcome # "run" THEN run
    ELSE LET emitted == [run EXCEPT !.taints = @ \o Emits(stage), !.at = @ + 1]
             new == Rewrites(stage, run.current, bag)
         IN CASE Refuses(stage, run.current) -> [emitted EXCEPT !.outcome = "deny"]
              [] stage.op = "omit" -> [emitted EXCEPT !.outcome = "omit"]
              [] OTHER -> IF new = <<>> THEN emitted
                          ELSE [emitted EXCEPT !.current = new[1], !.replaced = TRUE]

EvaluatePipeline(stages, value, bag) ==
    LET run == FoldLeft(LAMBDA st, stage : RunStage(st, stage, bag),
                        [outcome |-> "run", current |-> value, replaced |-> FALSE,
                         taints |-> <<>>, at |-> 0], stages)
    IN IF run.outcome # "run" THEN run
       ELSE [run EXCEPT !.outcome = IF run.replaced THEN "replace" ELSE "pass"]

=============================================================================
