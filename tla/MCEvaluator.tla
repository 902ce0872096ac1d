---------------------------- MODULE MCEvaluator ----------------------------
(***************************************************************************)
(* Routes for model checking the evaluator. SmallPrograms is every route   *)
(* of SmallSize effects over the kinds in Kinds: all nestings, all orders  *)
(* and both sections. Blocks holds larger routes around parallel blocks,   *)
(* of NumEffects effects.                                                  *)
(***************************************************************************)
EXTENDS Evaluator

CONSTANTS Kinds, Key1, SmallSize

Compound == {"sequential", "parallel", "when", "pdp"}

Select(Test(_)) == SelectSeq([n \in Effect |-> n], Test)

\* The route whose effect n sits under up[n] (0: at the top level), in the
\* on_deny list if n is in denied; the top-level effects of post are the
\* post_policy section. All strict, or all lenient.
Route(op, up, denied, post, key, lenient) ==
    [op |-> op,
     body |-> [n \in Effect |-> LET In(m) == up[m] = n /\ m \notin denied IN Select(In)],
     on_deny |-> [n \in Effect |-> LET In(m) == up[m] = n /\ m \in denied IN Select(In)],
     key |-> [n \in Effect |-> key],
     field |-> [n \in Effect |-> IF n % 2 = 1 THEN CHOOSE f \in ArgsField : TRUE
                                              ELSE CHOOSE f \in ResultField : TRUE],
     lenient |-> IF lenient THEN Effect ELSE {},
     args |-> << >>,
     policy |-> LET In(m) == up[m] = 0 /\ m \notin post IN Select(In),
     result |-> << >>,
     post_policy |-> LET In(m) == up[m] = 0 /\ m \in post IN Select(In)]

Small == 1 .. SmallSize

\* A small route as a table of NumEffects effects: the others sit nowhere.
Padded(f, filler) == [n \in Effect |-> IF n \in Small THEN f[n] ELSE filler]

SmallPrograms ==
    LET Shapes == {s \in [Small -> 0 .. SmallSize - 1] : \A n \in Small : s[n] < n}
        Fits(op, up) == /\ \A n \in Small : up[n] # 0 => op[up[n]] \in Compound
                        /\ \A n \in Small : op[n] \in Compound => \E m \in Small : up[m] = n
    IN  UNION {
          {Route(Padded(op, "allow"), Padded(up, NumEffects + 1), denied, post, key, lenient) :
             denied \in SUBSET {n \in Small : up[n] # 0 /\ op[up[n]] = "pdp"},
             post \in {{}, {n \in Small : up[n] = 0 /\ n > 1}},
             key \in IF "when" \in Range(op) THEN {Key1, Granted} ELSE {Key1},
             lenient \in IF Range(op) \cap {"delegate", "elicit"} # {} THEN BOOLEAN ELSE {FALSE}}
          : <<op, up>> \in {x \in [Small -> Kinds] \X Shapes : Fits(x[1], x[2])}}

\* parallel: [ pdp { on_deny: [plugin] }, sequential: [plugin, taint] ], plugin
PdpInBranch ==
    Route(<<"parallel", "pdp", "plugin", "sequential", "plugin", "taint", "plugin">>,
          <<0, 1, 2, 1, 4, 4, 0>>, {3}, {}, Key1, FALSE)

\* parallel: [ parallel: [plugin, restrict], when k: [plugin] ], restrict
Nested ==
    Route(<<"parallel", "parallel", "plugin", "restrict", "when", "plugin", "restrict">>,
          <<0, 1, 2, 2, 1, 5, 0>>, {}, {}, Key1, FALSE)

\* args: a field rule; policy: delegate, when granted: [elicit, field op];
\* result: a field rule; post_policy: pdp
Sections ==
    [Route(<<"field", "delegate", "when", "elicit", "field", "field", "pdp">>,
           <<0, 0, 0, 3, 3, 0, 0>>, {}, {6, 7}, Granted, TRUE)
        EXCEPT !.args = <<1>>, !.policy = <<2, 3>>, !.result = <<6>>, !.post_policy = <<7>>]

\* delegate, delegate (both on_error: continue), when granted: [...]
TwoDelegates ==
    Route(<<"delegate", "delegate", "when", "plugin", "elicit", "allow", "deny">>,
          <<0, 0, 0, 3, 3, 0, 6>>, {}, {6}, Granted, TRUE)

Blocks == {PdpInBranch, Nested, Sections, TwoDelegates}

Routes == SmallPrograms \cup Blocks
=============================================================================
