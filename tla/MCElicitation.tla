--------------------------- MODULE MCElicitation ---------------------------
(***************************************************************************)
(* Three attempts: at a route that asks two humans, both strictly; at one  *)
(* that tolerates failures; at one whose second step is the first that can *)
(* ask anybody; at one whose steps cannot; and at two routes by turns, so  *)
(* that an approval asked for at one comes back at the other.              *)
(***************************************************************************)
EXTENDS Elicitation

CONSTANTS boss, cfo

Ask(from, lenient, scoped) == [from |-> from, lenient |-> lenient, scoped |-> scoped, planned |-> TRUE]

TwoStrict == <<Ask(boss, FALSE, FALSE), Ask(cfo, FALSE, TRUE)>>
Tolerant == <<Ask(cfo, TRUE, FALSE)>>
Late == <<Ask("empty", TRUE, FALSE), Ask(boss, FALSE, FALSE)>>
Nobody == <<Ask("unresolved", TRUE, FALSE), Ask("empty", TRUE, FALSE),
            [Ask(boss, FALSE, TRUE) EXCEPT !.planned = FALSE]>>

MCCalls == {<<TwoStrict, TwoStrict, TwoStrict>>, <<Nobody, Nobody, Nobody>>,
            <<Tolerant, Tolerant, TwoStrict>>, <<Late, TwoStrict, Late>>}
=============================================================================
