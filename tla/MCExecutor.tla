----------------------------- MODULE MCExecutor -----------------------------
(***************************************************************************)
(* Instances of Executor: the whole pipeline of one request, with plugins  *)
(* of different capabilities that edit the extensions, and two requests    *)
(* that share breakers and leave the extensions alone.                     *)
(***************************************************************************)
EXTENDS Executor

CONSTANTS v1, v2, l1, l2, h1, g1, g2, d1, d2, t1, t2, admin

NoExtensions ==
    [request |-> v1, agent |-> None, http |-> None, security |-> None,
     candidate_constraint |-> None, delegation |-> None, raw_credentials |-> None,
     custom |-> None]

BlankHost == {NoExtensions}
NoProposals(p, view) == {}

-----------------------------------------------------------------------------
(* One plugin of every phase, two in the concurrent one, registered in an  *)
(* order that is not the order of the phases.  Of the two that may edit    *)
(* the extensions, the sequential one reads the inbound credentials only   *)
(* and may write all but the routing constraint, the transform one reads   *)
(* both kinds of credentials and may write nothing.                        *)
AllModes == <<"FireAndForget", "Concurrent", "Sequential", "Transform", "Audit", "Concurrent">>
AllOnError == <<"Disable", "Fail", "Ignore", "Fail", "Disable", "Disable">>
AllCaps ==
    [p \in Plugin |->
        CASE p = 3 -> {"read_headers", "write_headers", "read_labels", "append_labels",
                       "read_delegation", "append_delegation", "read_inbound_credentials"}
          [] p = 4 -> {"read_subject", "read_delegation", "read_inbound_credentials",
                       "read_delegated_tokens"}
          [] OTHER -> {}]

Hop1 == [grant |-> g1, detail |-> d1]
Hop2 == [grant |-> g2, detail |-> d2]

Host ==
    {[request |-> v1, agent |-> None,
      http |-> [line |-> v1, headers |-> {}],
      security |-> [labels |-> {l1}, subject |-> [id |-> v1, roles |-> {admin}]],
      candidate_constraint |-> v1,
      delegation |-> [chain |-> <<Hop1>>, depth |-> 1, origin |-> v1],
      raw_credentials |-> [inbound |-> {t1}, delegated |-> {t2}],
      custom |-> None]}

(* A handler may return anything its types allow; here it edits one slot   *)
(* of what it was shown: a forged immutable slot, headers under another    *)
(* request line, labels added or dropped with the subject, a cleared       *)
(* constraint, a longer, shortened or rewritten chain, a minted token.     *)
Edits(p, view) ==
    {view, [view EXCEPT !.agent = v2],
     [view EXCEPT !.http = [line |-> v2, headers |-> {h1}]],
     [view EXCEPT !.candidate_constraint = None],
     [view EXCEPT !.raw_credentials =
        [inbound |-> IF @ = None THEN {} ELSE @.inbound, delegated |-> {t1, t2}]]}
      \cup {[view EXCEPT !.security = [labels |-> ls, subject |-> None]] : ls \in SUBSET {l1, l2}}
      \cup {[view EXCEPT !.delegation = [chain |-> c, depth |-> 9, origin |-> v2]] :
               c \in {<<>>, <<Hop2>>, <<[Hop1 EXCEPT !.detail = d2]>>, <<Hop1, Hop2>>}}

-----------------------------------------------------------------------------
(* Two requests over a sequential, an audit and a concurrent plugin that   *)
(* are disabled by a failure.                                              *)
SharedModes == <<"Sequential", "Audit", "Concurrent">>
SharedOnError == <<"Disable", "Disable", "Disable">>

NoCaps == [p \in Plugin |-> {}]
=============================================================================
