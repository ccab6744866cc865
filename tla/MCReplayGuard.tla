--------------------------- MODULE MCReplayGuard ---------------------------
(***************************************************************************)
(* Instances of ReplayGuard for TLC.                                       *)
(***************************************************************************)
EXTENDS ReplayGuard, TLC

CONSTANTS s1, s2

Request(sig, header, body, valid) ==
    [sig |-> sig, header |-> header, body |-> body, valid |-> valid]

\* One request that is stamped ahead of the clock, its signature with another body,
\* and one without a signature.
MCRequests == {Request(s1, 2, 2, TRUE), Request(s1, 1, 1, FALSE),
               Request(Unsigned, 1, 1, FALSE)}

\* The drift may be lowered, and the bypass switched on.
MCConfigs == {[drift |-> 1, bypass |-> FALSE], [drift |-> 2, bypass |-> TRUE]}

\* For the disagreement: body and header agree and nothing is reconfigured.
MCOneRequest == {Request(s1, 1, 1, TRUE)}
MCOneConfig == {[drift |-> 1, bypass |-> FALSE]}

Symmetry == Permutations(Deliveries)

=============================================================================
