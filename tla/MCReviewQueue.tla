--------------------------- MODULE MCReviewQueue ---------------------------
(* The deployments of ReviewQueue that are checked. *)
EXTENDS ReviewQueue

CONSTANTS w1, w2, r1, r2, c1, c2

(* Two reviewers at one item, one of which dies; at one that is queued     *)
(* again; two producers of one item, and a reviewer; one of each, with two *)
(* claims; two producers, whose runs the index waits for; a direct run; and*)
(* one in a project that has a ledger.                                     *)
Deploy(ws, rs, cs, times, deaths) ==
    [producers |-> ws, reviewers |-> rs, direct |-> rs = {}, quiet |-> FALSE, project |-> None,
     claims |-> cs, maxWrites |-> times, maxUpdates |-> 0, maxFaults |-> deaths]
Quiet(deployment) == [deployment EXCEPT !.direct = FALSE, !.quiet = TRUE, !.maxUpdates = 1]
MCSetups == {Deploy({w1}, {r1, r2}, {c1}, 1, 1),
             Deploy({w1}, {r1, r2}, {c1}, 2, 0),
             Deploy({w1, w2}, {r1}, {c1}, 1, 1),
             Deploy({w1}, {r1}, {c1, c2}, 1, 1),
             Quiet(Deploy({w1, w2}, {}, {c1}, 1, 2)),
             Deploy({w1}, {}, {c1, c2}, 1, 1),
             [Deploy({w1}, {}, {c1}, 1, 1) EXCEPT !.project = 1]}

=============================================================================
