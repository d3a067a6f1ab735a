----------------------------- MODULE MCServing -----------------------------
(***************************************************************************)
(* Serving with three processes of one host and one of another.  Each      *)
(* scenario leaves one question open: the pid file, a restart after a      *)
(* crash, the overlap after a lost connection, the credentials, two hosts. *)
(***************************************************************************)
EXTENDS Serving, TLC

CONSTANTS d1, d2, d3, d4, h1, h2

MCHost == (d1 :> h1) @@ (d2 :> h1) @@ (d3 :> h2) @@ (d4 :> h1)

Scenario(starts, crashes, losses, errors, ops, stops, calls) ==
    [starts |-> starts, crashes |-> crashes, losses |-> losses, errors |-> errors,
     ops |-> ops, stops |-> stops, calls |-> calls]

MCScenarios ==
    { Scenario({d1, d2}, 1, 0, 1, 0, 0, 0),
      Scenario({d1, d2}, 1, 0, 0, 0, 1, 0),
      Scenario({d1, d2}, 0, 1, 0, 0, 0, 1),
      Scenario({d1, d2}, 0, 1, 1, 0, 0, 0),
      Scenario({d1, d3}, 1, 1, 0, 0, 1, 0),
      Scenario({d1, d2}, 0, 0, 0, 3, 0, 0),
      Scenario({d1, d2}, 0, 0, 0, 2, 1, 0),
      Scenario({d1, d2}, 0, 0, 0, 1, 1, 1),
      Scenario({d1}, 0, 0, 0, 2, 1, 1),
      Scenario({d1, d2, d4}, 0, 0, 0, 0, 0, 0),
      Scenario({d1, d3}, 1, 0, 1, 1, 0, 0) }

=============================================================================
