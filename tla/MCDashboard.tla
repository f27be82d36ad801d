----------------------------- MODULE MCDashboard -----------------------------
(***************************************************************************)
(* TLC instance of Dashboard: one page whose browser sends credentials     *)
(* with a handshake, and one that depends on its ticket.                   *)
(***************************************************************************)
EXTENDS Dashboard

CONSTANTS p1, p2, r1

MCPages == {p1, p2}
MCBare == {p1}
MCRequests == {r1}
==============================================================================
