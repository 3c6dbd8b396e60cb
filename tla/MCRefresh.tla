------------------------------ MODULE MCRefresh ------------------------------
(* A small instance of Refresh: three tabs, a host that starts without     *)
(* runners and changes once.                                               *)
EXTENDS Refresh

CONSTANTS runners, logs, dr

MCTabs == {runners, logs, dr}
MCPopulated == {2}

=============================================================================
