--------------------------- MODULE MCRunLifecycle ---------------------------
(* One run, a restart of it, and any number of stops, pauses and resumes. *)
EXTENDS RunLifecycle

CONSTANTS r1, r2
=============================================================================
