------------------------------- MODULE MCMusig -------------------------------
(* MusigSessions with three transactions and two slots: a third session must *)
(* evict one, and a restarted round 1 must find a stored session.            *)
EXTENDS MusigSessions
=============================================================================
