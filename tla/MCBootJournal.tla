---------------------------- MODULE MCBootJournal ----------------------------
(***************************************************************************)
(* A journal of two sectors of two cells, with a sequence ring as small as *)
(* the journal's assumption allows, so that the counter wraps.             *)
(***************************************************************************)
EXTENDS BootJournal, TLC

CONSTANTS GoodBody, BadBody

MCBodies == {GoodBody, BadBody}
MCValidBodies == {GoodBody}
=============================================================================
