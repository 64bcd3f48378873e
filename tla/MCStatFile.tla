----------------------------- MODULE MCStatFile -----------------------------
(***************************************************************************)
(* Small instances of StatFile for TLC.                                    *)
(***************************************************************************)
EXTENDS StatFile

\* failid before or after the test it reports on
FailidFirst == <<"failid", "exits">>
Badblocks == <<"forgets", "failid">>
=============================================================================
