----------------------------- MODULE MCTtyLine ------------------------------
(* Rings of two characters, so that a short line fills them and the input   *)
(* wraps around, and three settings of the terminal.                        *)
EXTENDS TtyLine

MCTermios == {DefaultFlags, {"ISIG"}, {"ICRNL", "INLCR", "ICANON"}}
MCTexts == {<<"x">>, <<NL, NL>>}
=============================================================================
