------------------------------ MODULE MCRCPack ------------------------------
(* An instance of RCPack for TLC. The base "../f" makes a directory of the    *)
(* name that another entry gives a file, in both orders; adding an entry      *)
(* twice gives two files the same path.                                       *)
EXTENDS RCPack

MCNames == {"f", "d", "e", "g", ".."}
MCBases == {<<>>, <<"..", "f">>}
MCEntryPaths == {<<>>, <<"f">>}
MCSources == {<<"f">>, <<"d", "f">>, <<"d", "e", "g">>}
MCDots == {".", ".."}
MCSizes == {0, 2}
MCGone == -1

=============================================================================
