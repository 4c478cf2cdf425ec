---------------------------- MODULE MCFileWrite ----------------------------
(* An instance of FileWrite for TLC: strings of up to three bytes, more than *)
(* the buffer holds, with lines and NULs in them.                            *)
EXTENDS FileWrite

String(s) == [kind |-> "string", bytes |-> s]
MCArgs == {String(<<>>), String(<<"x">>), String(<<"x", NL>>), String(<<NUL, "x", "y">>),
           [kind |-> "number", bytes |-> <<"1">>], [kind |-> "bad", bytes |-> <<>>]}

=============================================================================
