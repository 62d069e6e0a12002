------------------------------ MODULE MCCodec ------------------------------
(* Small instances of FrameCodec for TLC. *)
EXTENDS FrameCodec

CONSTANTS MaxLength  \* bound: characters in a text of the application's dictionary

MCConnections == [version : {"1.0", "1.1", "1.2"}, auto : BOOLEAN]
                   \cup {[version |-> "multicast", auto |-> TRUE]}
Chars == {Backslash, "n", ":", "LF", "CR"}
Texts == UNION {[1..n -> Chars] : n \in 0..MaxLength}
MCArguments == {<<"a">>, <<"a", ":", Backslash>>, <<"LF", "CR">>}
MCBodies == {<<>>, <<"wide", "LF", "LF", "NUL">>}
\* a header of its own, or one that an argument or convert_frame replaces
MCOwn == {<<>>, "x" :> <<>>, "content-length" :> <<<<"9">>>>, "destination" :> <<<<"b">>>>}
           \cup {"x" :> <<t>> : t \in Texts}
           \cup {"x" :> <<t, u>> : t, u \in {<<"n">>, <<Backslash, "a">>, <<":">>}}
=============================================================================
