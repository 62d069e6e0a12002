---------------------------- MODULE MCFrameReader ----------------------------
(* Small instances of FrameReader for TLC. *)
EXTENDS FrameReader

CONSTANT MaxItems  \* bound: items on a connection

\* bodies a frame can carry only with a content-length, and bodies it may carry without
Binary == {<<NUL>>, <<Byte, NUL, LF>>, <<NUL, LF, LF>>}
Text   == {<<>>, <<LF, LF>>, <<Byte>>}
MCItems == {Heartbeat(FALSE), Item(TRUE, <<Byte>>, TRUE, FALSE, 1)}
             \cup {Item(TRUE, body, TRUE, FALSE, n) : body \in Binary, n \in {0, 2}}
             \cup {Item(TRUE, body, FALSE, FALSE, n) : body \in Text, n \in 0..1}
             \cup {Item(TRUE, <<NUL, LF>>, TRUE, TRUE, 2), Item(TRUE, <<CR, LF>>, FALSE, TRUE, 1)}
MCStreams == UNION {[1..n -> MCItems] : n \in 0..MaxItems}
=============================================================================
