---------------------------- MODULE MCAesdSocket ----------------------------
(* Two connections of one or two chunks, in the build for the data file    *)
(* and the build for the device.                                           *)
EXTENDS AesdSocketProperties, TLC

CONSTANTS c1, c2

TwoConns == {c1, c2}

TextAndLines == {"text", "line"}
LinesOnly    == {"line"}

Never     == {}
WriteOnly == {"write"}
AnyCall   == {"daemonize", "socket", "bind", "listen", "create", "open",
              "malloc", "write", "read"}

AtAccept == {"accept"}
Anywhere == MainPlaces
NotAtInsert == MainPlaces \ {"insert"}

Symmetric == Permutations(Conn)
=============================================================================
