--------------------------- MODULE MCPersistence ---------------------------
(* Small instances of Persistence: names with a file each, and two names   *)
(* that filenamify and the replacement of dots map to one.                 *)
EXTENDS Persistence

CONSTANTS a, b

OwnFiles == [x \in Boards |-> x]
OneFile  == [x \in Boards |-> a]
=============================================================================
