---------------------------- MODULE MCLogDownload ----------------------------
(***************************************************************************)
(* Instances of LogDownload for TLC: a log that ends in a short chunk and   *)
(* one that fills its last chunk, so that an empty one ends it.             *)
(***************************************************************************)
EXTENDS LogDownload

MCSizeOf == [id \in Log |-> IF id = "one" THEN 3 ELSE 4]
==============================================================================
