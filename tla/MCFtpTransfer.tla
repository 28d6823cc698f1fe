---------------------------- MODULE MCFtpTransfer ----------------------------
(* Instances of FtpTransfer: a log that declares its exact size, a virtual  *)
(* file that declares none, a file that declares more than it has, and one  *)
(* that is larger than the client accepts.                                  *)
EXTENDS FtpTransfer

CONSTANT LogLength      \* chunks of the log

MCLength == [f \in Files |-> CASE f = "log" -> LogLength [] f = "huge" -> MaxSize + 1
                               [] OTHER -> 1]
MCDeclared == [f \in Files |-> CASE f = "sys" -> 0 [] f = "over" -> 2 [] OTHER -> MCLength[f]]
=============================================================================
