--------------------------- MODULE MCAnswerServer ---------------------------
(* An instance of AnswerServer for TLC: an empty database, the expected tables *)
(* and the expected tables with one more.                                    *)
EXTENDS AnswerServer, TLC

SchemaVersions == [d \in {"empty", "demo", "demo+1"} |->
                     CASE d = "empty" -> "0:orders" [] d = "demo" -> "12:" [] OTHER -> "13:"]
=============================================================================
