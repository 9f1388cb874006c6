--------------------------- MODULE MCHttpSessions ---------------------------
(* An instance of HttpSessions: two programs with the same public key. *)
EXTENDS HttpSessions

MCKeyOf == [p \in Programs |-> "k"]
MCCommands == [p \in Programs |->
                  CASE p = "p" -> {"transaction", "session"}
                    [] OTHER -> {"transaction", "query", "files"}]
=============================================================================
