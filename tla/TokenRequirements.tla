--------------------------- MODULE TokenRequirements ---------------------------
(***************************************************************************)
(* What the token of a node owes to those who call the node, apart from    *)
(* how AgentTokens keeps it.                                               *)
(***************************************************************************)

VARIABLE call   \* an operation that wants the token: its step, what it has, what was replaced before it

\* No call goes out with a token that had been replaced before the call began,
\* at whichever replica it was rotated (RPCToken, internal/service/agent.go).
NoReplacedToken == call.step = "use" => call.tok \notin call.since

=============================================================================
