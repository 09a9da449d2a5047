----------------------------- MODULE MCAgentLoop -----------------------------
(* Small instances of AgentLoop for TLC: a tool that reads, one that        *)
(* changes the world and one that does not exist, all the model comes up    *)
(* with.                                                                    *)
EXTENDS AgentLoop

MCNames == {"fetch_jenkins_logs", "create_github_pr", "no_such_tool"}
MCOneName == {"create_github_pr"}
=============================================================================
