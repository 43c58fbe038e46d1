--------------------------- MODULE MCGitHubClient ---------------------------
(* Callers of two repositories of one installation.                        *)
EXTENDS GitHubClient

CONSTANTS c1, c2, c3, r1, r2

MCRepoOf == [c \in Callers |-> IF c = c1 THEN r1 ELSE r2]
MCDeps == {"github"}
=============================================================================
