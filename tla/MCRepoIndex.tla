---------------------------- MODULE MCRepoIndex ----------------------------
(***************************************************************************)
(* Two files: a push removes one, or removes and adds the other, in either *)
(* order.                                                                  *)
(***************************************************************************)
EXTENDS RepoIndex

CONSTANTS f, g

MCJobs == 1..3

MCLists == {[reembed |-> {}, removed |-> {g}], [reembed |-> {f}, removed |-> {f}]}
=============================================================================
