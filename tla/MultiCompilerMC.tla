-------------------------- MODULE MultiCompilerMC --------------------------
(* Instances of MultiCompiler for TLC. *)
EXTENDS MultiCompiler

\* 2 depends on 1, and 3 on 2.
MCChain == <<{}, {1}, {2}>>

\* 2 depends on 1.
MCPair == <<{}, {1}>>

=============================================================================
