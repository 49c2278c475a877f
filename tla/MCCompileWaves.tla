--------------------------- MODULE MCCompileWaves ---------------------------
(* Every sequence of at most MaxFacts import facts among the modules. *)
EXTENDS CompileWaves

CONSTANTS MaxFacts

MCModules == 0 .. ModuleCount - 1
MCEdge == {e \in [provider : MCModules, consumer : MCModules] :
              e.provider # e.consumer}
MCObservations == UNION {[1 .. n -> MCEdge] : n \in 0 .. MaxFacts}
=============================================================================
