--------------------------- MODULE MCSpawnPipeline ---------------------------
(* Instances of SpawnPipeline for TLC. *)
EXTENDS SpawnPipeline

\* Nothing, one or every launcher installed, and kernels that permit no
\* namespace, all but the network, or all.
AnyHost == [installed : {{}, {"bubblewrap"}, {"unshare"}, {"firejail"}, Launchers},
            permits : {{}, Namespaces \ {"net"}, Namespaces}]

\* A host on which every probe passes and every launcher may do its work.
CapableHost == [installed : {Launchers}, permits : {Namespaces}]
=============================================================================
