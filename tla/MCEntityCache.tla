--------------------------- MODULE MCEntityCache ---------------------------
(* Instances of EntityCache for model checking. *)
EXTENDS EntityCache, TLC

CONSTANTS r1, r2, own, own2, other

HomeOf == [k \in Keys |-> 1]

\* Three workloads: the cache at work with one session of the listener; the
\* listener with its reconnects and stop() while little else goes on; and more
\* keys than slots, without a listener.
VARIABLE workload

mcvars == <<vars, workload>>

MCInit == Init /\ workload \in {"cache", "listener", "crowded"}

OneOwnKey == issued'[own2] = 1 /\ \A r \in Readers : key'[r] # own2

MCNext ==
    /\ Next /\ UNCHANGED workload
    /\ workload = "cache" => sessions' <= 1 /\ spc' = "idle" /\ OneOwnKey
    /\ workload = "listener" => calls' <= 2 /\ OneOwnKey
    /\ workload = "crowded" => npc' = "off"

Sym == Permutations(Readers)

MCSpec == MCInit /\ [][MCNext]_mcvars
=============================================================================
