------------------------------ MODULE MCWriter ------------------------------
(* The gateway with two kinds of load: more sequencers, or more faults.    *)
EXTENDS ProofGateway

VARIABLE
    load    \* how many sequencers take part, and how many faults happen

Loads == {[sequencers |-> 2, faults |-> 1], [sequencers |-> 1, faults |-> 2]}

\* A sequencer takes part once it holds a reservation; ids are in order.
WithinLoad ==
    /\ faults <= load.faults
    /\ \A o \in Owners : token[o] # 0 => o <= load.sequencers

LoadInit == Init /\ load \in Loads

LoadNext == Next /\ UNCHANGED load /\ WithinLoad'

LoadSpec == LoadInit /\ [][LoadNext]_<<vars, load>>

=============================================================================
