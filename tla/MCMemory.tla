------------------------------ MODULE MCMemory -------------------------------
(***************************************************************************)
(* An instance for TLC of the two modules about the data of one context:   *)
(* Memory, and Words on all words of a small width.  They share no state,  *)
(* so a behaviour is one of either.                                        *)
(***************************************************************************)
EXTENDS Memory, Words

Bits == {0, 1}

AllWords == [0 .. 1 -> Bits]

SomeSources == {<<>>, <<1>>, <<0, 1>>, <<1, 1, 0>>}

NoStack == <<>>

MCInit ==
    /\ MemInit
    /\ \/ Init
       \/ s = NoStack /\ op = "none"

MCNext ==
    \/ s = NoStack /\ MemNext /\ UNCHANGED wvars
    \/ s # NoStack /\ Next /\ UNCHANGED mvars

MCSpec == MCInit /\ [][MCNext]_<<mvars, wvars>>
=============================================================================
