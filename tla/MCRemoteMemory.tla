--------------------------- MODULE MCRemoteMemory ---------------------------
(* Two connections; strings of one and two bytes so that the vector is       *)
(* filled exactly by some of them; addresses of two hexadecimal digits.      *)
EXTENDS RemoteMemory, TLC

MCStrings == {<<97>>, <<98, 99>>}
MCBlocks == {<<255, 10>>}
MCReadSizes == {2}
MCHacked == <<104>>

MCFeatureLists ==
    {<<Feature(<<115>>, nullopt, TRUE), Feature(<<120>>, <<<<105, 43, 54>>>>, TRUE),
       Feature(<<116>>, nullopt, FALSE)>>}

Symmetry == Permutations(Conns)

\* m10 | m,1 | m10,  | mx,1 | m10,fff | M10,1 | M,1:00 | M10,1:0 | q | qSupported
\* | QSupported:s+ | qSupported:x
MCMalformed ==
    {<<109, 49, 48>>, <<109, 44, 49>>, <<109, 49, 48, 44>>, <<109, 120, 44, 49>>,
     <<109, 49, 48, 44, 102, 102, 102>>, <<77, 49, 48, 44, 49>>,
     <<77, 44, 49, 58, 48, 48>>, <<77, 49, 48, 44, 49, 58, 48>>,
     <<113>>, <<113>> \o Supported, <<81>> \o Supported \o <<58, 115, 43>>,
     <<113>> \o Supported \o <<58, 120>>}

\* Below the memory, in it, over its end, and so long that the end wraps.
MCUserReads == {[addr |-> 15, len |-> 1], [addr |-> 16, len |-> 2],
                [addr |-> 18, len |-> 200], [addr |-> 17, len |-> 255]}
=============================================================================
