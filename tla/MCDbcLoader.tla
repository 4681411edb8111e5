---------------------------- MODULE MCDbcLoader ----------------------------
(***************************************************************************)
(* Files of up to two entries in each list over an object of every type, a *)
(* second signal of the same name in another message, and an object that   *)
(* no statement declares.                                                  *)
(***************************************************************************)
EXTENDS DbcLoader

Net  == << "network" >>
N1   == << "node", "n" >>
M1   == << "message", 1 >>
S1   == << "signal", 1, "a" >>
S2   == << "signal", 2, "a" >>
E1   == << "env", "e" >>
McOwners == {Net, N1, M1, S1, S2, E1}

Lists(owners) ==
    LET E == [ owner : owners ]
    IN  {<< >>} \cup { << a >> : a \in E } \cup { << a, b >> : a, b \in E }

McAsts == [ declared           : { McOwners, McOwners \ {S1, E1} },
            attribute_values   : Lists({M1, S1, S2, N1}),
            value_descriptions : Lists({S1, S2, E1}),
            comments           : Lists({Net, M1, S1, E1}) ]
=============================================================================
