------------------------------ MODULE DbcLoader ------------------------------
(***************************************************************************)
(* DBCAST2Network: three loops collect the attribute values, the value     *)
(* descriptions and the comments of a parsed file into caches keyed by     *)
(* their owner; the network is then assembled by looking every declared    *)
(* object up in them.                                                      *)
(*                                                                         *)
(* The caches hold pointers into the parsed file: a pointer is the index   *)
(* of its entry, nullptr is 0. An AttributeList is appended to in the      *)
(* order of the file, so it is the set of its indices. An owner that the   *)
(* nested unordered_maps have no entry for has an empty one here.          *)
(***************************************************************************)
EXTENDS DbcAst

CONSTANTS
    Owners,    \* every object a statement may name
    Asts       \* the parsed files

(* A parsed file: the objects it declares and the three lists of entries. *)
Entry == [ owner : Owners ]
Ast   == [ declared           : SUBSET Owners,
           attribute_values   : Seq(Entry),
           value_descriptions : Seq(Entry),
           comments           : Seq(Entry) ]

ASSUME AstsAssumption == Asts \subseteq Ast

VARIABLES
    gnet,          \* the parsed file, never written
    pc,            \* the loop that is running
    next,          \* the index of the entry its next iteration handles
    attributes,    \* Cache: the Attributes of every owner
    description,   \* Cache: the Description_ of every owner
    comment,       \* Cache: the Comment of every owner
    network        \* what the assembled objects were given

vars == << gnet, pc, next, attributes, description, comment, network >>

Unassembled == [ o \in {} |-> 0 ]

Init ==
    /\ gnet \in Asts
    /\ pc = "attribute_values"
    /\ next = 1
    /\ attributes  = [o \in Owners |-> {}]
    /\ description = [o \in Owners |-> 0]
    /\ comment     = [o \in Owners |-> 0]
    /\ network = Unassembled

-----------------------------------------------------------------------------
(* One iteration of the first loop. *)
CacheAttribute ==
    LET o == gnet.attribute_values[next].owner
    IN  /\ pc = "attribute_values"
        /\ next <= Len(gnet.attribute_values)
        /\ attributes' = [attributes EXCEPT ![o] = @ \cup {next}]
        /\ next' = next + 1
        /\ UNCHANGED << gnet, pc, description, comment, network >>

(* One iteration of the second loop: VAL_ names signals and variables only. *)
CacheDescription ==
    LET o == gnet.value_descriptions[next].owner
    IN  /\ pc = "value_descriptions"
        /\ next <= Len(gnet.value_descriptions)
        /\ description' = [description EXCEPT ![o] = next]
        /\ next' = next + 1
        /\ UNCHANGED << gnet, pc, attributes, comment, network >>

(* Mutant: a comment is kept once it is set, as find and emplace keep the   *)
(* element they meet.                                                       *)
CacheComment_FirstWins ==
    LET o == gnet.comments[next].owner
    IN  /\ pc = "comments"
        /\ next <= Len(gnet.comments)
        /\ comment' = [comment EXCEPT ![o] = IF @ = 0 THEN next ELSE @]
        /\ next' = next + 1
        /\ UNCHANGED << gnet, pc, attributes, description, network >>

(* One iteration of the third loop. *)
CacheComment ==
    LET o == gnet.comments[next].owner
    IN  /\ pc = "comments"
        /\ next <= Len(gnet.comments)
        /\ comment' = [comment EXCEPT ![o] = next]
        /\ next' = next + 1
        /\ UNCHANGED << gnet, pc, attributes, description, network >>

(* Mutant: the next list is indexed from 0. *)
NextLoop_ZeroBased ==
    /\ \/ /\ pc = "attribute_values"
          /\ next > Len(gnet.attribute_values)
          /\ pc' = "value_descriptions"
       \/ /\ pc = "value_descriptions"
          /\ next > Len(gnet.value_descriptions)
          /\ pc' = "comments"
    /\ next' = 0
    /\ UNCHANGED << gnet, attributes, description, comment, network >>

(* The end of the first and of the second loop. *)
NextLoop ==
    /\ \/ /\ pc = "attribute_values"
          /\ next > Len(gnet.attribute_values)
          /\ pc' = "value_descriptions"
       \/ /\ pc = "value_descriptions"
          /\ next > Len(gnet.value_descriptions)
          /\ pc' = "comments"
    /\ next' = 1
    /\ UNCHANGED << gnet, attributes, description, comment, network >>

(* getNodes, getMessages, getEnvironmentVariables and the network's own     *)
(* getAttributeValues and getComment: every declared object is looked up.   *)
Assemble ==
    /\ pc = "comments"
    /\ next > Len(gnet.comments)
    /\ network' = [o \in gnet.declared |->
                     [ attributes  |-> attributes[o],
                       description |-> description[o],
                       comment     |-> comment[o] ] ]
    /\ pc' = "done"
    /\ UNCHANGED << gnet, next, attributes, description, comment >>

Next ==
    \/ CacheAttribute
    \/ CacheDescription
    \/ CacheComment
    \/ NextLoop
    \/ Assemble

Spec == Init /\ [][Next]_vars

-----------------------------------------------------------------------------
(* Every variable has its type. *)
TypeOK ==
    /\ gnet \in Asts
    /\ pc \in {"attribute_values", "value_descriptions", "comments", "done"}
    /\ next \in Nat \ {0}
    /\ attributes  \in [Owners -> SUBSET Nat]
    /\ description \in [Owners -> Nat]
    /\ comment     \in [Owners -> Nat]
    /\ network = Unassembled \/ pc = "done"

(* DBCAST2Network: the assembled network is the one a scan of the file for  *)
(* every object gives. An object gets the attribute values that name it,    *)
(* all of them and no others; the last description and the last comment     *)
(* that name it, whatever lies between; an entry naming an undeclared       *)
(* object is dropped.                                                       *)
NetworkIsOwnerScan ==
    pc = "done" =>
        network = [o \in gnet.declared |->
                     [ attributes  |-> Naming(gnet.attribute_values, o),
                       description |-> LastNaming(gnet.value_descriptions, o),
                       comment     |-> LastNaming(gnet.comments, o) ] ]
=============================================================================
