------------------------------- MODULE DbcAst -------------------------------
(***************************************************************************)
(* What the DBC parser hands to DBCAST2Network. The statements that say    *)
(* something of an object declared elsewhere in the file (BA_, VAL_, CM_,  *)
(* ...) name that object; here a statement has an owner, which is          *)
(*     <<"network">>               the file itself                         *)
(*     <<"node", name>>            BU_ name                                *)
(*     <<"message", id>>           BO_ id                                  *)
(*     <<"signal", id, name>>      SG_ id name                             *)
(*     <<"env", name>>             EV_ name                                *)
(* and a value, which the loader copies without looking into it.           *)
(***************************************************************************)
EXTENDS Integers, Sequences

(* The objects of a variant's alternative: what av.which() tells apart. *)
ObjectType(owner) == owner[1]

(* The index of the last entry of the list that names o, 0 if none does;    *)
(* the indices of all of them. These are the reference the loader's caches  *)
(* are compared with: one scan of the list for each object.                 *)
Naming(entries, o)     == { i \in DOMAIN entries : entries[i].owner = o }
LastNaming(entries, o) ==
    IF Naming(entries, o) = {} THEN 0
    ELSE CHOOSE i \in Naming(entries, o) :
            \A j \in Naming(entries, o) : j <= i
=============================================================================
