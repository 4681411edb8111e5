----------------------------- MODULE ObjectTrees -----------------------------
(***************************************************************************)
(* What the functions that create, release, copy and merge objects promise *)
(* their caller: there are only the trees he holds, each object in exactly *)
(* one of them, and nothing in a tree changes except that a network takes  *)
(* the lists of another in.                                                *)
(***************************************************************************)
EXTENDS Sequences

(* A tree: [id, kind, inline, lists], lists[l] being a sequence of trees. *)
VARIABLE trees

SeqRange(s)  == { s[i] : i \in DOMAIN s }
Children(t)  == UNION { SeqRange(t.lists[l]) : l \in DOMAIN t.lists }
(* Members held by value are trees without lists of their own. *)
Members(t)   == Children(t) \cup t.inline

Init == trees = {}

(* A new object takes trees of the caller's into its lists and members. *)
Make == \E t \in trees' \ trees :
           /\ Members(t) \subseteq trees
           /\ trees' = (trees \ Members(t)) \cup {t}

Release == \E t \in trees : trees' = trees \ {t}

(* Equal but for the numbers of the objects, three levels down. *)
Alike0(t, u) == t.kind = u.kind /\ DOMAIN t.lists = DOMAIN u.lists
AlikeBy(Sub(_, _), t, u) ==
    /\ Alike0(t, u)
    /\ \A l \in DOMAIN t.lists :
         /\ DOMAIN t.lists[l] = DOMAIN u.lists[l]
         /\ \A i \in DOMAIN t.lists[l] : Sub(t.lists[l][i], u.lists[l][i])
    /\ { m.kind : m \in t.inline } = { m.kind : m \in u.inline }
Alike1(t, u) == AlikeBy(Alike0, t, u)
Alike2(t, u) == AlikeBy(Alike1, t, u)
Alike3(t, u) == AlikeBy(Alike2, t, u)

Duplicate == \E t \in trees, u \in trees' \ trees :
                /\ Alike3(t, u)
                /\ trees' = trees \cup {u}

(* A network with the lists of another behind its own. *)
Absorbed(t, u) == [ t EXCEPT !.lists = [ l \in DOMAIN @ |-> @[l] \o u.lists[l] ] ]
Absorb == \E t, u \in trees :
             /\ t # u /\ t.kind = "Network" /\ u.kind = "Network"
             /\ trees' = (trees \ {t, u}) \cup {Absorbed(t, u)}

Next == Make \/ Release \/ Duplicate \/ Absorb
Steps == [][Next]_trees
Spec == Init /\ Steps
=============================================================================
