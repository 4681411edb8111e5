----------------------------- MODULE DbcSession -----------------------------
(***************************************************************************)
(* A user of the library who loads DBC files, merges and clones the        *)
(* networks, writes one to a file and loads that again. To bound the runs, *)
(* files grow before they are loaded and networks are merged and cloned    *)
(* before one is written.                                                  *)
(***************************************************************************)
EXTENDS DbcRoundTrip, NetworkImpl

CONSTANTS
    Slots,           \* the network handles of the user
    InitialFiles,    \* the files of the slots before they are extended, None for no file
    Statements,      \* the statements the files are extended with
    MaxStatements,   \* how many files and statements added to them there are together
    MaxSaves,        \* how often the user writes a network
    None             \* no network, no file

ASSUME FilesAssumption ==
    /\ \A initial \in InitialFiles :
          /\ initial = [ s \in Slots |-> initial[s] ]
          /\ \A s \in Slots : initial[s] = None \/ ParsedFile(initial[s])
    /\ \A st \in Statements : Parsed(st)

VARIABLES
    files,           \* files[s]: the stream slot s is loaded from; None once read
    nets,            \* nets[s]: the network in slot s, or None
    saved,           \* the file written last, or None
    origin,          \* history: the network it was written for
    added, saves     \* counters for the two bounds

session_vars == << files, nets, saved, origin, added, saves >>

SessionInit ==
    /\ files \in InitialFiles
    /\ nets = [s \in Slots |-> None]
    /\ saved = None
    /\ origin = None
    /\ added = 0 /\ saves = 0

Holds(s) == nets[s] # None

-----------------------------------------------------------------------------
(* The author of a file adds a statement, last in its section. *)
AddStatement(s, st) ==
    LET place == 1 + Cardinality({ i \in DOMAIN files[s] :
                                     Section(files[s][i]) <= Section(st) })
    IN  /\ files[s] # None
        /\ \A t \in Slots : nets[t] = None
        /\ added + Cardinality({ t \in Slots : files[t] # None }) < MaxStatements
        /\ files' = [files EXCEPT ![s] = InsertAt(@, place, st)]
        /\ added' = added + 1
        /\ UNCHANGED << nets, saved, origin, saves >>

(* LoadDBCFromIs reads the stream to its end; it returns no network for a   *)
(* file that is not accepted.                                               *)
LoadDBCFromIs(s) ==
    /\ files[s] # None
    /\ saves = 0
    /\ files' = [files EXCEPT ![s] = None]
    /\ \E left \in LeftOnStack :
          nets' = [nets EXCEPT ![s] = IF Accepts(files[s]) THEN Load(files[s], left)
                                                           ELSE None]
    /\ UNCHANGED << saved, origin, added, saves >>

(* The network is replaced by its clone. *)
CloneNetwork(s) ==
    /\ Holds(s)
    /\ saves = 0
    /\ nets' = [nets EXCEPT ![s] = Clone(@)]
    /\ UNCHANGED << files, saved, origin, added, saves >>

(* The other network is moved from, and gone. *)
MergeNetworks(s, t) ==
    /\ s # t /\ Holds(s) /\ Holds(t)
    /\ saves = 0
    /\ nets' = [nets EXCEPT ![s] = Merge(nets[s], nets[t]), ![t] = None]
    /\ UNCHANGED << files, saved, origin, added, saves >>

SaveNetwork(s) ==
    /\ Holds(s)
    /\ saves < MaxSaves
    /\ saved' = Write(nets[s])
    /\ origin' = nets[s]
    /\ saves' = saves + 1
    /\ UNCHANGED << files, nets, added >>

(* The file just written is loaded over the network it was written for. *)
ReloadSaved(s) ==
    /\ saves > 0
    /\ nets[s] = origin
    /\ Accepts(saved)
    /\ \E left \in LeftOnStack : nets' = [nets EXCEPT ![s] = Load(saved, left)]
    /\ UNCHANGED << files, saved, origin, added, saves >>

SessionNext ==
    \/ \E s \in Slots, st \in Statements : AddStatement(s, st)
    \/ \E s \in Slots : LoadDBCFromIs(s)
    \/ \E s \in Slots : CloneNetwork(s)
    \/ \E s, t \in Slots : MergeNetworks(s, t)
    \/ \E s \in Slots : SaveNetwork(s)
    \/ \E s \in Slots : ReloadSaved(s)

SessionSpec == SessionInit /\ [][SessionNext]_session_vars

-----------------------------------------------------------------------------
(* Network2DBC, the grammar and DBCAST2Network together: a network is read  *)
(* back as it was written, every attribute, comment, description and group  *)
(* at its owner and in its order, merged or cloned or not. Objects that     *)
(* share a name share what was written for each of them: the attributes of  *)
(* two messages with one id double with every reload.                       *)
SavedReloads ==
    saved # None /\ Representable(origin) =>
        \A left \in LeftOnStack : Load(saved, left) = Pooled(origin)

(* Network2DBC and the grammar: the written file is grammatical for exactly *)
(* the networks of Writable, those that clash in their names included.      *)
SavedParsesIffWritable ==
    saved # None => (Accepts(saved) <=> Writable(origin))

(* Writing is lossy at most once: what is read back from a written file is  *)
(* written as that same file, also when the first writing lost something.   *)
(* (A text that is read as another one may be so again: of two backslashes  *)
(* one is lost with every reload.)                                          *)
SavingSettles ==
    saved # None /\ UniqueNames(origin) /\ ReadAsWritten(origin) /\ Accepts(saved) =>
        \A left \in LeftOnStack : Write(Load(saved, left)) = saved

(* INetwork::Merge and operator==: a merged network has what it had at the  *)
(* indices it had it, and compares equal to what it was before the merge,   *)
(* however much it was given; so does a network to its clone, although that *)
(* is without its signal groups. A user who compares with == sees neither.  *)
CopiesCompareEqual ==
    [][ /\ \A s, t \in Slots : MergeNetworks(s, t) =>
              /\ NetworkEquals(nets'[s], nets[s])
              /\ IsPrefix(nets[s].messages, nets'[s].messages)
        /\ \A s \in Slots : CloneNetwork(s) => NetworkEquals(nets[s], nets'[s])
      ]_session_vars
=============================================================================
