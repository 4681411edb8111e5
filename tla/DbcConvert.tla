----------------------------- MODULE DbcConvert -----------------------------
(***************************************************************************)
(* dbcppp dbc2 --format=DBC: the networks of the files named on the        *)
(* command line are merged into an empty one, which is written. Files      *)
(* named .kcd are loaded by the steps of KcdLoader.                        *)
(***************************************************************************)
EXTENDS DbcRoundTrip, NetworkImpl, KcdLoader

CONSTANT
    Commands       \* the command lines: sequences of files, << kind, content >>

(* A file of the command line is one of the documents, or what the parser   *)
(* reads from the text.                                                     *)
ASSUME CommandsAssumption ==
    \A c \in Commands :
        /\ List(c)
        /\ \A f \in ToSet(c) :
              /\ f[1] = "kcd" => f[2] \in Docs
              /\ f[1] = "dbc" => ParsedFile(f[2])

(* No text of a document stands for one that a DBC file cannot be read back *)
(* with, and consumers and labels are lists. The names of signals are       *)
(* identifiers, unlike those of messages and nodes: what a line about a     *)
(* signal says with another name is not modelled.                           *)
ASSUME TextsAssumption ==
    \A m \in MessageElements :
        /\ m.text # Unreadable
        /\ \A e \in ToSet(SignalElements(m)) :
              /\ Identifier(e.signal.name)
              /\ List(e.signal.consumers)
              /\ List(e.signal.labels) /\ Unreadable \notin ToSet(e.signal.labels)
              /\ e.signal.notes # Unreadable
              /\ e.signal.value # << >> => Head(e.signal.value).unit # Unreadable

VARIABLES
    command,   \* the files of the command line, never written
    opened,    \* how many of them were opened
    pc,        \* "open", "kcd" while one is loaded; "written", "terminated"
    net,       \* the network merged into
    out        \* the file written

(* vars are those of KcdLoader. *)
command_vars == << command, opened, pc, net, out, vars >>

EmptyNetwork ==
    [ version |-> "", new_symbols |-> << >>, bit_timing |-> << 0, 0, 0 >>,
      nodes |-> << >>, value_tables |-> << >>, messages |-> << >>,
      environment_variables |-> << >>, attribute_definitions |-> << >>,
      attribute_defaults |-> << >>, attribute_values |-> << >>, comment |-> "" ]

CommandInit ==
    /\ command \in Commands
    /\ opened = 0
    /\ pc = "open"
    /\ net = EmptyNetwork
    /\ out = << >>
    /\ Init

-----------------------------------------------------------------------------
(* The next file of the command line, which is of that kind. *)
Opens(kind) ==
    /\ pc = "open"
    /\ opened < Len(command)
    /\ command[opened + 1][1] = kind
    /\ opened' = opened + 1
Content == command[opened + 1][2]

(* LoadNetworkFromFile: what is not opened, has neither extension, or is a  *)
(* DBC file with an error gives no network.                                 *)
SkipFile ==
    /\ \/ Opens("unopened")
       \/ Opens("other")
       \/ Opens("dbc") /\ ~ Accepts(Content)
    /\ UNCHANGED << command, pc, net, out, vars >>

(* A DBC file is loaded and merged. *)
LoadDBC ==
    /\ Opens("dbc")
    /\ Accepts(Content)
    /\ \E left \in LeftOnStack : net' = Merge(net, Load(Content, left))
    /\ UNCHANGED << command, pc, out, vars >>

(* A KCD file is parsed step by step. *)
LoadKCD ==
    /\ Opens("kcd")
    /\ pc' = "kcd"
    /\ LoadKCDFromIs(Content)
    /\ UNCHANGED << command, net, out >>
ParseKCD ==
    /\ pc = "kcd"
    /\ Parse
    /\ UNCHANGED << command, opened, pc, net, out >>

Ascending(S) ==
    CHOOSE s \in [1 .. Cardinality(S) -> S] : \A i, j \in DOMAIN s : i < j => s[i] < s[j]

(* Mutant: only the first network of a file is merged.                      *)
MergeLoaded_FirstOnly ==
    /\ pc = "kcd" /\ phase = "done"
    /\ net' = IF networks = Empty THEN net
              ELSE Merge(net, networks[Min(DOMAIN networks)])
    /\ pc' = "open"
    /\ UNCHANGED << command, opened, out, vars >>

(* The networks of a KCD file are merged in the order of their names, that  *)
(* of a std::map.                                                           *)
MergeLoaded ==
    LET names == Ascending(DOMAIN networks)
    IN  /\ pc = "kcd" /\ phase = "done"
        /\ net' = FoldLeft(LAMBDA merged, name : Merge(merged, networks[name]), net, names)
        /\ pc' = "open"
        /\ UNCHANGED << command, opened, out, vars >>

(* Nothing catches the exception of KCD; undefined behaviour is taken for a *)
(* crash as well.                                                           *)
Terminate ==
    /\ pc = "kcd" /\ phase \in {"thrown", "undefined"}
    /\ pc' = "terminated"
    /\ UNCHANGED << command, opened, net, out, vars >>

WriteDBC ==
    /\ pc = "open"
    /\ opened = Len(command)
    /\ out' = Write(net)
    /\ pc' = "written"
    /\ UNCHANGED << command, opened, net, vars >>

CommandNext ==
    \/ SkipFile
    \/ LoadDBC
    \/ LoadKCD
    \/ ParseKCD
    \/ MergeLoaded
    \/ Terminate
    \/ WriteDBC

CommandSpec == CommandInit /\ [][CommandNext]_command_vars
(* The tool is one thread that is not held up. *)
FairSpec == CommandSpec /\ WF_command_vars(CommandNext)

-----------------------------------------------------------------------------
(* The command line of the README, `dbc2 --dbc=file1.dbc --dbc=file2.kcd    *)
(* --format=DBC': what is written is a DBC file unless a signal has no      *)
(* receiver, a message or one of its nodes no name or one with blanks, or a *)
(* text a quotation mark in it (see Writable); and it is loaded as the      *)
(* network that was merged, of whatever files, unless the name of another   *)
(* node has blanks: that is read as several nodes (see Representable).      *)
ConvertedReadsBack ==
    pc = "written" =>
        /\ Accepts(out) <=> Writable(net)
        /\ Representable(net) => \A left \in LeftOnStack : Load(out, left) = Pooled(net)

(* The networks of a file, each as the ids of its messages and the names of *)
(* its nodes.                                                               *)
NetworksOfDoc(d) ==
    LET Buses(name) == { b \in DOMAIN d.buses : d.buses[b].name = name }
        names == Ascending({ d.buses[b].name : b \in DOMAIN d.buses })
    IN  [ i \in DOMAIN names |->
            LET of == d.buses[Min(Buses(names[i]))].messages
            IN  [ ids   |-> [ k \in DOMAIN of |-> of[k].id ],
                  nodes |-> [ k \in DOMAIN d.nodes |-> d.nodes[k].name ] ] ]
NetworksOfFile(file) ==
    IF file[1] = "kcd" THEN NetworksOfDoc(file[2])
    ELSE IF file[1] = "dbc" /\ Accepts(file[2])
      THEN << [ ids   |-> LET of == Of(file[2], "BO_")
                          IN  [ k \in DOMAIN of |-> Owner(of[k])[2] ],
                nodes |-> Head(Values(file[2], "BU_")) ] >>
    ELSE << >>

(* dbc2, LoadNetworkFromFile and Merge: the network written has the         *)
(* messages of all files in the order of the command line, of a KCD file    *)
(* those of the first bus of each name in the order of the names, and the   *)
(* nodes of a KCD file once for each of these.                              *)
ConvertsEveryFile ==
    pc = "written" =>
        LET all == FlattenSeq([ i \in DOMAIN command |-> NetworksOfFile(command[i]) ])
        IN  /\ [ i \in DOMAIN net.messages |-> net.messages[i].id ]
                 = FlattenSeq([ i \in DOMAIN all |-> all[i].ids ])
            /\ [ i \in DOMAIN net.nodes |-> net.nodes[i].name ]
                 = FlattenSeq([ i \in DOMAIN all |-> all[i].nodes ])

(* dbc2 comes to an end for every command line: it writes a network unless  *)
(* a KCD file cannot be resolved, which no other file makes up for.         *)
CommandEnds ==
    <>[](pc = IF \A i \in DOMAIN command :
                    command[i][1] = "kcd" => Resolvable(command[i][2])
                THEN "written" ELSE "terminated")
=============================================================================
