-------------------------- MODULE DbcSession_proofs --------------------------
(***************************************************************************)
(* What comes back from the file written for a network: what the loader    *)
(* finds in it for a name is what the objects of that name, its twins,     *)
(* said, one after the other. From that follow what is read back           *)
(* (LoadWritten, RepresentableReloads) and that it is written again        *)
(* (WritingSettles). The invariant SessionInv of DbcSession says that      *)
(* every slot holds a network as the loaders make them, and the properties *)
(* follow from it. The last part is about dbc2 and the KCD loader, whose   *)
(* networks take the same way.                                             *)
(***************************************************************************)
EXTENDS DbcSession, DbcConvert, DbcWriter_proofs

-----------------------------------------------------------------------------
(* Merge, Clone and operator==. *)

(* Every comparison holds of an object and itself. *)
LEMMA EqualsItself ==
    ASSUME NEW x
    PROVE  /\ NodeEquals(x, x) /\ ValueTableEquals(x, x) /\ EnvVarEquals(x, x)
           /\ AttributeDefinitionEquals(x, x) /\ Equal(x, x) /\ SignalEquals(x, x)
           /\ MessageEquals(x, x)
<1>1. \A xs : Finds(xs, xs, Equal)
    BY DEF Finds, Equal
<1>2. \A v : SignalMultiplexerValueEquals(v, v)
    BY <1>1 DEF SignalMultiplexerValueEquals
<1>3. \A xs : Finds(xs, xs, SignalMultiplexerValueEquals)
    BY <1>2 DEF Finds
<1>4. \A s : SignalEquals(s, s)
    BY <1>1, <1>3 DEF SignalEquals
<1>5. \A xs : Finds(xs, xs, SignalEquals)
    BY <1>4 DEF Finds
<1>6. \A g : SignalGroupEquals(g, g)
    BY <1>1 DEF SignalGroupEquals
<1>7. \A xs : Finds(xs, xs, SignalGroupEquals)
    BY <1>6 DEF Finds
<1>8. MessageEquals(x, x)
    BY <1>1, <1>5, <1>7 DEF MessageEquals
<1> QED  BY <1>1, <1>4, <1>8 DEF NodeEquals, ValueTableEquals, SignalTypeEquals, EnvVarEquals,
                AttributeDefinitionEquals, Equal

(* The copy of a message, without its signal groups, compares equal.        *)
LEMMA CopyEquals ==
    ASSUME NEW m, IsMessage(m)
    PROVE  MessageEquals(m, CopyMessage(m)) /\ IsMessage(CopyMessage(m))
<1> DEFINE c == CopyMessage(m)
<1>1. c = [ id |-> m.id, name |-> m.name, transmitter |-> m.transmitter, size |-> m.size,
            signals |-> m.signals, transmitters |-> m.transmitters, attributes |-> m.attributes,
            comment |-> m.comment, signal_groups |-> << >> ]
    <2> DEFINE a1 == m.id  a2 == m.name  a9 == m.transmitter  a3 == m.size  a4 == m.signals  a5 == m.transmitters
               a6 == m.attributes  a7 == m.comment  a8 == m.signal_groups
    <2>1. m = [ id |-> a1, name |-> a2, transmitter |-> a9, size |-> a3, signals |-> a4, transmitters |-> a5,
                attributes |-> a6, comment |-> a7, signal_groups |-> a8 ]
        BY DEF IsMessage
    <2> HIDE DEF a1, a2, a3, a4, a5, a6, a7, a8, a9
    <2>2. c = [ id |-> a1, name |-> a2, transmitter |-> a9, size |-> a3, signals |-> a4, transmitters |-> a5,
                attributes |-> a6, comment |-> a7, signal_groups |-> << >> ]
        BY <2>1 DEF CopyMessage
    <2> HIDE DEF c
    <2> QED  BY <2>2 DEF a1, a2, a3, a4, a5, a6, a7, a8, a9
<1> HIDE DEF c
<1>2. /\ c.id = m.id /\ c.name = m.name /\ c.transmitter = m.transmitter /\ c.size = m.size /\ c.signals = m.signals
      /\ c.transmitters = m.transmitters /\ c.attributes = m.attributes
      /\ c.comment = m.comment /\ c.signal_groups = << >>
    BY <1>1
<1>3. IsMessage(c)
    BY <1>1, <1>2, SequenceEmpty DEF IsMessage
<1>4. \A xs : Finds(xs, xs, Equal) /\ Finds(xs, xs, SignalEquals)
    BY EqualsItself DEF Finds
<1>5. Finds(m.signal_groups, << >>, SignalGroupEquals)
    BY SequenceEmpty DEF Finds
<1>6. MessageEquals(m, c)
    BY <1>2, <1>4, <1>5 DEF MessageEquals
<1> QED  BY <1>3, <1>6 DEF c

(* A list finds every element of its beginning.                             *)
LEMMA FindsIn ==
    ASSUME NEW xs, NEW rhs, \A i \in DOMAIN rhs : i \in DOMAIN xs /\ xs[i] = rhs[i]
    PROVE  /\ Finds(xs, rhs, Equal) /\ Finds(xs, rhs, NodeEquals)
           /\ Finds(xs, rhs, ValueTableEquals) /\ Finds(xs, rhs, MessageEquals)
           /\ Finds(xs, rhs, EnvVarEquals) /\ Finds(xs, rhs, AttributeDefinitionEquals)
BY EqualsItself DEF Finds

(* INetwork::Clone makes a network that the network finds itself equal to.  *)
LEMMA CloneIs ==
    ASSUME NEW ntw, IsNetwork(ntw)
    PROVE  IsNetwork(Clone(ntw)) /\ NetworkEquals(ntw, Clone(ntw))
<1> DEFINE c == Clone(ntw)
           ms == [ i \in DOMAIN ntw.messages |-> CopyMessage(ntw.messages[i]) ]
<1>1. c = [ version |-> ntw.version, new_symbols |-> ntw.new_symbols,
            bit_timing |-> ntw.bit_timing, nodes |-> ntw.nodes,
            value_tables |-> ntw.value_tables, messages |-> ms,
            environment_variables |-> ntw.environment_variables,
            attribute_definitions |-> ntw.attribute_definitions,
            attribute_defaults |-> ntw.attribute_defaults,
            attribute_values |-> ntw.attribute_values, comment |-> ntw.comment ]
    <2> DEFINE a1 == ntw.version  a2 == ntw.new_symbols  a3 == ntw.bit_timing  a4 == ntw.nodes
               a5 == ntw.value_tables  a6 == ntw.messages  a7 == ntw.environment_variables
               a8 == ntw.attribute_definitions  a9 == ntw.attribute_defaults
               a10 == ntw.attribute_values  a11 == ntw.comment
    <2>1. ntw = [ version |-> a1, new_symbols |-> a2, bit_timing |-> a3, nodes |-> a4,
                  value_tables |-> a5, messages |-> a6, environment_variables |-> a7,
                  attribute_definitions |-> a8, attribute_defaults |-> a9,
                  attribute_values |-> a10, comment |-> a11 ]
        BY DEF IsNetwork
    <2>2. c = [ ntw EXCEPT !.messages = ms ]
        BY DEF Clone
    <2> HIDE DEF c, ms, a1, a2, a3, a4, a5, a6, a7, a8, a9, a10, a11
    <2>3. c = [ version |-> a1, new_symbols |-> a2, bit_timing |-> a3, nodes |-> a4,
                value_tables |-> a5, messages |-> ms, environment_variables |-> a7,
                attribute_definitions |-> a8, attribute_defaults |-> a9,
                attribute_values |-> a10, comment |-> a11 ]
        BY <2>1, <2>2
    <2> QED  BY <2>3 DEF a1, a2, a3, a4, a5, a7, a8, a9, a10, a11
<1>2. Sequence(ntw.messages) /\ \A i \in DOMAIN ntw.messages : IsMessage(ntw.messages[i])
    BY DEF IsNetwork
<1>3. DOMAIN ms = DOMAIN ntw.messages /\ ms = [ i \in DOMAIN ntw.messages |-> ms[i] ]
        /\ \A i \in DOMAIN ms : IsMessage(ms[i]) /\ MessageEquals(ntw.messages[i], ms[i])
    BY <1>2, CopyEquals
<1> HIDE DEF c, ms
<1>4. Sequence(ms)
    BY <1>2, <1>3, MadeOf
<1>5. /\ c.version = ntw.version /\ c.new_symbols = ntw.new_symbols
      /\ c.bit_timing = ntw.bit_timing /\ c.nodes = ntw.nodes
      /\ c.value_tables = ntw.value_tables /\ c.messages = ms
      /\ c.environment_variables = ntw.environment_variables
      /\ c.attribute_definitions = ntw.attribute_definitions
      /\ c.attribute_defaults = ntw.attribute_defaults
      /\ c.attribute_values = ntw.attribute_values /\ c.comment = ntw.comment
    BY <1>1
<1>6. IsNetwork(c)
    BY <1>1, <1>3, <1>4, <1>5 DEF IsNetwork
<1>7. Finds(ntw.messages, ms, MessageEquals)
    BY <1>3 DEF Finds
<1>8. NetworkEquals(ntw, c)
    BY <1>5, <1>7, FindsIn DEF NetworkEquals
<1> QED  BY <1>6, <1>8 DEF c

(* The attributes of both networks.                                         *)
LEMMA AppendedAttributes ==
    ASSUME NEW s, NEW t, NEW type, IsAttributes(s, type), IsAttributes(t, type)
    PROVE  IsAttributes(s \o t, type)
<1>1. Sequence(s) /\ Sequence(t)
    BY DEF IsAttributes
<1>2. Sequence(s \o t) /\ \A x \in ToSet(s \o t) : x \in ToSet(s) \/ x \in ToSet(t)
    BY <1>1, Appended
<1> DEFINE u == s \o t
<1> HIDE DEF u
<1>3. \A x \in ToSet(s) : /\ x = [ type |-> type, name |-> x.name, value |-> x.value ]
                            /\ x.name # Unreadable /\ x.value # Unreadable
    BY DEF IsAttributes, ToSet
<1>4. \A x \in ToSet(t) : /\ x = [ type |-> type, name |-> x.name, value |-> x.value ]
                            /\ x.name # Unreadable /\ x.value # Unreadable
    BY DEF IsAttributes, ToSet
<1>5. \A i \in DOMAIN u : u[i] \in ToSet(s) \/ u[i] \in ToSet(t)
    BY <1>2 DEF u, ToSet
<1>6. Sequence(u)
    BY <1>2 DEF u
<1>7. IsAttributes(u, type)
    BY <1>3, <1>4, <1>5, <1>6 DEF IsAttributes
<1> QED  BY <1>7 DEF u

(* INetwork::Merge appends, so that the merged network finds all it had.    *)
LEMMA MergeIs ==
    ASSUME NEW self, IsNetwork(self), NEW other, IsNetwork(other)
    PROVE  /\ IsNetwork(Merge(self, other)) /\ NetworkEquals(Merge(self, other), self)
           /\ Merge(self, other).messages = self.messages \o other.messages
           /\ Merge(self, other).nodes = self.nodes \o other.nodes
           /\ Merge(self, other).environment_variables
                = self.environment_variables \o other.environment_variables
<1> DEFINE a1 == self.version  a2 == self.new_symbols  a3 == self.bit_timing  a4 == self.nodes
           a5 == self.value_tables  a6 == self.messages  a7 == self.environment_variables
           a8 == self.attribute_definitions  a9 == self.attribute_defaults
           a10 == self.attribute_values  a11 == self.comment
           b2 == other.new_symbols  b4 == other.nodes
           b5 == other.value_tables  b6 == other.messages  b7 == other.environment_variables
           b8 == other.attribute_definitions  b9 == other.attribute_defaults
           b10 == other.attribute_values
           c2 == a2 \o b2  c4 == a4 \o b4  c5 == a5 \o b5  c6 == a6 \o b6  c7 == a7 \o b7
           c8 == a8 \o b8  c9 == a9 \o b9  c10 == a10 \o b10
           c == Merge(self, other)
<1>1. self = [ version |-> a1, new_symbols |-> a2, bit_timing |-> a3, nodes |-> a4,
               value_tables |-> a5, messages |-> a6, environment_variables |-> a7,
               attribute_definitions |-> a8, attribute_defaults |-> a9,
               attribute_values |-> a10, comment |-> a11 ]
    BY DEF IsNetwork
<1>2. c = [ self EXCEPT !.new_symbols = c2, !.nodes = c4, !.value_tables = c5, !.messages = c6,
                        !.environment_variables = c7, !.attribute_definitions = c8,
                        !.attribute_defaults = c9, !.attribute_values = c10 ]
    BY <1>1 DEF Merge
<1>3. /\ Sequence(a4) /\ (\A i \in DOMAIN a4 : IsNode(a4[i]))
      /\ Sequence(a5) /\ (\A i \in DOMAIN a5 : IsValueTable(a5[i]))
      /\ Sequence(a6) /\ (\A i \in DOMAIN a6 : IsMessage(a6[i]))
      /\ Sequence(a7) /\ (\A i \in DOMAIN a7 : IsEnvVar(a7[i]))
      /\ Sequence(a8) /\ (\A i \in DOMAIN a8 : IsDefinition(a8[i])) /\ IsAttributes(a9, "network") /\ IsAttributes(a10, "network")
      /\ a1 # Unreadable /\ a11 # Unreadable /\ a3 \in [ 1 .. 3 -> Nat ]
    BY DEF IsNetwork
<1>4. /\ Sequence(b4) /\ (\A i \in DOMAIN b4 : IsNode(b4[i]))
      /\ Sequence(b5) /\ (\A i \in DOMAIN b5 : IsValueTable(b5[i]))
      /\ Sequence(b6) /\ (\A i \in DOMAIN b6 : IsMessage(b6[i]))
      /\ Sequence(b7) /\ (\A i \in DOMAIN b7 : IsEnvVar(b7[i]))
      /\ Sequence(b8) /\ (\A i \in DOMAIN b8 : IsDefinition(b8[i])) /\ IsAttributes(b9, "network") /\ IsAttributes(b10, "network")
    BY DEF IsNetwork
<1> HIDE DEF a1, a2, a3, a4, a5, a6, a7, a8, a9, a10, a11, b2, b4, b5, b6, b7, b8, b9, b10, c
<1>5. Sequence(a9) /\ Sequence(a10) /\ Sequence(b9) /\ Sequence(b10)
    BY <1>3, <1>4 DEF IsAttributes
<1>6. Sequence(c4) /\ (\A i \in DOMAIN a4 : i \in DOMAIN c4 /\ c4[i] = a4[i])
        /\ \A i \in DOMAIN c4 : IsNode(c4[i])
    <2>1. \A x \in ToSet(a4) : IsNode(x)
        BY <1>3 DEF ToSet
    <2>2. \A x \in ToSet(b4) : IsNode(x)
        BY <1>4 DEF ToSet
    <2>3. \A i \in DOMAIN c4 : c4[i] \in ToSet(c4)
        BY DEF ToSet
    <2>4. /\ Sequence(c4) /\ (\A i \in DOMAIN a4 : i \in DOMAIN c4 /\ c4[i] = a4[i])
          /\ \A x \in ToSet(c4) : x \in ToSet(a4) \/ x \in ToSet(b4)
        BY <1>3, <1>4, Appended
    <2> HIDE DEF c4
    <2> QED  BY <2>1, <2>2, <2>3, <2>4
<1>7. Sequence(c5) /\ (\A i \in DOMAIN a5 : i \in DOMAIN c5 /\ c5[i] = a5[i])
        /\ \A i \in DOMAIN c5 : IsValueTable(c5[i])
    <2>1. \A x \in ToSet(a5) : IsValueTable(x)
        BY <1>3 DEF ToSet
    <2>2. \A x \in ToSet(b5) : IsValueTable(x)
        BY <1>4 DEF ToSet
    <2>3. \A i \in DOMAIN c5 : c5[i] \in ToSet(c5)
        BY DEF ToSet
    <2>4. /\ Sequence(c5) /\ (\A i \in DOMAIN a5 : i \in DOMAIN c5 /\ c5[i] = a5[i])
          /\ \A x \in ToSet(c5) : x \in ToSet(a5) \/ x \in ToSet(b5)
        BY <1>3, <1>4, Appended
    <2> HIDE DEF c5
    <2> QED  BY <2>1, <2>2, <2>3, <2>4
<1>8. Sequence(c6) /\ (\A i \in DOMAIN a6 : i \in DOMAIN c6 /\ c6[i] = a6[i])
        /\ \A i \in DOMAIN c6 : IsMessage(c6[i])
    <2>1. \A x \in ToSet(a6) : IsMessage(x)
        BY <1>3 DEF ToSet
    <2>2. \A x \in ToSet(b6) : IsMessage(x)
        BY <1>4 DEF ToSet
    <2>3. \A i \in DOMAIN c6 : c6[i] \in ToSet(c6)
        BY DEF ToSet
    <2>4. /\ Sequence(c6) /\ (\A i \in DOMAIN a6 : i \in DOMAIN c6 /\ c6[i] = a6[i])
          /\ \A x \in ToSet(c6) : x \in ToSet(a6) \/ x \in ToSet(b6)
        BY <1>3, <1>4, Appended
    <2> HIDE DEF c6
    <2> QED  BY <2>1, <2>2, <2>3, <2>4
<1>9. Sequence(c7) /\ (\A i \in DOMAIN a7 : i \in DOMAIN c7 /\ c7[i] = a7[i])
        /\ \A i \in DOMAIN c7 : IsEnvVar(c7[i])
    <2>1. \A x \in ToSet(a7) : IsEnvVar(x)
        BY <1>3 DEF ToSet
    <2>2. \A x \in ToSet(b7) : IsEnvVar(x)
        BY <1>4 DEF ToSet
    <2>3. \A i \in DOMAIN c7 : c7[i] \in ToSet(c7)
        BY DEF ToSet
    <2>4. /\ Sequence(c7) /\ (\A i \in DOMAIN a7 : i \in DOMAIN c7 /\ c7[i] = a7[i])
          /\ \A x \in ToSet(c7) : x \in ToSet(a7) \/ x \in ToSet(b7)
        BY <1>3, <1>4, Appended
    <2> HIDE DEF c7
    <2> QED  BY <2>1, <2>2, <2>3, <2>4
<1>9a. Sequence(c8) /\ (\A i \in DOMAIN a8 : i \in DOMAIN c8 /\ c8[i] = a8[i])
        /\ \A i \in DOMAIN c8 : IsDefinition(c8[i])
    <2>1. \A x \in ToSet(a8) : IsDefinition(x)
        BY <1>3 DEF ToSet
    <2>2. \A x \in ToSet(b8) : IsDefinition(x)
        BY <1>4 DEF ToSet
    <2>3. \A i \in DOMAIN c8 : c8[i] \in ToSet(c8)
        BY DEF ToSet
    <2>4. /\ Sequence(c8) /\ (\A i \in DOMAIN a8 : i \in DOMAIN c8 /\ c8[i] = a8[i])
          /\ \A x \in ToSet(c8) : x \in ToSet(a8) \/ x \in ToSet(b8)
        BY <1>3, <1>4, Appended
    <2> HIDE DEF c8
    <2> QED  BY <2>1, <2>2, <2>3, <2>4
<1>10. /\ IsAttributes(c9, "network") /\ (\A i \in DOMAIN a9 : i \in DOMAIN c9 /\ c9[i] = a9[i])
       /\ IsAttributes(c10, "network")
       /\ (\A i \in DOMAIN a10 : i \in DOMAIN c10 /\ c10[i] = a10[i])
    BY <1>3, <1>4, <1>5, Appended, AppendedAttributes
<1>11. c6 = self.messages \o other.messages /\ c4 = self.nodes \o other.nodes
         /\ c7 = self.environment_variables \o other.environment_variables
    BY DEF a6, b6, a4, b4, a7, b7
<1> HIDE DEF c2, c4, c5, c6, c7, c8, c9, c10
<1>12. c = [ version |-> a1, new_symbols |-> c2, bit_timing |-> a3, nodes |-> c4,
             value_tables |-> c5, messages |-> c6, environment_variables |-> c7,
             attribute_definitions |-> c8, attribute_defaults |-> c9,
             attribute_values |-> c10, comment |-> a11 ]
    BY <1>1, <1>2
<1>13. /\ c.version = a1 /\ c.new_symbols = c2 /\ c.bit_timing = a3 /\ c.nodes = c4
       /\ c.value_tables = c5 /\ c.messages = c6 /\ c.environment_variables = c7
       /\ c.attribute_definitions = c8 /\ c.attribute_defaults = c9
       /\ c.attribute_values = c10 /\ c.comment = a11
    BY <1>12
<1>14. /\ self.version = a1 /\ self.bit_timing = a3 /\ self.nodes = a4
       /\ self.value_tables = a5 /\ self.messages = a6 /\ self.environment_variables = a7
       /\ self.attribute_definitions = a8 /\ self.attribute_defaults = a9
       /\ self.attribute_values = a10 /\ self.comment = a11
    BY <1>1
<1>15. IsNetwork(c)
    BY <1>3, <1>6, <1>7, <1>8, <1>9, <1>10, <1>12, <1>13, <1>9a DEF IsNetwork
<1>16. /\ Finds(c4, a4, NodeEquals) /\ Finds(c5, a5, ValueTableEquals)
       /\ Finds(c6, a6, MessageEquals) /\ Finds(c7, a7, EnvVarEquals)
       /\ Finds(c8, a8, AttributeDefinitionEquals) /\ Finds(c9, a9, Equal)
       /\ Finds(c10, a10, Equal)
    BY <1>6, <1>7, <1>8, <1>9, <1>10, <1>9a, FindsIn
<1>17. NetworkEquals(c, self)
    BY <1>13, <1>14, <1>16 DEF NetworkEquals
<1> QED  BY <1>11, <1>13, <1>15, <1>17 DEF c

-----------------------------------------------------------------------------
(* What the file has of a kind, and of an object. *)

(* What the written file has of a kind is what its section has.             *)
OfFn(X, kind)    == [ st \in X |-> Optional(Kind(st) = kind, st) ]
ValueFn(X, kind) == [ st \in X |-> Optional(Kind(st) = kind, Value(st)) ]

(* The statements of a kind, as a mapping.                                  *)
LEMMA OfIsGathered ==
    ASSUME NEW s, NEW X, ToSet(s) \subseteq X, NEW kind
    PROVE  Of(s, kind) = Gathered(s, OfFn(X, kind)) /\ Values(s, kind) = Gathered(s, ValueFn(X, kind))
<1> DEFINE f == [ st \in X |-> Optional(Kind(st) = kind, st) ]
           g == [ st \in X |-> Optional(Kind(st) = kind, Value(st)) ]
<1>1. \A i \in DOMAIN s : s[i] \in X
    BY DEF ToSet
<1>2. [ i \in DOMAIN s |-> Optional(Kind(s[i]) = kind, s[i]) ] = [ i \in DOMAIN s |-> f[s[i]] ]
    BY <1>1
<1>3. [ i \in DOMAIN s |-> Optional(Kind(s[i]) = kind, Value(s[i])) ] = [ i \in DOMAIN s |-> g[s[i]] ]
    BY <1>1
<1>4. Of(s, kind) = Gathered(s, f)
    BY <1>2 DEF Of, Each, Gathered
<1>5. Values(s, kind) = Gathered(s, g)
    BY <1>3 DEF Values, Each, Gathered
<1> QED  BY <1>4, <1>5 DEF OfFn, ValueFn

(* Those of parts put together are those of each part.                      *)
LEMMA OfFlattened ==
    ASSUME NEW seqs, Sequences(seqs), NEW kind
    PROVE  /\ Of(FlattenSeq(seqs), kind) = FlattenSeq([ i \in DOMAIN seqs |-> Of(seqs[i], kind) ])
           /\ Values(FlattenSeq(seqs), kind)
                = FlattenSeq([ i \in DOMAIN seqs |-> Values(seqs[i], kind) ])
<1> DEFINE X == ToSet(FlattenSeq(seqs))
           f == OfFn(X, kind)
           g == ValueFn(X, kind)
<1>1. X = UNION { ToSet(seqs[i]) : i \in DOMAIN seqs }
    BY FlattenedToSet
<1>2. \A i \in DOMAIN seqs : ToSet(seqs[i]) \subseteq X
    BY <1>1
<1>3. \A i \in DOMAIN seqs : \A j \in DOMAIN seqs[i] : seqs[i][j] \in X
    BY <1>2 DEF ToSet
<1>4. \A i \in DOMAIN seqs : \A j \in DOMAIN seqs[i] :
         Sequence(f[seqs[i][j]]) /\ Sequence(g[seqs[i][j]])
    BY <1>3, OptionalIs DEF OfFn, ValueFn
<1>5. \A i \in DOMAIN seqs : Of(seqs[i], kind) = Gathered(seqs[i], f) /\ Values(seqs[i], kind) = Gathered(seqs[i], g)
    BY <1>2, OfIsGathered
<1>6. Of(FlattenSeq(seqs), kind) = Gathered(FlattenSeq(seqs), f)
        /\ Values(FlattenSeq(seqs), kind) = Gathered(FlattenSeq(seqs), g)
    BY OfIsGathered
<1> HIDE DEF X, f, g
<1>7. Gathered(FlattenSeq(seqs), f) = FlattenSeq([ i \in DOMAIN seqs |-> Gathered(seqs[i], f) ])
    BY <1>4, GatheredFlattened
<1>8. Gathered(FlattenSeq(seqs), g) = FlattenSeq([ i \in DOMAIN seqs |-> Gathered(seqs[i], g) ])
    BY <1>4, GatheredFlattened
<1>9. [ i \in DOMAIN seqs |-> Gathered(seqs[i], f) ] = [ i \in DOMAIN seqs |-> Of(seqs[i], kind) ]
    BY <1>5
<1>10. [ i \in DOMAIN seqs |-> Gathered(seqs[i], g) ] = [ i \in DOMAIN seqs |-> Values(seqs[i], kind) ]
    BY <1>5
<1> QED  BY <1>6, <1>7, <1>8, <1>9, <1>10

Lacks(part, other) ==
    /\ Of(part, other) = << >> /\ Values(part, other) = << >>
    /\ \A o : About(part, other, o) = << >>

(* A section has all of its statements of its kind, and none of another.    *)
LEMMA OfPart ==
    ASSUME NEW part, NEW kind, OfKind(part, kind)
    PROVE  /\ Of(part, kind) = part
           /\ Values(part, kind) = [ i \in DOMAIN part |-> Value(part[i]) ]
           /\ \A other : other # kind => Lacks(part, other)
<1>1. Sequence(part) /\ \A i \in DOMAIN part : Kind(part[i]) = kind
    BY DEF OfKind, ToSet
<1>2. Of(part, kind) = part
    <2>1. [ i \in DOMAIN part |-> Optional(Kind(part[i]) = kind, part[i]) ]
            = [ i \in DOMAIN part |-> << part[i] >> ]
        BY <1>1 DEF Optional
    <2> QED  BY <1>1, <2>1, FlattenOnes DEF Of, Each
<1>3. Values(part, kind) = [ i \in DOMAIN part |-> Value(part[i]) ]
    <2> DEFINE v == [ i \in DOMAIN part |-> Value(part[i]) ]
    <2>1. [ i \in DOMAIN part |-> Optional(Kind(part[i]) = kind, Value(part[i])) ]
            = [ i \in DOMAIN v |-> << v[i] >> ]
        BY <1>1 DEF Optional
    <2>2. DOMAIN v = DOMAIN part /\ v = [ i \in DOMAIN part |-> v[i] ]
        OBVIOUS
    <2> HIDE DEF v
    <2>3. Sequence(v)
        BY <1>1, <2>2, MadeOf
    <2>4. Values(part, kind) = v
        BY <2>1, <2>3, FlattenOnes DEF Values, Each
    <2> QED  BY <2>4 DEF v
<1>4. ASSUME NEW other, other # kind
      PROVE  Lacks(part, other)
    <2> DEFINE e == [ i \in DOMAIN part |-> << >> ]
    <2>1. [ i \in DOMAIN part |-> Optional(Kind(part[i]) = other, part[i]) ] = e
        BY <1>1, <1>4 DEF Optional
    <2>2. [ i \in DOMAIN part |-> Optional(Kind(part[i]) = other, Value(part[i])) ] = e
        BY <1>1, <1>4 DEF Optional
    <2>3. DOMAIN e = DOMAIN part /\ e = [ i \in DOMAIN part |-> e[i] ] /\ \A i \in DOMAIN e : e[i] = << >>
        OBVIOUS
    <2> HIDE DEF e
    <2>4. Sequence(e)
        BY <1>1, <2>3, MadeOf
    <2>5. FlattenSeq(e) = << >>
        BY <2>3, <2>4, FlattenEmpty
    <2>6. \A st \in ToSet(part) : Kind(st) # other
        BY <1>4 DEF OfKind
    <2>7. \A o : About(part, other, o) = << >>
        BY <1>1, <2>6, AboutOther
    <2> QED  BY <2>1, <2>2, <2>5, <2>7 DEF Of, Values, Each, Lacks
<1> QED  BY <1>2, <1>3, <1>4

(* Of eighteen parts all but one are empty.                                 *)
LEMMA OnlySection ==
    ASSUME NEW t, Sequence(t), DOMAIN t = 1 .. 18, \A i \in 1 .. 18 : Sequence(t[i]),
           NEW k \in 1 .. 18, \A i \in 1 .. 18 : i # k => t[i] = << >>
    PROVE  FlattenSeq(t) = t[k]
BY FlattenOnly DEF Sequences

(* What the file has of a kind is its section.                              *)
LEMMA WrittenOf ==
    ASSUME NEW ntw, IsNetwork(ntw), NEW k \in 1 .. 18, k # 5, k # 10
    PROVE  /\ Of(Write(ntw), SectionKind(k)) = SectionsOf(ntw)[k]
           /\ Values(Write(ntw), SectionKind(k))
                = [ i \in DOMAIN SectionsOf(ntw)[k] |-> Value(SectionsOf(ntw)[k][i]) ]
           /\ \A o : About(Write(ntw), SectionKind(k), o) = About(SectionsOf(ntw)[k], SectionKind(k), o)
<1> DEFINE S == SectionsOf(ntw)
           kind == SectionKind(k)
           of == [ i \in DOMAIN S |-> Of(S[i], kind) ]
           vs == [ i \in DOMAIN S |-> Values(S[i], kind) ]
<1>1. Sequences(S) /\ DOMAIN S = 1 .. 18 /\ \A i \in 1 .. 18 : OfKind(S[i], SectionKind(i))
    BY SectionsAreOfKind
<1>2. Write(ntw) = FlattenSeq(S)
    BY WrittenStatements
<1>3. \A i \in 1 .. 18 : i # k => SectionKind(i) # kind
    BY DEF SectionKind, SectionOrder
<1> HIDE DEF S, kind
<1>4. \A i \in 1 .. 18 : Sequence(S[i])
    BY <1>1 DEF OfKind
<1>a. \A i \in 1 .. 18 : i # k => Lacks(S[i], kind)
    BY <1>1, <1>3, OfPart
<1>5. \A i \in 1 .. 18 : i # k =>
         Of(S[i], kind) = << >> /\ Values(S[i], kind) = << >> /\ \A o : About(S[i], kind, o) = << >>
    BY <1>a DEF Lacks
<1>6. OfKind(S[k], kind)
    BY <1>1 DEF kind
<1>7. Of(S[k], kind) = S[k] /\ Values(S[k], kind) = [ i \in DOMAIN S[k] |-> Value(S[k][i]) ]
    BY <1>6, OfPart
<1>8. Of(FlattenSeq(S), kind) = FlattenSeq(of) /\ Values(FlattenSeq(S), kind) = FlattenSeq(vs)
    BY <1>1, OfFlattened
<1>9. /\ DOMAIN of = DOMAIN S /\ of = [ i \in DOMAIN S |-> of[i] ]
      /\ DOMAIN vs = DOMAIN S /\ vs = [ i \in DOMAIN S |-> vs[i] ]
      /\ \A i \in 1 .. 18 : of[i] = Of(S[i], kind) /\ vs[i] = Values(S[i], kind)
    BY <1>1
<1> HIDE DEF of, vs
<1>10. Sequence(S)
    BY <1>1 DEF Sequences
<1>11. Sequence(of) /\ Sequence(vs)
    BY <1>9, <1>10, MadeOf, Zenon
<1>12. \A i \in 1 .. 18 : Sequence(of[i]) /\ Sequence(vs[i])
    BY <1>4, <1>9, OfAre, ValuesOfAre
<1>13. FlattenSeq(of) = of[k] /\ FlattenSeq(vs) = vs[k]
    <2>1. \A i \in 1 .. 18 : i # k => of[i] = << >>
        BY <1>5, <1>9
    <2>2. \A i \in 1 .. 18 : i # k => vs[i] = << >>
        BY <1>5, <1>9
    <2>3. DOMAIN of = 1 .. 18 /\ DOMAIN vs = 1 .. 18
        BY <1>1, <1>9
    <2>4. FlattenSeq(of) = of[k]
        BY <1>11, <1>12, <2>1, <2>3, OnlySection, Zenon
    <2>5. FlattenSeq(vs) = vs[k]
        BY <1>11, <1>12, <2>2, <2>3, OnlySection, Zenon
    <2> QED  BY <2>4, <2>5
<1>14. ASSUME NEW o
       PROVE  About(FlattenSeq(S), kind, o) = About(S[k], kind, o)
    <2> DEFINE ab == [ i \in DOMAIN S |-> About(S[i], kind, o) ]
    <2>1. About(FlattenSeq(S), kind, o) = FlattenSeq(ab) /\ Sequences(ab)
        BY <1>1, AboutFlattened
    <2>2. DOMAIN ab = 1 .. 18 /\ \A i \in 1 .. 18 : ab[i] = About(S[i], kind, o)
        BY <1>1
    <2> HIDE DEF ab
    <2>3. FlattenSeq(ab) = ab[k]
        BY <2>1, <2>2, <1>5, OnlySection DEF Sequences
    <2> QED  BY <2>1, <2>2, <2>3
<1> QED  BY <1>2, <1>7, <1>8, <1>9, <1>13, <1>14 DEF S, kind

(* The value tables are in two sections.                                    *)
LEMMA WrittenTables ==
    ASSUME NEW ntw, IsNetwork(ntw)
    PROVE  Of(Write(ntw), "VAL_TABLE_") = Tables(ntw) \o SignalTypeSection(ntw)
<1> DEFINE S == SectionsOf(ntw)
           kind == "VAL_TABLE_"
           of == [ i \in DOMAIN S |-> Of(S[i], kind) ]
<1>1. Sequences(S) /\ DOMAIN S = 1 .. 18 /\ \A i \in 1 .. 18 : OfKind(S[i], SectionKind(i))
    BY SectionsAreOfKind
<1>2. Write(ntw) = FlattenSeq(S)
    BY WrittenStatements
<1>3. \A i \in 1 .. 18 : i # 5 /\ i # 10 => SectionKind(i) # kind
    BY DEF SectionKind, SectionOrder
<1>a. SectionKind(5) = kind /\ SectionKind(10) = kind
    BY SectionKinds
<1>b. S[5] = Tables(ntw) /\ S[10] = SignalTypeSection(ntw)
    BY SectionAt
<1> HIDE DEF S, kind
<1>4. \A i \in 1 .. 18 : Sequence(S[i])
    BY <1>1 DEF OfKind
<1>5. \A i \in 1 .. 18 : i # 5 /\ i # 10 => Of(S[i], kind) = << >>
    BY <1>1, <1>3, OfPart DEF Lacks
<1>6. OfKind(S[5], kind) /\ OfKind(S[10], kind)
    BY <1>1, <1>a
<1>7. Of(S[5], kind) = S[5] /\ Of(S[10], kind) = S[10]
    BY <1>6, OfPart
<1>8. Of(FlattenSeq(S), kind) = FlattenSeq(of)
    BY <1>1, OfFlattened
<1>9. /\ DOMAIN of = DOMAIN S /\ of = [ i \in DOMAIN S |-> of[i] ]
      /\ \A i \in 1 .. 18 : of[i] = Of(S[i], kind)
    BY <1>1
<1> HIDE DEF of
<1>10. Sequence(S)
    BY <1>1 DEF Sequences
<1>11. Sequence(of)
    BY <1>9, <1>10, MadeOf
<1>12. \A i \in 1 .. 18 : Sequence(of[i])
    BY <1>4, <1>9, OfAre
<1>13. Sequences(of) /\ 5 \in DOMAIN of /\ 10 \in DOMAIN of
    BY <1>1, <1>9, <1>11, <1>12 DEF Sequences
<1>c. \A i \in DOMAIN of : i # 5 /\ i # 10 => of[i] = << >>
    BY <1>1, <1>5, <1>9
<1>14. FlattenSeq(of) = of[5] \o of[10]
    BY <1>c, <1>13, FlattenTwo
<1>15. of[5] = S[5] /\ of[10] = S[10]
    BY <1>7, <1>9
<1>16. Of(Write(ntw), kind) = S[5] \o S[10]
    BY <1>2, <1>8, <1>14, <1>15
<1> QED  BY <1>16, <1>b DEF kind

(* No line is about the type of a signal. *)
LEMMA NoSignalTypes ==
    ASSUME NEW ntw, IsNetwork(ntw), NEW o
    PROVE  About(Write(ntw), "SGTYPE_", o) = << >>
<1>1. Sequence(Write(ntw)) /\ ToSet(Write(ntw)) = UNION { ToSet(SectionsOf(ntw)[k]) : k \in 1 .. 18 }
    BY WrittenStatements
<1>2. \A k \in 1 .. 18 : SectionKind(k) # "SGTYPE_"
    BY DEF SectionKind, SectionOrder
<1>3. ASSUME NEW st \in ToSet(Write(ntw))
      PROVE  Kind(st) # "SGTYPE_"
    <2>1. PICK k \in 1 .. 18 : st \in ToSet(SectionsOf(ntw)[k])
        BY <1>1
    <2>2. OfKind(SectionsOf(ntw)[k], SectionKind(k))
        BY SectionsAreOfKind
    <2>3. Kind(st) = SectionKind(k)
        BY <2>1, <2>2 DEF OfKind
    <2> QED  BY <1>2, <2>3
<1> QED  BY <1>1, <1>3, AboutOther

(* Statements about objects of one type say nothing of another.             *)
LEMMA AboutPartOf ==
    ASSUME NEW part, NEW kind, NEW type, PartOf(part, kind, type), NEW kind2, NEW o, o[1] # type
    PROVE  About(part, kind2, o) = << >>
<1>1. Sequence(part) /\ \A st \in ToSet(part) : Owner(st) # o
    BY DEF PartOf
<1> QED  BY <1>1, AboutOther

(* Of an object only the part for objects of its type says something.       *)
LEMMA FiveAbout ==
    ASSUME NEW ntw, IsNetwork(ntw), NEW kind \in OfNetwork, NEW o
    PROVE  /\ o[1] = "network" => About(FiveParts(kind, ntw), kind, o) = About(NetworkPart(kind, ntw), kind, o)
           /\ o[1] = "node"    => About(FiveParts(kind, ntw), kind, o) = About(NodePart(kind, ntw), kind, o)
           /\ o[1] = "message" => About(FiveParts(kind, ntw), kind, o) = About(MessagePart(kind, ntw), kind, o)
           /\ o[1] = "signal"  => About(FiveParts(kind, ntw), kind, o) = About(SignalPart(kind, ntw), kind, o)
           /\ o[1] = "env"     => About(FiveParts(kind, ntw), kind, o) = About(EnvPart(kind, ntw), kind, o)
<1> DEFINE A == About(NetworkPart(kind, ntw), kind, o)
           B == About(NodePart(kind, ntw), kind, o)
           C == About(MessagePart(kind, ntw), kind, o)
           D == About(SignalPart(kind, ntw), kind, o)
           E == About(EnvPart(kind, ntw), kind, o)
           F == About(FiveParts(kind, ntw), kind, o)
<1>1. kind \in OfMessage /\ kind \in OfSignal /\ kind \in OfEnv
    BY DEF OfNetwork, OfMessage, OfSignal, OfEnv
<1>2. /\ PartOf(NetworkPart(kind, ntw), kind, "network") /\ PartOf(NodePart(kind, ntw), kind, "node")
      /\ PartOf(MessagePart(kind, ntw), kind, "message") /\ PartOf(SignalPart(kind, ntw), kind, "signal")
      /\ PartOf(EnvPart(kind, ntw), kind, "env")
    BY <1>1, PartsAre
<1>3. Sequence(A) /\ Sequence(B) /\ Sequence(C) /\ Sequence(D) /\ Sequence(E)
    BY <1>2, AboutSequence DEF PartOf
<1>4. /\ o[1] # "network" => A = << >>
      /\ o[1] # "node" => B = << >>
      /\ o[1] # "message" => C = << >>
      /\ o[1] # "signal" => D = << >>
      /\ o[1] # "env" => E = << >>
    BY <1>2, AboutPartOf
<1>5. F = A \o B \o C \o D \o E
    BY FivePartsAre
<1> HIDE DEF A, B, C, D, E, F
<1>6. << >> \o << >> = << >> /\ \A s : Sequence(s) => s \o << >> = s /\ << >> \o s = s
    BY ConcatEmpty, SequenceEmpty
<1>7. o[1] = "network" => F = A
    <2> HAVE o[1] = "network"
    <2>1. B = << >> /\ C = << >> /\ D = << >> /\ E = << >>
        BY <1>4
    <2> QED  BY <2>1, <1>3, <1>5, <1>6
<1>8. o[1] = "node" => F = B
    <2> HAVE o[1] = "node"
    <2>1. A = << >> /\ C = << >> /\ D = << >> /\ E = << >>
        BY <1>4
    <2> QED  BY <2>1, <1>3, <1>5, <1>6
<1>9. o[1] = "message" => F = C
    <2> HAVE o[1] = "message"
    <2>1. A = << >> /\ B = << >> /\ D = << >> /\ E = << >>
        BY <1>4
    <2> QED  BY <2>1, <1>3, <1>5, <1>6
<1>10. o[1] = "signal" => F = D
    <2> HAVE o[1] = "signal"
    <2>1. A = << >> /\ B = << >> /\ C = << >> /\ E = << >>
        BY <1>4
    <2> QED  BY <2>1, <1>3, <1>5, <1>6
<1>11. o[1] = "env" => F = E
    <2> HAVE o[1] = "env"
    <2>1. A = << >> /\ B = << >> /\ C = << >> /\ D = << >>
        BY <1>4
    <2> QED  BY <2>1, <1>3, <1>5, <1>6
<1> QED  BY <1>7, <1>8, <1>9, <1>10, <1>11 DEF A, B, C, D, E, F

(* What the whole file says of an object is in that part.                   *)
LEMMA WrittenAbout ==
    ASSUME NEW ntw, IsNetwork(ntw), NEW kind, NEW o
    PROVE  /\ kind \in OfNetwork /\ o[1] = "network" =>
                About(Write(ntw), kind, o) = About(NetworkPart(kind, ntw), kind, o)
           /\ kind \in OfNetwork /\ o[1] = "node" =>
                About(Write(ntw), kind, o) = About(NodePart(kind, ntw), kind, o)
           /\ kind \in OfMessage /\ o[1] = "message" =>
                About(Write(ntw), kind, o) = About(MessagePart(kind, ntw), kind, o)
           /\ kind \in OfSignal /\ o[1] = "signal" =>
                About(Write(ntw), kind, o) = About(SignalPart(kind, ntw), kind, o)
           /\ kind \in OfEnv /\ o[1] = "env" =>
                About(Write(ntw), kind, o) = About(EnvPart(kind, ntw), kind, o)
<1> DEFINE W == Write(ntw)
<1>1. \A k \in 1 .. 18 : k # 5 /\ k # 10 =>
         About(W, SectionKind(k), o) = About(SectionsOf(ntw)[k], SectionKind(k), o)
    BY WrittenOf
<1>2. /\ About(W, "BO_TX_BU_", o) = About(MessagePart("BO_TX_BU_", ntw), "BO_TX_BU_", o)
      /\ About(W, "ENVVAR_DATA_", o) = About(EnvPart("ENVVAR_DATA_", ntw), "ENVVAR_DATA_", o)
      /\ About(W, "CM_", o) = About(FiveParts("CM_", ntw), "CM_", o)
      /\ About(W, "BA_", o) = About(FiveParts("BA_", ntw), "BA_", o)
      /\ About(W, "VAL_", o) = About(SectionsOf(ntw)[15], "VAL_", o)
      /\ About(W, "SIG_GROUP_", o) = About(MessagePart("SIG_GROUP_", ntw), "SIG_GROUP_", o)
      /\ About(W, "SIG_VALTYPE_", o) = About(SignalPart("SIG_VALTYPE_", ntw), "SIG_VALTYPE_", o)
      /\ About(W, "SG_MUL_VAL_", o) = About(SignalPart("SG_MUL_VAL_", ntw), "SG_MUL_VAL_", o)
    <2> HIDE DEF W
    <2>1. \A k \in {7, 9, 11, 14, 15, 16, 17, 18} :
             About(W, SectionKind(k), o) = About(SectionsOf(ntw)[k], SectionKind(k), o)
        BY <1>1
    <2>2. /\ About(W, SectionKind(7), o) = About(SectionsOf(ntw)[7], SectionKind(7), o)
          /\ About(W, SectionKind(9), o) = About(SectionsOf(ntw)[9], SectionKind(9), o)
          /\ About(W, SectionKind(11), o) = About(SectionsOf(ntw)[11], SectionKind(11), o)
          /\ About(W, SectionKind(14), o) = About(SectionsOf(ntw)[14], SectionKind(14), o)
          /\ About(W, SectionKind(15), o) = About(SectionsOf(ntw)[15], SectionKind(15), o)
          /\ About(W, SectionKind(16), o) = About(SectionsOf(ntw)[16], SectionKind(16), o)
          /\ About(W, SectionKind(17), o) = About(SectionsOf(ntw)[17], SectionKind(17), o)
          /\ About(W, SectionKind(18), o) = About(SectionsOf(ntw)[18], SectionKind(18), o)
        BY <2>1
    <2> QED  BY <2>2, SectionKinds, SectionAt
<1>3. /\ o[1] = "signal" => About(W, "VAL_", o) = About(SignalPart("VAL_", ntw), "VAL_", o)
      /\ o[1] = "env" => About(W, "VAL_", o) = About(EnvPart("VAL_", ntw), "VAL_", o)
    <2> DEFINE a == SignalPart("VAL_", ntw)
               b == EnvPart("VAL_", ntw)
    <2>1. PartOf(a, "VAL_", "signal") /\ PartOf(b, "VAL_", "env")
        BY PartsAre DEF OfSignal, OfEnv
    <2>2. SectionsOf(ntw)[15] = a \o b
        BY SectionAt
    <2> HIDE DEF a, b, W
    <2>3. About(W, "VAL_", o) = About(a, "VAL_", o) \o About(b, "VAL_", o)
        BY <1>2, <2>1, <2>2, AboutConcat DEF PartOf
    <2>4. Sequence(About(a, "VAL_", o)) /\ Sequence(About(b, "VAL_", o))
        BY <2>1, AboutSequence DEF PartOf
    <2>5. ASSUME o[1] = "signal"
          PROVE  About(W, "VAL_", o) = About(a, "VAL_", o)
        <3>1. About(b, "VAL_", o) = << >>
            BY <2>1, <2>5, AboutPartOf
        <3> QED  BY <2>3, <2>4, <3>1, ConcatEmpty
    <2>6. ASSUME o[1] = "env"
          PROVE  About(W, "VAL_", o) = About(b, "VAL_", o)
        <3>1. About(a, "VAL_", o) = << >>
            BY <2>1, <2>6, AboutPartOf
        <3> QED  BY <2>3, <2>4, <3>1, ConcatEmpty
    <2> QED  BY <2>5, <2>6 DEF a, b
<1> HIDE DEF W
<1>4. ASSUME kind \in OfNetwork
      PROVE  About(W, kind, o) = About(FiveParts(kind, ntw), kind, o)
    BY <1>2, <1>4 DEF OfNetwork
<1>5. ASSUME kind \in OfMessage, o[1] = "message"
      PROVE  About(W, kind, o) = About(MessagePart(kind, ntw), kind, o)
    <2>1. CASE kind \in OfNetwork
        BY <2>1, <1>4, <1>5, FiveAbout
    <2>2. CASE kind \notin OfNetwork
        BY <2>2, <1>2, <1>5 DEF OfNetwork, OfMessage
    <2> QED  BY <2>1, <2>2
<1>6. ASSUME kind \in OfSignal, o[1] = "signal"
      PROVE  About(W, kind, o) = About(SignalPart(kind, ntw), kind, o)
    <2>1. CASE kind \in OfNetwork
        BY <2>1, <1>4, <1>6, FiveAbout
    <2>2. CASE kind \notin OfNetwork
        BY <2>2, <1>2, <1>3, <1>6 DEF OfNetwork, OfSignal
    <2> QED  BY <2>1, <2>2
<1>7. ASSUME kind \in OfEnv, o[1] = "env"
      PROVE  About(W, kind, o) = About(EnvPart(kind, ntw), kind, o)
    <2>1. CASE kind \in OfNetwork
        BY <2>1, <1>4, <1>7, FiveAbout
    <2>2. CASE kind \notin OfNetwork
        BY <2>2, <1>2, <1>3, <1>7 DEF OfNetwork, OfEnv
    <2> QED  BY <2>1, <2>2
<1>8. ASSUME kind \in OfNetwork
      PROVE  /\ o[1] = "network" => About(W, kind, o) = About(NetworkPart(kind, ntw), kind, o)
             /\ o[1] = "node" => About(W, kind, o) = About(NodePart(kind, ntw), kind, o)
    BY <1>4, <1>8, FiveAbout
<1> QED  BY <1>5, <1>6, <1>7, <1>8 DEF W

-----------------------------------------------------------------------------
(* Objects of one name. *)

(* The elements of a list at the indices in C.                              *)
Twins(list, C) == FlattenSeq([ i \in DOMAIN list |-> Optional(i \in C, list[i]) ])
(* What f makes of them, one after the other.                               *)
GatheredAt(list, C, f) == FlattenSeq([ i \in DOMAIN list |-> IF i \in C THEN f[list[i]] ELSE << >> ])

(* Twins chooses.                                                           *)
LEMMA TwinsChosen ==
    ASSUME NEW list, Sequence(list), NEW C
    PROVE  Chosen(Twins(list, C), list, C, list)
<1> DEFINE t == Twins(list, C)
<1>1. t = FlattenSeq([ i \in DOMAIN list |-> Optional(i \in C, list[i]) ])
    BY DEF Twins
<1> HIDE DEF t
<1>2. Chosen(t, list, C, list)
    BY <1>1, ChosenAre
<1> QED  BY <1>2 DEF t

(* What twins are.                                                          *)
LEMMA TwinsAre ==
    ASSUME NEW list, Sequence(list), NEW C
    PROVE  /\ Sequence(Twins(list, C))
           /\ \A x \in ToSet(Twins(list, C)) : \E i \in DOMAIN list : i \in C /\ x = list[i]
           /\ \A i \in DOMAIN list : i \in C => list[i] \in ToSet(Twins(list, C))
<1> DEFINE t == Twins(list, C)
<1> HIDE DEF t
<1>1. Chosen(t, list, C, list)
    BY TwinsChosen DEF t
<1>2. /\ Sequence(t)
      /\ \A x \in ToSet(t) : \E i \in DOMAIN list : i \in C /\ x = list[i]
      /\ \A i \in DOMAIN list : i \in C => list[i] \in ToSet(t)
    BY <1>1 DEF Chosen
<1> QED  BY <1>2 DEF t

(* What is made of twins is made of the chosen objects.                     *)
LEMMA TwinsGathered ==
    ASSUME NEW list, Sequence(list), NEW C, NEW f, \A i \in DOMAIN list : Sequence(f[list[i]])
    PROVE  /\ Gathered(Twins(list, C), f) = GatheredAt(list, C, f)
           /\ Sequence(Gathered(Twins(list, C), f))
<1> DEFINE parts == [ i \in DOMAIN list |-> Optional(i \in C, list[i]) ]
<1>1. DOMAIN parts = DOMAIN list /\ parts = [ i \in DOMAIN list |-> parts[i] ]
    OBVIOUS
<1>2. \A i \in DOMAIN list :
        /\ Sequence(parts[i])
        /\ i \in C => parts[i] = << list[i] >>
        /\ i \notin C => parts[i] = << >>
        /\ \A j \in DOMAIN parts[i] : parts[i][j] = list[i]
    BY SequenceOne, SequenceEmpty DEF Optional
<1> HIDE DEF parts
<1>3. Sequences(parts)
    BY <1>1, <1>2, MadeOf DEF Sequences
<1>4. \A i \in DOMAIN parts : \A j \in DOMAIN parts[i] : Sequence(f[parts[i][j]])
    BY <1>1, <1>2
<1>5. /\ Gathered(FlattenSeq(parts), f) = FlattenSeq([ i \in DOMAIN parts |-> Gathered(parts[i], f) ])
      /\ Sequence(Gathered(FlattenSeq(parts), f))
    BY <1>3, <1>4, GatheredFlattened
<1>6. \A i \in DOMAIN list : Gathered(parts[i], f) = IF i \in C THEN f[list[i]] ELSE << >>
    <2>1. ASSUME NEW i \in DOMAIN list, i \in C
          PROVE  Gathered(parts[i], f) = f[list[i]]
        <3> DEFINE x == list[i]
        <3>1. parts[i] = << x >> /\ Sequence(f[x])
            BY <1>2, <2>1
        <3>2. Gathered(<< x >>, f) = FlattenSeq(<< f[x] >>)
            <4>1. [ j \in DOMAIN << x >> |-> f[<< x >>[j]] ] = << f[x] >>
                OBVIOUS
            <4> QED  BY <4>1 DEF Gathered
        <3> QED  BY <3>1, <3>2, FlattenOne
    <2>2. ASSUME NEW i \in DOMAIN list, i \notin C
          PROVE  Gathered(parts[i], f) = << >>
        BY <1>2, <2>2, GatheredNone
    <2> QED  BY <2>1, <2>2
<1>7. [ i \in DOMAIN parts |-> Gathered(parts[i], f) ]
        = [ i \in DOMAIN list |-> IF i \in C THEN f[list[i]] ELSE << >> ]
    BY <1>1, <1>6
<1>8. Twins(list, C) = FlattenSeq(parts)
    BY DEF Twins, parts
<1> QED  BY <1>5, <1>7, <1>8 DEF GatheredAt

(* What is said of the objects of one name is what their twins say.         *)
SaidFn(kind, X) == [ x \in X |-> Said(kind, x) ]

(* What the file says of a name is what the objects of that name say.       *)
LEMMA TwinsSaid ==
    ASSUME NEW kind, NEW xs, Sequence(xs), NEW os, DOMAIN os = DOMAIN xs, NEW o,
           \A i \in DOMAIN xs : Sequence(Says(kind, xs)[i]),
           NEW C, \A i \in DOMAIN xs : os[i] = o <=> i \in C
    PROVE  /\ SaidOf(os, Says(kind, xs), o) = Gathered(Twins(xs, C), SaidFn(kind, ToSet(xs)))
           /\ Sequence(SaidOf(os, Says(kind, xs), o))
<1> DEFINE f == SaidFn(kind, ToSet(xs))
<1>1. \A i \in DOMAIN xs : f[xs[i]] = Said(kind, xs[i]) /\ Says(kind, xs)[i] = Said(kind, xs[i])
    BY DEF SaidFn, Says, ToSet
<1> HIDE DEF f
<1>2. \A i \in DOMAIN xs : Sequence(f[xs[i]])
    BY <1>1
<1>3. Gathered(Twins(xs, C), f) = GatheredAt(xs, C, f) /\ Sequence(Gathered(Twins(xs, C), f))
    BY <1>2, TwinsGathered
<1>4. SaidOf(os, Says(kind, xs), o) = GatheredAt(xs, C, f)
    <2>1. \A i \in DOMAIN xs : (IF os[i] = o THEN Says(kind, xs)[i] ELSE << >>)
                                = (IF i \in C THEN f[xs[i]] ELSE << >>)
        BY <1>1
    <2>2. [ i \in DOMAIN os |-> IF os[i] = o THEN Says(kind, xs)[i] ELSE << >> ]
            = [ i \in DOMAIN xs |-> IF i \in C THEN f[xs[i]] ELSE << >> ]
        BY <2>1
    <2> QED  BY <2>2 DEF SaidOf, GatheredAt
<1> QED  BY <1>3, <1>4 DEF f

(* The signals of a name in the messages of an id. *)
WithName(xs, name) == { i \in DOMAIN xs : xs[i].name = name }
WithId(ms, id)  == { i \in DOMAIN ms : ms[i].id = id }
SignalTwinsFn(name, X) == [ m \in X |-> Twins(m.signals, WithName(m.signals, name)) ]
SignalTwins(ms, id, name) ==
    Gathered(Twins(ms, WithId(ms, id)), SignalTwinsFn(name, ToSet(ms)))
AllSignals(ms) == UNION { ToSet(ms[i].signals) : i \in DOMAIN ms }

(* What the twins of a signal are.                                          *)
LEMMA SignalTwinsAre ==
    ASSUME NEW ms, Sequence(ms), \A i \in DOMAIN ms : Sequence(ms[i].signals), NEW id, NEW name
    PROVE  /\ Sequence(SignalTwins(ms, id, name))
           /\ \A x \in ToSet(SignalTwins(ms, id, name)) :
                 \E i \in DOMAIN ms : \E j \in DOMAIN ms[i].signals :
                    /\ ms[i].id = id /\ ms[i].signals[j].name = name
                    /\ x = ms[i].signals[j]
<1> DEFINE h == SignalTwinsFn(name, ToSet(ms))
           C == WithId(ms, id)
           parts == [ i \in DOMAIN ms |-> IF i \in C THEN h[ms[i]] ELSE << >> ]
<1>1. \A i \in DOMAIN ms : h[ms[i]] = Twins(ms[i].signals, WithName(ms[i].signals, name))
    BY DEF SignalTwinsFn, ToSet
<1>2. \A i \in DOMAIN ms : Sequence(h[ms[i]])
    BY <1>1, TwinsAre
<1> HIDE DEF h
<1>3. SignalTwins(ms, id, name) = FlattenSeq(parts)
    <2>1. Gathered(Twins(ms, C), h) = GatheredAt(ms, C, h)
        <3> HIDE DEF C
        <3> QED  BY <1>2, TwinsGathered
    <2> QED  BY <2>1 DEF SignalTwins, GatheredAt, h
<1>4. DOMAIN parts = DOMAIN ms /\ parts = [ i \in DOMAIN ms |-> parts[i] ]
    OBVIOUS
<1>5. \A i \in DOMAIN ms : Sequence(parts[i])
    BY <1>2, SequenceEmpty
<1>6. ASSUME NEW i \in DOMAIN ms, NEW x \in ToSet(parts[i])
      PROVE  \E j \in DOMAIN ms[i].signals :
                ms[i].id = id /\ ms[i].signals[j].name = name /\ x = ms[i].signals[j]
    <2>1. i \in C
        BY <1>6, ToSetFew
    <2>2. x \in ToSet(Twins(ms[i].signals, WithName(ms[i].signals, name)))
        BY <1>1, <1>6, <2>1
    <2>3. \E j \in DOMAIN ms[i].signals : j \in WithName(ms[i].signals, name) /\ x = ms[i].signals[j]
        BY <2>2, TwinsAre
    <2> QED  BY <2>1, <2>3 DEF WithName, WithId
<1> HIDE DEF parts
<1>7. Sequences(parts)
    BY <1>4, <1>5, MadeOf DEF Sequences
<1>8. Sequence(FlattenSeq(parts)) /\ ToSet(FlattenSeq(parts)) = UNION { ToSet(parts[i]) : i \in DOMAIN parts }
    BY <1>7, FlattenLists, FlattenedToSet
<1> QED  BY <1>3, <1>4, <1>6, <1>8

(* What the file says of a signal is what the signals of that name in the   *)
(* messages of that id say.                                                 *)
LEMMA SignalTwinsSaid ==
    ASSUME NEW kind, NEW ms, Sequence(ms), \A i \in DOMAIN ms : Sequence(ms[i].signals),
           \A i \in DOMAIN ms : \A j \in DOMAIN ms[i].signals :
              Sequence(SignalsSay(kind, ms)[i][j]),
           NEW id, NEW name
    PROVE  /\ SaidIn(SignalOwners(ms), SignalsSay(kind, ms), << "signal", id, name >>)
                = Gathered(SignalTwins(ms, id, name), SaidFn(kind, AllSignals(ms)))
           /\ Sequence(Gathered(SignalTwins(ms, id, name), SaidFn(kind, AllSignals(ms))))
<1> DEFINE o == << "signal", id, name >>
           f == SaidFn(kind, AllSignals(ms))
           h == SignalTwinsFn(name, ToSet(ms))
           g == [ m \in ToSet(ms) |-> Gathered(h[m], f) ]
           C == WithId(ms, id)
           T == Twins(ms, C)
           oss == SignalOwners(ms)
           vss == SignalsSay(kind, ms)
<1>1. \A i \in DOMAIN ms : h[ms[i]] = Twins(ms[i].signals, WithName(ms[i].signals, name))
                            /\ g[ms[i]] = Gathered(h[ms[i]], f)
    BY DEF SignalTwinsFn, ToSet
<1>2. \A i \in DOMAIN ms : \A j \in DOMAIN ms[i].signals :
         /\ f[ms[i].signals[j]] = Said(kind, ms[i].signals[j])
         /\ vss[i][j] = Said(kind, ms[i].signals[j])
         /\ Sequence(f[ms[i].signals[j]])
    <2>1. \A i \in DOMAIN ms : \A j \in DOMAIN ms[i].signals : ms[i].signals[j] \in AllSignals(ms)
        BY DEF AllSignals, ToSet
    <2>2. \A i \in DOMAIN ms : \A j \in DOMAIN ms[i].signals :
             vss[i][j] = Said(kind, ms[i].signals[j])
        BY DEF SignalsSay, Says
    <2>3. \A i \in DOMAIN ms : \A j \in DOMAIN ms[i].signals :
             f[ms[i].signals[j]] = Said(kind, ms[i].signals[j])
        BY <2>1 DEF SaidFn
    <2> QED  BY <2>2, <2>3
<1>3. \A i \in DOMAIN ms :
         /\ DOMAIN oss[i] = DOMAIN ms[i].signals
         /\ \A j \in DOMAIN ms[i].signals : oss[i][j] = << "signal", ms[i].id, ms[i].signals[j].name >>
    BY SignalOwnersAre
<1>4. DOMAIN oss = DOMAIN ms
    BY SignalOwnersAre
<1>5. ASSUME NEW i \in DOMAIN ms
      PROVE  /\ Sequence(Gathered(h[ms[i]], f))
             /\ i \in C => SaidOf(oss[i], vss[i], o) = Gathered(h[ms[i]], f)
    <2> DEFINE xs == ms[i].signals
               D == WithName(xs, name)
    <2>0. Sequence(xs)
        OBVIOUS
    <2>1. \A j \in DOMAIN xs : Sequence(f[xs[j]])
        BY <1>2
    <2> HIDE DEF f
    <2>2. h[ms[i]] = Twins(xs, D)
        BY <1>1
    <2> HIDE DEF h, D
    <2>3. Gathered(Twins(xs, D), f) = GatheredAt(xs, D, f) /\ Sequence(Gathered(Twins(xs, D), f))
        <3> HIDE DEF xs
        <3> QED  BY <2>0, <2>1, TwinsGathered
    <2>4. ASSUME i \in C
          PROVE  SaidOf(oss[i], vss[i], o) = GatheredAt(xs, D, f)
        <3>0. ms[i].id = id
            BY <2>4 DEF WithId
        <3>1. ASSUME NEW j \in DOMAIN xs
              PROVE  (IF oss[i][j] = o THEN vss[i][j] ELSE << >>) = (IF j \in D THEN f[xs[j]] ELSE << >>)
            <4>1. oss[i][j] = << "signal", id, xs[j].name >>
                BY <1>3, <3>0
            <4>2. vss[i][j] = f[xs[j]]
                BY <1>2
            <4>3. j \in D <=> xs[j].name = name
                BY DEF D, WithName
            <4> HIDE DEF oss, vss, xs
            <4> QED  BY <4>1, <4>2, <4>3
        <3>2. DOMAIN oss[i] = DOMAIN xs
            BY <1>3
        <3> HIDE DEF oss, vss, xs, o
        <3>3. [ j \in DOMAIN oss[i] |-> IF oss[i][j] = o THEN vss[i][j] ELSE << >> ]
                = [ j \in DOMAIN xs |-> IF j \in D THEN f[xs[j]] ELSE << >> ]
            BY <3>1, <3>2
        <3> QED  BY <3>3 DEF SaidOf, GatheredAt
    <2> QED  BY <2>2, <2>3, <2>4
<1>6. ASSUME NEW i \in DOMAIN ms, i \notin C
      PROVE  SaidOf(oss[i], vss[i], o) = << >>
    <2> DEFINE parts == [ j \in DOMAIN oss[i] |-> IF oss[i][j] = o THEN vss[i][j] ELSE << >> ]
    <2>1. \A j \in DOMAIN parts : parts[j] = << >>
        <3>1. ms[i].id # id
            BY <1>6 DEF WithId
        <3>2. \A j \in DOMAIN oss[i] : oss[i][j] # o
            BY <3>1, <1>3
        <3> HIDE DEF oss, vss, o
        <3> QED  BY <3>2
    <2>2. Sequence(parts)
        <3>1. DOMAIN parts = DOMAIN oss[i] /\ parts = [ j \in DOMAIN oss[i] |-> parts[j] ]
            OBVIOUS
        <3>2. Sequence(oss[i])
            <4>1. Sequences(oss)
                BY SignalOwnersAre
            <4> HIDE DEF oss
            <4> QED  BY <4>1, <1>4 DEF Sequences
        <3> HIDE DEF parts
        <3> QED  BY <3>1, <3>2, MadeOf
    <2>3. FlattenSeq(parts) = << >>
        <3> HIDE DEF parts
        <3> QED  BY <2>1, <2>2, FlattenEmpty
    <2> QED  BY <2>3 DEF SaidOf
<1>7. SaidIn(oss, vss, o) = GatheredAt(ms, C, g)
    <2>1. \A i \in DOMAIN ms : SaidOf(oss[i], vss[i], o) = IF i \in C THEN g[ms[i]] ELSE << >>
        BY <1>1, <1>5, <1>6
    <2> HIDE DEF oss, vss, o, g, C
    <2>2. [ i \in DOMAIN oss |-> SaidOf(oss[i], vss[i], o) ]
            = [ i \in DOMAIN ms |-> IF i \in C THEN g[ms[i]] ELSE << >> ]
        BY <2>1, <1>4
    <2> QED  BY <2>2 DEF SaidIn, GatheredAt
<1>8. \A i \in DOMAIN ms : Sequence(g[ms[i]])
    BY <1>1, <1>5
<1>9. Gathered(T, g) = GatheredAt(ms, C, g)
    <2> HIDE DEF g, C
    <2> QED  BY <1>8, TwinsGathered
<1>10. Sequence(T) /\ \A k \in DOMAIN T : \E i \in DOMAIN ms : T[k] = ms[i]
    <2>1. Sequence(T) /\ \A x \in ToSet(T) : \E i \in DOMAIN ms : i \in C /\ x = ms[i]
        <3> HIDE DEF C
        <3> QED  BY TwinsAre
    <2> HIDE DEF T
    <2> QED  BY <2>1 DEF ToSet
<1> DEFINE seqs == [ k \in DOMAIN T |-> h[T[k]] ]
<1>11. \A k \in DOMAIN T : /\ Sequence(h[T[k]]) /\ g[T[k]] = Gathered(h[T[k]], f)
                           /\ \A j \in DOMAIN h[T[k]] : Sequence(f[h[T[k]][j]])
    <2> SUFFICES ASSUME NEW k \in DOMAIN T
                 PROVE  /\ Sequence(h[T[k]]) /\ g[T[k]] = Gathered(h[T[k]], f)
                        /\ \A j \in DOMAIN h[T[k]] : Sequence(f[h[T[k]][j]])
        OBVIOUS
    <2>1. PICK i \in DOMAIN ms : T[k] = ms[i]
        BY <1>10
    <2>2. h[T[k]] = Twins(ms[i].signals, WithName(ms[i].signals, name)) /\ g[T[k]] = Gathered(h[T[k]], f)
        BY <1>1, <2>1
    <2> HIDE DEF f, g, h, T
    <2> DEFINE xs == ms[i].signals
               D == WithName(xs, name)
               t == Twins(xs, D)
    <2>3. Sequence(xs) /\ \A j \in DOMAIN xs : Sequence(f[xs[j]])
        BY <1>2
    <2> HIDE DEF xs, D
    <2>4. Sequence(t) /\ \A x \in ToSet(t) : \E j \in DOMAIN xs : j \in D /\ x = xs[j]
        BY <2>3, TwinsAre
    <2>5. h[T[k]] = t
        BY <2>2 DEF xs, D
    <2> HIDE DEF t
    <2>6. \A j \in DOMAIN t : Sequence(f[t[j]])
        BY <2>3, <2>4 DEF ToSet
    <2> QED  BY <2>2, <2>4, <2>5, <2>6
<1> HIDE DEF f, g, h, T, C
<1>12. DOMAIN seqs = DOMAIN T /\ seqs = [ k \in DOMAIN T |-> seqs[k] ]
         /\ \A k \in DOMAIN T : seqs[k] = h[T[k]]
    OBVIOUS
<1> HIDE DEF seqs
<1>13. Sequences(seqs)
    BY <1>10, <1>11, <1>12, MadeOf DEF Sequences
<1>14. /\ Gathered(FlattenSeq(seqs), f) = FlattenSeq([ k \in DOMAIN seqs |-> Gathered(seqs[k], f) ])
       /\ Sequence(Gathered(FlattenSeq(seqs), f))
    <2>1. \A k \in DOMAIN seqs : \A j \in DOMAIN seqs[k] : Sequence(f[seqs[k][j]])
        BY <1>11, <1>12
    <2> QED  BY <1>13, <2>1, GatheredFlattened
<1>15. FlattenSeq([ k \in DOMAIN seqs |-> Gathered(seqs[k], f) ]) = Gathered(T, g)
    <2>1. [ k \in DOMAIN seqs |-> Gathered(seqs[k], f) ] = [ k \in DOMAIN T |-> g[T[k]] ]
        BY <1>11, <1>12
    <2> QED  BY <2>1 DEF Gathered
<1>16. FlattenSeq(seqs) = SignalTwins(ms, id, name)
    BY DEF SignalTwins, Gathered, seqs, T, C, h
<1> QED  BY <1>7, <1>9, <1>14, <1>15, <1>16 DEF f

(* The twins in DbcRoundTrip's definitions, for nodes and variables,        *)
LEMMA TwinsNamed ==
    ASSUME NEW xs, NEW name
    PROVE  Each(xs, LAMBDA x : Optional(x.name = name, x)) = Twins(xs, WithName(xs, name))
<1>1. \A i \in DOMAIN xs : (IF xs[i].name = name THEN << xs[i] >> ELSE << >>)
                            = (IF i \in WithName(xs, name) THEN << xs[i] >> ELSE << >>)
    BY DEF WithName
<1>2. [ i \in DOMAIN xs |-> IF xs[i].name = name THEN << xs[i] >> ELSE << >> ]
        = [ i \in DOMAIN xs |-> IF i \in WithName(xs, name) THEN << xs[i] >> ELSE << >> ]
    BY <1>1
<1> QED  BY <1>2 DEF Each, Twins, Optional

(* for messages,                                                            *)
LEMMA TwinsWithId ==
    ASSUME NEW ms, NEW id
    PROVE  Each(ms, LAMBDA x : Optional(x.id = id, x)) = Twins(ms, WithId(ms, id))
<1>1. \A i \in DOMAIN ms : (IF ms[i].id = id THEN << ms[i] >> ELSE << >>)
                            = (IF i \in WithId(ms, id) THEN << ms[i] >> ELSE << >>)
    BY DEF WithId
<1>2. [ i \in DOMAIN ms |-> IF ms[i].id = id THEN << ms[i] >> ELSE << >> ]
        = [ i \in DOMAIN ms |-> IF i \in WithId(ms, id) THEN << ms[i] >> ELSE << >> ]
    BY <1>1
<1> QED  BY <1>2 DEF Each, Twins, Optional

(* and for signals.                                                         *)
LEMMA TwinsOfSignal ==
    ASSUME NEW ms, Sequence(ms), NEW id, NEW name
    PROVE  Each(Twins(ms, WithId(ms, id)), LAMBDA m : Each(m.signals, LAMBDA x : Optional(x.name = name, x)))
             = SignalTwins(ms, id, name)
<1> DEFINE T == Twins(ms, WithId(ms, id))
           h == SignalTwinsFn(name, ToSet(ms))
<1>1. Sequence(T) /\ \A x \in ToSet(T) : x \in ToSet(ms)
    <2>1. Sequence(T) /\ \A x \in ToSet(T) : \E i \in DOMAIN ms : i \in WithId(ms, id) /\ x = ms[i]
        BY TwinsAre
    <2> HIDE DEF T
    <2> QED  BY <2>1 DEF ToSet
<1> HIDE DEF T
<1>2. \A m : Each(m.signals, LAMBDA x : Optional(x.name = name, x)) = Twins(m.signals, WithName(m.signals, name))
    BY TwinsNamed
<1>3. \A k \in DOMAIN T : h[T[k]] = Twins(T[k].signals, WithName(T[k].signals, name))
    BY <1>1 DEF SignalTwinsFn, ToSet
<1> HIDE DEF h
<1>4. [ k \in DOMAIN T |-> Each(T[k].signals, LAMBDA x : Optional(x.name = name, x)) ]
        = [ k \in DOMAIN T |-> h[T[k]] ]
    BY <1>2, <1>3
<1>5. Each(T, LAMBDA m : Each(m.signals, LAMBDA x : Optional(x.name = name, x)))
        = FlattenSeq([ k \in DOMAIN T |-> Each(T[k].signals, LAMBDA x : Optional(x.name = name, x)) ])
    BY DEF Each
<1> QED  BY <1>4, <1>5 DEF SignalTwins, Gathered, T, h

-----------------------------------------------------------------------------
(* What is made of what twins say.                                          *)
SaidBy(kind, T, X) == Gathered(T, SaidFn(kind, X))

(* It is what they say, one after the other.                                *)
LEMMA SaidByIs ==
    ASSUME NEW kind, NEW T, NEW X, ToSet(T) \subseteq X
    PROVE  SaidBy(kind, T, X) = FlattenSeq([ i \in DOMAIN T |-> Said(kind, T[i]) ])
<1>1. \A i \in DOMAIN T : SaidFn(kind, X)[T[i]] = Said(kind, T[i])
    BY DEF SaidFn, ToSet
<1>2. [ i \in DOMAIN T |-> SaidFn(kind, X)[T[i]] ] = [ i \in DOMAIN T |-> Said(kind, T[i]) ]
    BY <1>1
<1> QED  BY <1>2 DEF SaidBy, Gathered

(* The attributes read are those of all twins.                              *)
LEMMA PooledAttributesAre ==
    ASSUME NEW T, Sequence(T), NEW X, ToSet(T) \subseteq X, NEW type,
           \A i \in DOMAIN T : IsAttributes(T[i].attributes, type),
           \A i \in DOMAIN T : ObjectFree(T[i], Escaped)
    PROVE  [ i \in DOMAIN SaidBy("BA_", T, X) |->
               AttributeOf(type, SaidBy("BA_", T, X)[i]) ] = PooledAttributes(T)
<1> DEFINE seqs == [ k \in DOMAIN T |-> Said("BA_", T[k]) ]
           V == SaidBy("BA_", T, X)
           values == UNION { ToSet(seqs[k]) : k \in DOMAIN T }
           g == [ v \in values |-> AttributeOf(type, v) ]
<1>1. V = FlattenSeq(seqs)
    BY SaidByIs
<1>2. ASSUME NEW k \in DOMAIN T
      PROVE  /\ Sequence(seqs[k]) /\ DOMAIN seqs[k] = DOMAIN T[k].attributes
             /\ \A j \in DOMAIN seqs[k] : T[k].attributes[j] = AttributeOf(type, seqs[k][j])
    <2> DEFINE at == T[k].attributes
               s == [ j \in DOMAIN at |-> AttributeText(at[j]) ]
    <2>1. seqs[k] = s
        BY DEF Said
    <2>2. Sequence(at)
          /\ \A j \in DOMAIN at :
                /\ at[j] = [ type |-> type, name |-> at[j].name, value |-> at[j].value ]
                /\ at[j].name # Unreadable /\ at[j].value # Unreadable
        BY DEF IsAttributes
    <2>3. \A j \in DOMAIN at : AttributeText(at[j]) = << at[j].name, at[j].value >>
        BY AttributeTextIs, <2>2 DEF ObjectFree, AttributesFree
    <2> HIDE DEF at
    <2>4. DOMAIN s = DOMAIN at /\ s = [ j \in DOMAIN at |-> s[j] ]
          /\ \A j \in DOMAIN at : s[j] = << at[j].name, at[j].value >>
        BY <2>3
    <2> HIDE DEF s
    <2>5. Sequence(s)
        BY <2>2, <2>4, MadeOf
    <2>6. \A j \in DOMAIN at : at[j] = AttributeOf(type, s[j])
        BY <2>2, <2>4 DEF AttributeOf
    <2> QED  BY <2>1, <2>4, <2>5, <2>6 DEF at
<1>3. DOMAIN seqs = DOMAIN T /\ seqs = [ k \in DOMAIN T |-> seqs[k] ]
    OBVIOUS
<1> HIDE DEF seqs, V
<1>4. Sequences(seqs)
    BY <1>2, <1>3, MadeOf DEF Sequences
<1>5. ToSet(FlattenSeq(seqs)) = values
    BY <1>3, <1>4, FlattenedToSet
<1>6. [ i \in DOMAIN V |-> AttributeOf(type, V[i]) ] = [ i \in DOMAIN V |-> g[V[i]] ]
    <2>1. \A i \in DOMAIN V : V[i] \in values
        BY <1>1, <1>5 DEF ToSet
    <2> HIDE DEF values
    <2> QED  BY <2>1
<1>7. \A k \in DOMAIN T : \A j \in DOMAIN seqs[k] : g[seqs[k][j]] = AttributeOf(type, seqs[k][j])
    BY DEF ToSet
<1> HIDE DEF g
<1>8. [ i \in DOMAIN V |-> g[V[i]] ]
        = FlattenSeq([ k \in DOMAIN seqs |-> [ j \in DOMAIN seqs[k] |-> g[seqs[k][j]] ] ])
    BY <1>1, <1>4, MappedFlattened
<1>9. \A k \in DOMAIN T : [ j \in DOMAIN seqs[k] |-> g[seqs[k][j]] ] = T[k].attributes
    <2> SUFFICES ASSUME NEW k \in DOMAIN T
                 PROVE  [ j \in DOMAIN seqs[k] |-> g[seqs[k][j]] ] = T[k].attributes
        OBVIOUS
    <2> DEFINE at == T[k].attributes
               m == [ j \in DOMAIN seqs[k] |-> g[seqs[k][j]] ]
    <2>1. Sequence(at)
        BY DEF IsAttributes
    <2>0. \A j \in DOMAIN seqs[k] : g[seqs[k][j]] = at[j]
        <3>1. \A j \in DOMAIN seqs[k] : at[j] = AttributeOf(type, seqs[k][j])
            BY <1>2
        <3>2. \A j \in DOMAIN seqs[k] : g[seqs[k][j]] = AttributeOf(type, seqs[k][j])
            BY <1>7
        <3> HIDE DEF at
        <3> QED  BY <3>1, <3>2
    <2>2. DOMAIN m = DOMAIN seqs[k] /\ m = [ j \in DOMAIN seqs[k] |-> m[j] ]
          /\ \A j \in DOMAIN m : m[j] = at[j]
        <3> HIDE DEF at
        <3> QED  BY <2>0
    <2>3. DOMAIN seqs[k] = DOMAIN at /\ Sequence(seqs[k])
        BY <1>2
    <2> HIDE DEF at, m
    <2>4. Sequence(m)
        BY <2>2, <2>3, MadeOf
    <2>5. m = at
        BY <2>1, <2>2, <2>3, <2>4, SequenceEqual
    <2> QED  BY <2>5 DEF m, at
<1>10. [ k \in DOMAIN seqs |-> [ j \in DOMAIN seqs[k] |-> g[seqs[k][j]] ] ]
         = [ k \in DOMAIN T |-> T[k].attributes ]
    BY <1>3, <1>9
<1>11. PooledAttributes(T) = FlattenSeq([ k \in DOMAIN T |-> T[k].attributes ])
    BY DEF PooledAttributes, Each
<1> QED  BY <1>6, <1>8, <1>10, <1>11 DEF V

(* The comment read is that of the last twin with one.                      *)
LEMMA PooledTextsAre ==
    ASSUME NEW T, NEW X, ToSet(T) \subseteq X,
           \A i \in DOMAIN T : T[i].comment # Unreadable /\ ObjectFree(T[i], Escaped)
    PROVE  LastOr(SaidBy("CM_", T, X), "") = PooledComment(T)
<1>1. SaidBy("CM_", T, X) = FlattenSeq([ i \in DOMAIN T |-> Said("CM_", T[i]) ])
    BY SaidByIs
<1>2. \A i \in DOMAIN T : Said("CM_", T[i]) = Optional(T[i].comment # "", T[i].comment)
    <2> TAKE i \in DOMAIN T
    <2>1. Quoted(T[i].comment) = T[i].comment
        BY QuotedIs DEF ObjectFree
    <2> QED  BY <2>1 DEF Said
<1>3. [ i \in DOMAIN T |-> Said("CM_", T[i]) ]
        = [ i \in DOMAIN T |-> Optional(T[i].comment # "", T[i].comment) ]
    BY <1>2
<1>4. PooledComment(T)
        = LastOr(FlattenSeq([ i \in DOMAIN T |-> Optional(T[i].comment # "", T[i].comment) ]), "")
    BY DEF PooledComment, LastOf, Some, Each
<1> QED  BY <1>1, <1>3, <1>4

(* The descriptions read are those of the last twin with some.              *)
LEMMA PooledDescriptionsAre ==
    ASSUME NEW T, NEW X, ToSet(T) \subseteq X,
           \A i \in DOMAIN T : IsTexts(T[i].descriptions) /\ TextsFree(T[i], Escaped)
    PROVE  LastOr(SaidBy("VAL_", T, X), << >>) = PooledDescriptions(T)
<1>1. SaidBy("VAL_", T, X) = FlattenSeq([ i \in DOMAIN T |-> Said("VAL_", T[i]) ])
    BY SaidByIs
<1>2. \A i \in DOMAIN T : Said("VAL_", T[i]) = Optional(T[i].descriptions # << >>, T[i].descriptions)
    <2> TAKE i \in DOMAIN T
    <2>1. QuotedAll(T[i].descriptions) = T[i].descriptions
        BY QuotedAllIs DEF TextsFree
    <2> QED  BY <2>1 DEF Said
<1>3. [ i \in DOMAIN T |-> Said("VAL_", T[i]) ]
        = [ i \in DOMAIN T |-> Optional(T[i].descriptions # << >>, T[i].descriptions) ]
    BY <1>2
<1>4. PooledDescriptions(T)
        = LastOr(FlattenSeq([ i \in DOMAIN T |-> Optional(T[i].descriptions # << >>, T[i].descriptions) ]), << >>)
    BY DEF PooledDescriptions, LastOf, Some, Each
<1> QED  BY <1>1, <1>3, <1>4

(* The transmitters are those of the first twin with some.                  *)
LEMMA PooledTransmittersAre ==
    ASSUME NEW T, NEW X, ToSet(T) \subseteq X,
           \A i \in DOMAIN T : Sequence(T[i].transmitters) /\ Identifiers(T[i].transmitters)
    PROVE  FirstOr(SaidBy("BO_TX_BU_", T, X), << >>)
             = FirstOf(T, LAMBDA x : x.transmitters, << >>)
<1>1. SaidBy("BO_TX_BU_", T, X) = FlattenSeq([ i \in DOMAIN T |-> Said("BO_TX_BU_", T[i]) ])
    BY SaidByIs
<1>2. \A i \in DOMAIN T :
         Said("BO_TX_BU_", T[i]) = Optional(T[i].transmitters # << >>, T[i].transmitters)
    <2> TAKE i \in DOMAIN T
    <2>1. NameEach(T[i].transmitters) = T[i].transmitters
        BY NameEachIs
    <2> QED  BY <2>1 DEF Said
<1>3. [ i \in DOMAIN T |-> Said("BO_TX_BU_", T[i]) ]
        = [ i \in DOMAIN T |-> Optional(T[i].transmitters # << >>, T[i].transmitters) ]
    BY <1>2
<1> QED  BY <1>1, <1>3 DEF FirstOf, Some, Each

(* Groups, multiplexer values and data sizes are those of all.              *)
LEMMA PooledListsAre ==
    ASSUME NEW T, NEW X, ToSet(T) \subseteq X
    PROVE  /\ SaidBy("SIG_GROUP_", T, X) = Each(T, LAMBDA x : x.signal_groups)
           /\ SaidBy("SG_MUL_VAL_", T, X) = Each(T, LAMBDA x : x.multiplexer_values)
           /\ SaidBy("ENVVAR_DATA_", T, X)
                = Each(T, LAMBDA x : Optional(x.var_type = "Data", x.data_size))
<1>1. \A kind : SaidBy(kind, T, X) = FlattenSeq([ i \in DOMAIN T |-> Said(kind, T[i]) ])
    BY SaidByIs
<1>2. \A x : /\ Said("SIG_GROUP_", x) = x.signal_groups
             /\ Said("SG_MUL_VAL_", x) = x.multiplexer_values
             /\ Said("ENVVAR_DATA_", x) = Optional(x.var_type = "Data", x.data_size)
    BY DEF Said
<1>3. SaidBy("SIG_GROUP_", T, X) = FlattenSeq([ i \in DOMAIN T |-> T[i].signal_groups ])
    BY <1>1, <1>2
<1>4. SaidBy("SG_MUL_VAL_", T, X) = FlattenSeq([ i \in DOMAIN T |-> T[i].multiplexer_values ])
    BY <1>1, <1>2
<1>5. SaidBy("ENVVAR_DATA_", T, X)
        = FlattenSeq([ i \in DOMAIN T |-> Optional(T[i].var_type = "Data", T[i].data_size) ])
    BY <1>1, <1>2
<1> QED  BY <1>3, <1>4, <1>5 DEF Each

(* The extended type read is that of the first twin with a line of          *)
(* SIG_VALTYPE_.                                                            *)
LEMMA PooledTypesAre ==
    ASSUME NEW T, Sequence(T), NEW X, ToSet(T) \subseteq X,
           \A i \in DOMAIN T : T[i].extended_type \in {"Integer", "Float", "Double"},
           NEW code, code = FirstOr(SaidBy("SIG_VALTYPE_", T, X), 0)
    PROVE  (IF code = 1 THEN "Float" ELSE IF code = 2 THEN "Double" ELSE "Integer")
             = FirstOf(T, LAMBDA x : x.extended_type, "Integer")
<1> DEFINE seqs == [ k \in DOMAIN T |-> Optional(T[k].extended_type # "Integer", T[k].extended_type) ]
           g == [ t \in {"Float", "Double"} |-> IF t = "Float" THEN 1 ELSE 2 ]
           V == SaidBy("SIG_VALTYPE_", T, X)
           S == FlattenSeq(seqs)
<1>1. FirstOf(T, LAMBDA x : x.extended_type, "Integer") = FirstOr(S, "Integer")
    BY DEF FirstOf, Some, Each
<1>2. DOMAIN seqs = DOMAIN T /\ seqs = [ k \in DOMAIN T |-> seqs[k] ]
    OBVIOUS
<1>3. \A k \in DOMAIN T : /\ Sequence(seqs[k])
                          /\ \A j \in DOMAIN seqs[k] : seqs[k][j] \in {"Float", "Double"}
                          /\ Said("SIG_VALTYPE_", T[k]) = [ j \in DOMAIN seqs[k] |-> g[seqs[k][j]] ]
    <2> SUFFICES ASSUME NEW k \in DOMAIN T
                 PROVE  /\ Sequence(seqs[k])
                        /\ \A j \in DOMAIN seqs[k] : seqs[k][j] \in {"Float", "Double"}
                        /\ Said("SIG_VALTYPE_", T[k]) = [ j \in DOMAIN seqs[k] |-> g[seqs[k][j]] ]
        OBVIOUS
    <2>1. Said("SIG_VALTYPE_", T[k])
            = Optional(T[k].extended_type # "Integer", IF T[k].extended_type = "Float" THEN 1 ELSE 2)
        BY DEF Said
    <2>2. CASE T[k].extended_type = "Integer"
        <3>1. seqs[k] = << >> /\ Said("SIG_VALTYPE_", T[k]) = << >>
            BY <2>1, <2>2 DEF Optional
        <3>2. << >> = [ j \in DOMAIN << >> |-> g[<< >>[j]] ]
            OBVIOUS
        <3> QED  BY <3>1, <3>2, SequenceEmpty
    <2>3. CASE T[k].extended_type # "Integer"
        <3> DEFINE t == T[k].extended_type
        <3>1. t \in {"Float", "Double"} /\ seqs[k] = << t >>
              /\ Said("SIG_VALTYPE_", T[k]) = << g[t] >>
            BY <2>1, <2>3 DEF Optional
        <3> HIDE DEF seqs, g, t
        <3>2. << g[t] >> = [ j \in DOMAIN << t >> |-> g[<< t >>[j]] ]
            OBVIOUS
        <3>3. Sequence(<< t >>) /\ \A j \in DOMAIN << t >> : << t >>[j] = t
            BY SequenceOne
        <3> QED  BY <3>1, <3>2, <3>3
    <2> QED  BY <2>2, <2>3
<1>4. V = FlattenSeq([ k \in DOMAIN T |-> Said("SIG_VALTYPE_", T[k]) ])
    BY SaidByIs
<1> HIDE DEF seqs, V, g
<1>5. Sequences(seqs)
    BY <1>2, <1>3, MadeOf DEF Sequences
<1>6. [ j \in DOMAIN S |-> g[S[j]] ]
        = FlattenSeq([ k \in DOMAIN seqs |-> [ j \in DOMAIN seqs[k] |-> g[seqs[k][j]] ] ])
    BY <1>5, MappedFlattened
<1>7. [ k \in DOMAIN T |-> Said("SIG_VALTYPE_", T[k]) ]
        = [ k \in DOMAIN seqs |-> [ j \in DOMAIN seqs[k] |-> g[seqs[k][j]] ] ]
    BY <1>2, <1>3
<1>8. V = [ j \in DOMAIN S |-> g[S[j]] ]
    BY <1>4, <1>6, <1>7
<1>9. Sequence(S) /\ \A j \in DOMAIN S : S[j] \in {"Float", "Double"}
    <2>1. Sequence(S) /\ ToSet(S) = UNION { ToSet(seqs[k]) : k \in DOMAIN seqs }
        BY <1>5, FlattenLists, FlattenedToSet
    <2> HIDE DEF S
    <2>2. \A k \in DOMAIN seqs : ToSet(seqs[k]) \subseteq {"Float", "Double"}
        BY <1>2, <1>3 DEF ToSet
    <2>3. ToSet(S) \subseteq {"Float", "Double"}
        BY <2>1, <2>2
    <2> QED  BY <2>1, <2>3 DEF ToSet
<1> HIDE DEF S
<1>10. CASE S = << >>
    <2>1. DOMAIN V = {}
        BY <1>8, <1>10, SequenceEmpty
    <2>2. V = << >>
        BY <1>8, <1>10
    <2>3. code = 0
        BY <2>2 DEF FirstOr, V
    <2> QED  BY <1>1, <1>10, <2>3 DEF FirstOr
<1>11. CASE S # << >>
    <2>1. 1 \in DOMAIN S /\ Head(S) = S[1]
        <3>1. Len(S) \in Nat /\ DOMAIN S = 1 .. Len(S) /\ Len(S) # 0
            BY <1>9, <1>11, SequenceDomain, EmptyIs
        <3>2. 1 \in DOMAIN S
            BY <3>1
        <3>3. S[1] \in ToSet(S)
            BY <3>2 DEF ToSet
        <3> QED  BY <1>9, <3>2, <3>3, HeadIs
    <2>2. Sequence(V) /\ V[1] = g[S[1]] /\ DOMAIN V = DOMAIN S
        <3>1. DOMAIN V = DOMAIN S /\ V = [ j \in DOMAIN S |-> V[j] ] /\ V[1] = g[S[1]]
            BY <1>8, <2>1
        <3> QED  BY <3>1, <1>9, MadeOf
    <2>3. V # << >> /\ Head(V) = V[1]
        <3>1. V[1] \in ToSet(V)
            BY <2>1, <2>2 DEF ToSet
        <3> QED  BY <2>2, <3>1, HeadIs
    <2>4. code = g[S[1]]
        BY <2>2, <2>3 DEF FirstOr, V
    <2>5. S[1] \in {"Float", "Double"}
        BY <1>9, <2>1
    <2>6. FirstOr(S, "Integer") = S[1]
        BY <1>11, <2>1 DEF FirstOr
    <2> QED  BY <1>1, <2>4, <2>5, <2>6 DEF g
<1> QED  BY <1>10, <1>11

-----------------------------------------------------------------------------
(* What the written file says of each object.                               *)
NodeTwins(ntw, name) == Twins(ntw.nodes, WithName(ntw.nodes, name))
MessageTwins(ntw, id) == Twins(ntw.messages, WithId(ntw.messages, id))
EnvTwins(ntw, name) ==
    Twins(ntw.environment_variables, WithName(ntw.environment_variables, name))

(* What the file says of an object, as what is said of all of its name.     *)
LEMMA SaysOf ==
    ASSUME NEW ntw, IsNetwork(ntw), NEW o
    PROVE  /\ \A kind \in OfNetwork : o = << "network" >> =>
                About(Write(ntw), kind, o) = NetworkSays(kind, ntw)
           /\ \A kind \in OfNetwork : o[1] = "node" =>
                About(Write(ntw), kind, o) = SaidOf(Owners("node", ntw.nodes), Says(kind, ntw.nodes), o)
           /\ \A kind \in OfMessage : o[1] = "message" =>
                About(Write(ntw), kind, o)
                  = SaidOf(MessageOwners(ntw.messages), Says(kind, ntw.messages), o)
           /\ \A kind \in OfSignal : o[1] = "signal" =>
                About(Write(ntw), kind, o)
                  = SaidIn(SignalOwners(ntw.messages), SignalsSay(kind, ntw.messages), o)
           /\ \A kind \in OfEnv : o[1] = "env" =>
                About(Write(ntw), kind, o)
                  = SaidOf(Owners("env", ntw.environment_variables),
                           Says(kind, ntw.environment_variables), o)
<1>0. /\ Sequence(ntw.nodes) /\ Sequence(ntw.messages) /\ Sequence(ntw.environment_variables)
      /\ \A i \in DOMAIN ntw.messages : Sequence(ntw.messages[i].signals)
    BY MessageSignals DEF IsNetwork
<1>1. ASSUME NEW kind \in OfNetwork, o = << "network" >>
      PROVE  About(Write(ntw), kind, o) = NetworkSays(kind, ntw)
    <2>1. About(Write(ntw), kind, o) = About(NetworkPart(kind, ntw), kind, o)
        BY <1>1, WrittenAbout
    <2>2. Sequence(NetworkSays(kind, ntw))
        BY ValuesAre
    <2>3. About(Lines(kind, o, NetworkSays(kind, ntw)), kind, o) = NetworkSays(kind, ntw)
        BY <2>2, AboutLines
    <2> QED  BY <1>1, <2>1, <2>3 DEF NetworkPart
<1>2. ASSUME NEW kind \in OfNetwork, o[1] = "node"
      PROVE  About(Write(ntw), kind, o) = SaidOf(Owners("node", ntw.nodes), Says(kind, ntw.nodes), o)
    <2>1. About(Write(ntw), kind, o) = About(NodePart(kind, ntw), kind, o)
        BY <1>2, WrittenAbout
    <2>2. Sequence(Owners("node", ntw.nodes)) /\ DOMAIN Owners("node", ntw.nodes) = DOMAIN ntw.nodes
        BY <1>0, OwnersAre
    <2>3. \A i \in DOMAIN ntw.nodes : Sequence(Says(kind, ntw.nodes)[i])
        BY ValuesAre
    <2> QED  BY <2>1, <2>2, <2>3, AboutObjects DEF NodePart
<1>3. ASSUME NEW kind \in OfMessage, o[1] = "message"
      PROVE  About(Write(ntw), kind, o) = SaidOf(MessageOwners(ntw.messages), Says(kind, ntw.messages), o)
    <2>1. About(Write(ntw), kind, o) = About(MessagePart(kind, ntw), kind, o)
        BY <1>3, WrittenAbout
    <2>2. Sequence(MessageOwners(ntw.messages)) /\ DOMAIN MessageOwners(ntw.messages) = DOMAIN ntw.messages
        BY <1>0, OwnersAre
    <2>3. \A i \in DOMAIN ntw.messages : Sequence(Says(kind, ntw.messages)[i])
        BY ValuesAre
    <2> QED  BY <2>1, <2>2, <2>3, AboutObjects DEF MessagePart
<1>4. ASSUME NEW kind \in OfSignal, o[1] = "signal"
      PROVE  About(Write(ntw), kind, o)
               = SaidIn(SignalOwners(ntw.messages), SignalsSay(kind, ntw.messages), o)
    <2>1. About(Write(ntw), kind, o) = About(SignalPart(kind, ntw), kind, o)
        BY <1>4, WrittenAbout
    <2> DEFINE oss == SignalOwners(ntw.messages)
               vss == SignalsSay(kind, ntw.messages)
    <2>2. /\ Sequences(oss) /\ DOMAIN oss = DOMAIN ntw.messages
          /\ \A i \in DOMAIN ntw.messages : DOMAIN oss[i] = DOMAIN ntw.messages[i].signals
        BY <1>0, SignalOwnersAre
    <2>3. \A i \in DOMAIN ntw.messages : \A j \in DOMAIN ntw.messages[i].signals : Sequence(vss[i][j])
        BY ValuesAre
    <2>4. SignalPart(kind, ntw) = NestedLines(kind, oss, vss)
        BY DEF SignalPart
    <2> HIDE DEF oss, vss
    <2>5. \A i \in DOMAIN oss : \A j \in DOMAIN oss[i] : Sequence(vss[i][j])
        BY <2>2, <2>3
    <2>6. About(NestedLines(kind, oss, vss), kind, o) = SaidIn(oss, vss, o)
        BY <2>2, <2>5, AboutNested
    <2> QED  BY <2>1, <2>4, <2>6 DEF oss, vss
<1>5. ASSUME NEW kind \in OfEnv, o[1] = "env"
      PROVE  About(Write(ntw), kind, o)
               = SaidOf(Owners("env", ntw.environment_variables),
                        Says(kind, ntw.environment_variables), o)
    <2> DEFINE evs == ntw.environment_variables
    <2>1. About(Write(ntw), kind, o) = About(EnvPart(kind, ntw), kind, o)
        BY <1>5, WrittenAbout
    <2>2. Sequence(Owners("env", evs)) /\ DOMAIN Owners("env", evs) = DOMAIN evs
        BY <1>0, OwnersAre
    <2>3. \A i \in DOMAIN evs : Sequence(Says(kind, evs)[i])
        BY ValuesAre
    <2> QED  BY <2>1, <2>2, <2>3, AboutObjects DEF EnvPart
<1> QED  BY <1>1, <1>2, <1>3, <1>4, <1>5

(* That is what its twins say.                                              *)
LEMMA TwinsSpeak ==
    ASSUME NEW ntw, IsNetwork(ntw), NEW kind
    PROVE  /\ kind \in OfNetwork =>
                \A name : About(Write(ntw), kind, << "node", name >>)
                            = SaidBy(kind, NodeTwins(ntw, name), ToSet(ntw.nodes))
           /\ kind \in OfMessage =>
                \A id : About(Write(ntw), kind, << "message", id >>)
                          = SaidBy(kind, MessageTwins(ntw, id), ToSet(ntw.messages))
           /\ kind \in OfSignal =>
                \A id, name : About(Write(ntw), kind, << "signal", id, name >>)
                          = SaidBy(kind, SignalTwins(ntw.messages, id, name), AllSignals(ntw.messages))
           /\ kind \in OfEnv =>
                \A name : About(Write(ntw), kind, << "env", name >>)
                            = SaidBy(kind, EnvTwins(ntw, name), ToSet(ntw.environment_variables))
<1>0. /\ Sequence(ntw.nodes) /\ Sequence(ntw.messages) /\ Sequence(ntw.environment_variables)
      /\ \A i \in DOMAIN ntw.messages : Sequence(ntw.messages[i].signals)
    BY MessageSignals DEF IsNetwork
<1>1. ASSUME kind \in OfNetwork, NEW name
      PROVE  About(Write(ntw), kind, << "node", name >>)
               = SaidBy(kind, NodeTwins(ntw, name), ToSet(ntw.nodes))
    <2> DEFINE o == << "node", name >>
               xs == ntw.nodes
               os == Owners("node", xs)
               C == WithName(xs, name)
    <2>1. About(Write(ntw), kind, o) = SaidOf(os, Says(kind, xs), o)
        BY <1>1, SaysOf
    <2>2. DOMAIN os = DOMAIN xs
        BY <1>0, OwnersAre
    <2>3. \A i \in DOMAIN xs : Sequence(Says(kind, xs)[i])
        BY <1>1, ValuesAre
    <2>4. \A i \in DOMAIN xs : os[i] = o <=> i \in C
        BY DEF Owners, WithName
    <2>5. Sequence(xs)
        BY <1>0
    <2> HIDE DEF xs, os, o, C
    <2>6. SaidOf(os, Says(kind, xs), o) = Gathered(Twins(xs, C), SaidFn(kind, ToSet(xs)))
        BY <2>2, <2>3, <2>4, <2>5, TwinsSaid
    <2> QED  BY <2>1, <2>6 DEF SaidBy, NodeTwins, xs, o, C
<1>2. ASSUME kind \in OfMessage, NEW id
      PROVE  About(Write(ntw), kind, << "message", id >>)
               = SaidBy(kind, MessageTwins(ntw, id), ToSet(ntw.messages))
    <2> DEFINE o == << "message", id >>
               xs == ntw.messages
               os == MessageOwners(xs)
               C == WithId(xs, id)
    <2>1. About(Write(ntw), kind, o) = SaidOf(os, Says(kind, xs), o)
        BY <1>2, SaysOf
    <2>2. DOMAIN os = DOMAIN xs
        BY <1>0, OwnersAre
    <2>3. \A i \in DOMAIN xs : Sequence(Says(kind, xs)[i])
        BY <1>2, ValuesAre
    <2>4. \A i \in DOMAIN xs : os[i] = o <=> i \in C
        BY DEF MessageOwners, WithId
    <2>5. Sequence(xs)
        BY <1>0
    <2> HIDE DEF xs, os, o, C
    <2>6. SaidOf(os, Says(kind, xs), o) = Gathered(Twins(xs, C), SaidFn(kind, ToSet(xs)))
        BY <2>2, <2>3, <2>4, <2>5, TwinsSaid
    <2> QED  BY <2>1, <2>6 DEF SaidBy, MessageTwins, xs, o, C
<1>3. ASSUME kind \in OfSignal, NEW id, NEW name
      PROVE  About(Write(ntw), kind, << "signal", id, name >>)
               = SaidBy(kind, SignalTwins(ntw.messages, id, name), AllSignals(ntw.messages))
    <2> DEFINE o == << "signal", id, name >>
               ms == ntw.messages
    <2>1. About(Write(ntw), kind, o) = SaidIn(SignalOwners(ms), SignalsSay(kind, ms), o)
        BY <1>3, SaysOf
    <2>2. \A i \in DOMAIN ms : \A j \in DOMAIN ms[i].signals : Sequence(SignalsSay(kind, ms)[i][j])
        BY <1>3, ValuesAre
    <2>3. Sequence(ms) /\ \A i \in DOMAIN ms : Sequence(ms[i].signals)
        BY <1>0
    <2> HIDE DEF ms
    <2>4. SaidIn(SignalOwners(ms), SignalsSay(kind, ms), << "signal", id, name >>)
            = Gathered(SignalTwins(ms, id, name), SaidFn(kind, AllSignals(ms)))
        BY <2>2, <2>3, SignalTwinsSaid
    <2> QED  BY <2>1, <2>4 DEF SaidBy, ms
<1>4. ASSUME kind \in OfEnv, NEW name
      PROVE  About(Write(ntw), kind, << "env", name >>)
               = SaidBy(kind, EnvTwins(ntw, name), ToSet(ntw.environment_variables))
    <2> DEFINE o == << "env", name >>
               xs == ntw.environment_variables
               os == Owners("env", xs)
               C == WithName(xs, name)
    <2>1. About(Write(ntw), kind, o) = SaidOf(os, Says(kind, xs), o)
        BY <1>4, SaysOf
    <2>2. DOMAIN os = DOMAIN xs
        BY <1>0, OwnersAre
    <2>3. \A i \in DOMAIN xs : Sequence(Says(kind, xs)[i])
        BY <1>4, ValuesAre
    <2>4. \A i \in DOMAIN xs : os[i] = o <=> i \in C
        BY DEF Owners, WithName
    <2>5. Sequence(xs)
        BY <1>0
    <2> HIDE DEF xs, os, o, C
    <2>6. SaidOf(os, Says(kind, xs), o) = Gathered(Twins(xs, C), SaidFn(kind, ToSet(xs)))
        BY <2>2, <2>3, <2>4, <2>5, TwinsSaid
    <2> QED  BY <2>1, <2>6 DEF SaidBy, EnvTwins, xs, o, C
<1> QED  BY <1>1, <1>2, <1>3, <1>4

-----------------------------------------------------------------------------
(* Reading the objects back. *)

(* A record with some of its fields replaced.                               *)
NodeWith(n, a, c) == [ n EXCEPT !.attributes = a, !.comment = c ]
SignalWith(s, a, c, d, e, v) ==
    [ s EXCEPT !.attributes = a, !.comment = c, !.descriptions = d, !.extended_type = e,
               !.multiplexer_values = v ]
MessageWith(m, a, c, t, g, l) ==
    [ m EXCEPT !.attributes = a, !.comment = c, !.transmitters = t, !.signal_groups = g,
               !.signals = l ]
EnvVarWith(ev, a, c, d, t, z) ==
    [ ev EXCEPT !.attributes = a, !.comment = c, !.descriptions = d, !.var_type = t,
                !.data_size = z ]

(* Replacing fields of a node.                                              *)
LEMMA NodeUpdated ==
    ASSUME NEW n, NEW n1, NEW n2, NEW n3,
           NEW a, NEW c,
           n = [ name |-> n1, comment |-> n2, attributes |-> n3 ]
    PROVE  NodeWith(n, a, c)
             = [ name |-> n1, comment |-> c, attributes |-> a ]
<1> DEFINE r1 == [ n EXCEPT !.attributes = a ]
<1>1. r1 = [ name |-> n1, comment |-> n2, attributes |-> a ]
    OBVIOUS
<1>2. [ n EXCEPT !.attributes = a, !.comment = c ]
        = [ r1 EXCEPT !.comment = c ]
    OBVIOUS
<1> HIDE DEF r1
<1> DEFINE r2 == [ r1 EXCEPT !.comment = c ]
<1>3. r2 = [ name |-> n1, comment |-> c, attributes |-> a ]
    BY <1>1
<1> QED  BY <1>2, <1>3 DEF NodeWith

(* Replacing fields of a signal.                                            *)
LEMMA SignalUpdated ==
    ASSUME NEW s, NEW s1, NEW s2, NEW s3, NEW s4, NEW s5, NEW s6, NEW s7, NEW s8, NEW s9, NEW
           s10, NEW s11,
           NEW a, NEW c, NEW d, NEW e, NEW v,
           s = [ name |-> s1, multiplexer |-> s2, switch_value |-> s3, head |-> s4, unit |-> s5,
                 receivers |-> s6, attributes |-> s7, descriptions |-> s8, comment |-> s9,
                 extended_type |-> s10, multiplexer_values |-> s11 ]
    PROVE  SignalWith(s, a, c, d, e, v)
             = [ name |-> s1, multiplexer |-> s2, switch_value |-> s3, head |-> s4, unit |-> s5,
                 receivers |-> s6, attributes |-> a, descriptions |-> d, comment |-> c,
                 extended_type |-> e, multiplexer_values |-> v ]
<1> DEFINE r1 == [ s EXCEPT !.attributes = a ]
<1>1. r1 = [ name |-> s1, multiplexer |-> s2, switch_value |-> s3, head |-> s4, unit |-> s5,
             receivers |-> s6, attributes |-> a, descriptions |-> s8, comment |-> s9,
             extended_type |-> s10, multiplexer_values |-> s11 ]
    OBVIOUS
<1>2. [ s EXCEPT !.attributes = a, !.comment = c, !.descriptions = d, !.extended_type = e,
                 !.multiplexer_values = v ]
        = [ r1 EXCEPT !.comment = c, !.descriptions = d, !.extended_type = e,
                      !.multiplexer_values = v ]
    OBVIOUS
<1> HIDE DEF r1
<1> DEFINE r2 == [ r1 EXCEPT !.comment = c ]
<1>3. r2 = [ name |-> s1, multiplexer |-> s2, switch_value |-> s3, head |-> s4, unit |-> s5,
             receivers |-> s6, attributes |-> a, descriptions |-> s8, comment |-> c,
             extended_type |-> s10, multiplexer_values |-> s11 ]
    BY <1>1
<1>4. [ r1 EXCEPT !.comment = c, !.descriptions = d, !.extended_type = e, !.multiplexer_values =
                  v ]
        = [ r2 EXCEPT !.descriptions = d, !.extended_type = e, !.multiplexer_values = v ]
    OBVIOUS
<1> HIDE DEF r2
<1> DEFINE r3 == [ r2 EXCEPT !.descriptions = d ]
<1>5. r3 = [ name |-> s1, multiplexer |-> s2, switch_value |-> s3, head |-> s4, unit |-> s5,
             receivers |-> s6, attributes |-> a, descriptions |-> d, comment |-> c,
             extended_type |-> s10, multiplexer_values |-> s11 ]
    BY <1>3
<1>6. [ r2 EXCEPT !.descriptions = d, !.extended_type = e, !.multiplexer_values = v ]
        = [ r3 EXCEPT !.extended_type = e, !.multiplexer_values = v ]
    OBVIOUS
<1> HIDE DEF r3
<1> DEFINE r4 == [ r3 EXCEPT !.extended_type = e ]
<1>7. r4 = [ name |-> s1, multiplexer |-> s2, switch_value |-> s3, head |-> s4, unit |-> s5,
             receivers |-> s6, attributes |-> a, descriptions |-> d, comment |-> c,
             extended_type |-> e, multiplexer_values |-> s11 ]
    BY <1>5
<1>8. [ r3 EXCEPT !.extended_type = e, !.multiplexer_values = v ]
        = [ r4 EXCEPT !.multiplexer_values = v ]
    OBVIOUS
<1> HIDE DEF r4
<1> DEFINE r5 == [ r4 EXCEPT !.multiplexer_values = v ]
<1>9. r5 = [ name |-> s1, multiplexer |-> s2, switch_value |-> s3, head |-> s4, unit |-> s5,
             receivers |-> s6, attributes |-> a, descriptions |-> d, comment |-> c,
             extended_type |-> e, multiplexer_values |-> v ]
    BY <1>7
<1> QED  BY <1>2, <1>4, <1>6, <1>8, <1>9 DEF SignalWith

(* Replacing fields of a message.                                           *)
LEMMA MessageUpdated ==
    ASSUME NEW m, NEW m1, NEW m2, NEW m3, NEW m4, NEW m5, NEW m6, NEW m7, NEW m8, NEW m9,
           NEW a, NEW c, NEW t, NEW g, NEW l,
           m = [ id |-> m1, name |-> m2, transmitter |-> m3, size |-> m4, signals |-> m5,
                 transmitters |-> m6, attributes |-> m7, comment |-> m8, signal_groups |-> m9 ]
    PROVE  MessageWith(m, a, c, t, g, l)
             = [ id |-> m1, name |-> m2, transmitter |-> m3, size |-> m4, signals |-> l,
                 transmitters |-> t, attributes |-> a, comment |-> c, signal_groups |-> g ]
<1> DEFINE r1 == [ m EXCEPT !.attributes = a ]
<1>1. r1 = [ id |-> m1, name |-> m2, transmitter |-> m3, size |-> m4, signals |-> m5,
             transmitters |-> m6, attributes |-> a, comment |-> m8, signal_groups |-> m9 ]
    OBVIOUS
<1>2. [ m EXCEPT !.attributes = a, !.comment = c, !.transmitters = t, !.signal_groups = g,
                 !.signals = l ]
        = [ r1 EXCEPT !.comment = c, !.transmitters = t, !.signal_groups = g, !.signals = l ]
    OBVIOUS
<1> HIDE DEF r1
<1> DEFINE r2 == [ r1 EXCEPT !.comment = c ]
<1>3. r2 = [ id |-> m1, name |-> m2, transmitter |-> m3, size |-> m4, signals |-> m5,
             transmitters |-> m6, attributes |-> a, comment |-> c, signal_groups |-> m9 ]
    BY <1>1
<1>4. [ r1 EXCEPT !.comment = c, !.transmitters = t, !.signal_groups = g, !.signals = l ]
        = [ r2 EXCEPT !.transmitters = t, !.signal_groups = g, !.signals = l ]
    OBVIOUS
<1> HIDE DEF r2
<1> DEFINE r3 == [ r2 EXCEPT !.transmitters = t ]
<1>5. r3 = [ id |-> m1, name |-> m2, transmitter |-> m3, size |-> m4, signals |-> m5,
             transmitters |-> t, attributes |-> a, comment |-> c, signal_groups |-> m9 ]
    BY <1>3
<1>6. [ r2 EXCEPT !.transmitters = t, !.signal_groups = g, !.signals = l ]
        = [ r3 EXCEPT !.signal_groups = g, !.signals = l ]
    OBVIOUS
<1> HIDE DEF r3
<1> DEFINE r4 == [ r3 EXCEPT !.signal_groups = g ]
<1>7. r4 = [ id |-> m1, name |-> m2, transmitter |-> m3, size |-> m4, signals |-> m5,
             transmitters |-> t, attributes |-> a, comment |-> c, signal_groups |-> g ]
    BY <1>5
<1>8. [ r3 EXCEPT !.signal_groups = g, !.signals = l ]
        = [ r4 EXCEPT !.signals = l ]
    OBVIOUS
<1> HIDE DEF r4
<1> DEFINE r5 == [ r4 EXCEPT !.signals = l ]
<1>9. r5 = [ id |-> m1, name |-> m2, transmitter |-> m3, size |-> m4, signals |-> l,
             transmitters |-> t, attributes |-> a, comment |-> c, signal_groups |-> g ]
    BY <1>7
<1> QED  BY <1>2, <1>4, <1>6, <1>8, <1>9 DEF MessageWith

(* Replacing fields of an environment variable.                             *)
LEMMA EnvVarUpdated ==
    ASSUME NEW ev, NEW ev1, NEW ev2, NEW ev3, NEW ev4, NEW ev5, NEW ev6, NEW ev7, NEW ev8,
           NEW ev9, NEW ev10, NEW ev11,
           NEW a, NEW c, NEW d, NEW t, NEW z,
           ev = [ name |-> ev1, head |-> ev2, maximum |-> ev3, unit |-> ev4, var_type |-> ev5,
                  data_size |-> ev6, access_type |-> ev7, access_nodes |-> ev8,
                  descriptions |-> ev9, attributes |-> ev10, comment |-> ev11 ]
    PROVE  EnvVarWith(ev, a, c, d, t, z)
             = [ name |-> ev1, head |-> ev2, maximum |-> ev3, unit |-> ev4, var_type |-> t,
                 data_size |-> z, access_type |-> ev7, access_nodes |-> ev8, descriptions |-> d,
                 attributes |-> a, comment |-> c ]
<1> DEFINE r1 == [ ev EXCEPT !.attributes = a ]
<1>1. r1 = [ name |-> ev1, head |-> ev2, maximum |-> ev3, unit |-> ev4, var_type |-> ev5,
             data_size |-> ev6, access_type |-> ev7, access_nodes |-> ev8, descriptions |-> ev9,
             attributes |-> a, comment |-> ev11 ]
    OBVIOUS
<1>2. [ ev EXCEPT !.attributes = a, !.comment = c, !.descriptions = d, !.var_type = t,
                  !.data_size = z ]
        = [ r1 EXCEPT !.comment = c, !.descriptions = d, !.var_type = t, !.data_size = z ]
    OBVIOUS
<1> HIDE DEF r1
<1> DEFINE r2 == [ r1 EXCEPT !.comment = c ]
<1>3. r2 = [ name |-> ev1, head |-> ev2, maximum |-> ev3, unit |-> ev4, var_type |-> ev5,
             data_size |-> ev6, access_type |-> ev7, access_nodes |-> ev8, descriptions |-> ev9,
             attributes |-> a, comment |-> c ]
    BY <1>1
<1>4. [ r1 EXCEPT !.comment = c, !.descriptions = d, !.var_type = t, !.data_size = z ]
        = [ r2 EXCEPT !.descriptions = d, !.var_type = t, !.data_size = z ]
    OBVIOUS
<1> HIDE DEF r2
<1> DEFINE r3 == [ r2 EXCEPT !.descriptions = d ]
<1>5. r3 = [ name |-> ev1, head |-> ev2, maximum |-> ev3, unit |-> ev4, var_type |-> ev5,
             data_size |-> ev6, access_type |-> ev7, access_nodes |-> ev8, descriptions |-> d,
             attributes |-> a, comment |-> c ]
    BY <1>3
<1>6. [ r2 EXCEPT !.descriptions = d, !.var_type = t, !.data_size = z ]
        = [ r3 EXCEPT !.var_type = t, !.data_size = z ]
    OBVIOUS
<1> HIDE DEF r3
<1> DEFINE r4 == [ r3 EXCEPT !.var_type = t ]
<1>7. r4 = [ name |-> ev1, head |-> ev2, maximum |-> ev3, unit |-> ev4, var_type |-> t,
             data_size |-> ev6, access_type |-> ev7, access_nodes |-> ev8, descriptions |-> d,
             attributes |-> a, comment |-> c ]
    BY <1>5
<1>8. [ r3 EXCEPT !.var_type = t, !.data_size = z ]
        = [ r4 EXCEPT !.data_size = z ]
    OBVIOUS
<1> HIDE DEF r4
<1> DEFINE r5 == [ r4 EXCEPT !.data_size = z ]
<1>9. r5 = [ name |-> ev1, head |-> ev2, maximum |-> ev3, unit |-> ev4, var_type |-> t,
             data_size |-> z, access_type |-> ev7, access_nodes |-> ev8, descriptions |-> d,
             attributes |-> a, comment |-> c ]
    BY <1>7
<1> QED  BY <1>2, <1>4, <1>6, <1>8, <1>9 DEF EnvVarWith

(* The attributes and the comment read for an object are those of its       *)
(* twins.                                                                   *)
LEMMA ThreeTexts ==
    ASSUME NEW W, NEW o, NEW T, Sequence(T), NEW X, ToSet(T) \subseteq X,
           About(W, "BA_", o) = SaidBy("BA_", T, X),
           About(W, "CM_", o) = SaidBy("CM_", T, X),
           \A x \in ToSet(T) : /\ IsAttributes(x.attributes, ObjectType(o))
                               /\ x.comment # Unreadable /\ ObjectFree(x, Escaped)
    PROVE  /\ Attributes(W, o) = PooledAttributes(T)
           /\ Comment(W, o) = PooledComment(T)
<1>1. \A i \in DOMAIN T : /\ IsAttributes(T[i].attributes, ObjectType(o))
                          /\ T[i].comment # Unreadable /\ ObjectFree(T[i], Escaped)
    BY DEF ToSet
<1>2. Attributes(W, o)
        = [ i \in DOMAIN SaidBy("BA_", T, X) |->
              AttributeOf(ObjectType(o), SaidBy("BA_", T, X)[i]) ]
    BY DEF Attributes
<1>3. Comment(W, o) = LastOr(SaidBy("CM_", T, X), "")
    BY DEF Comment
<1>4. Attributes(W, o) = PooledAttributes(T)
    BY <1>1, <1>2, PooledAttributesAre
<1>5. Comment(W, o) = PooledComment(T)
    BY <1>1, <1>3, PooledTextsAre
<1> QED  BY <1>4, <1>5

(* The twins of a node are nodes of the network.                            *)
LEMMA NodeTwinsAre ==
    ASSUME NEW ntw, IsNetwork(ntw), NEW name
    PROVE  /\ Sequence(NodeTwins(ntw, name)) /\ ToSet(NodeTwins(ntw, name)) \subseteq ToSet(ntw.nodes)
           /\ \A x \in ToSet(NodeTwins(ntw, name)) :
                 \E i \in DOMAIN ntw.nodes : x = ntw.nodes[i]
<1>1. Sequence(ntw.nodes)
    BY DEF IsNetwork
<1>2. /\ Sequence(NodeTwins(ntw, name))
      /\ \A x \in ToSet(NodeTwins(ntw, name)) :
            \E i \in DOMAIN ntw.nodes : i \in WithName(ntw.nodes, name) /\ x = ntw.nodes[i]
    BY <1>1, TwinsAre DEF NodeTwins
<1>3. \A x \in ToSet(NodeTwins(ntw, name)) : x \in ToSet(ntw.nodes)
    BY <1>2 DEF ToSet
<1> QED  BY <1>2, <1>3

(* The twins of a message are messages of the network.                      *)
LEMMA MessageTwinsAre ==
    ASSUME NEW ntw, IsNetwork(ntw), NEW id
    PROVE  /\ Sequence(MessageTwins(ntw, id)) /\ ToSet(MessageTwins(ntw, id)) \subseteq ToSet(ntw.messages)
           /\ \A x \in ToSet(MessageTwins(ntw, id)) :
                 \E i \in DOMAIN ntw.messages : x = ntw.messages[i]
<1>1. Sequence(ntw.messages)
    BY DEF IsNetwork
<1>2. /\ Sequence(MessageTwins(ntw, id))
      /\ \A x \in ToSet(MessageTwins(ntw, id)) :
            \E i \in DOMAIN ntw.messages : i \in WithId(ntw.messages, id) /\ x = ntw.messages[i]
    BY <1>1, TwinsAre DEF MessageTwins
<1>3. \A x \in ToSet(MessageTwins(ntw, id)) : x \in ToSet(ntw.messages)
    BY <1>2 DEF ToSet
<1> QED  BY <1>2, <1>3

(* The twins of a variable are variables of the network, itself among them. *)
LEMMA EnvTwinsAre ==
    ASSUME NEW ntw, IsNetwork(ntw), NEW name
    PROVE  /\ Sequence(EnvTwins(ntw, name))
           /\ ToSet(EnvTwins(ntw, name)) \subseteq ToSet(ntw.environment_variables)
           /\ \A x \in ToSet(EnvTwins(ntw, name)) :
                 \E i \in DOMAIN ntw.environment_variables :
                    x = ntw.environment_variables[i]
           /\ \A i \in DOMAIN ntw.environment_variables :
                 ntw.environment_variables[i].name = name =>
                    ntw.environment_variables[i] \in ToSet(EnvTwins(ntw, name))
<1> DEFINE evs == ntw.environment_variables
<1>1. Sequence(evs)
    BY DEF IsNetwork
<1>2. /\ Sequence(EnvTwins(ntw, name))
      /\ \A x \in ToSet(EnvTwins(ntw, name)) :
            \E i \in DOMAIN evs : i \in WithName(evs, name) /\ x = evs[i]
      /\ \A i \in DOMAIN evs : i \in WithName(evs, name) => evs[i] \in ToSet(EnvTwins(ntw, name))
    BY <1>1, TwinsAre DEF EnvTwins
<1>3. \A x \in ToSet(EnvTwins(ntw, name)) : x \in ToSet(evs)
    BY <1>2 DEF ToSet
<1>4. \A i \in DOMAIN evs : evs[i].name = name => i \in WithName(evs, name)
    BY DEF WithName
<1> QED  BY <1>2, <1>3, <1>4

(* A node is read back with what its twins have.                            *)
LEMMA NodeReloads ==
    ASSUME NEW ntw, IsNetwork(ntw), NetworkFree(ntw, Escaped), NEW i \in DOMAIN ntw.nodes
    PROVE  LoadNode(Write(ntw), ntw.nodes[i].name) = PooledNode(ntw, ntw.nodes[i])
<1> DEFINE n == ntw.nodes[i]
           o == << "node", n.name >>
           T == NodeTwins(ntw, n.name)
           X == ToSet(ntw.nodes)
           W == Write(ntw)
<1>1. Sequence(T) /\ ToSet(T) \subseteq X /\ \A x \in ToSet(T) : \E k \in DOMAIN ntw.nodes : x = ntw.nodes[k]
    BY NodeTwinsAre
<1>2. \A k \in DOMAIN ntw.nodes : IsNode(ntw.nodes[k]) /\ ObjectFree(ntw.nodes[k], Escaped)
    BY DEF IsNetwork, NetworkFree
<1>3. \A x \in ToSet(T) : IsNode(x) /\ ObjectFree(x, Escaped)
    BY <1>1, <1>2
<1>4. ObjectType(o) = "node"
    BY DEF ObjectType
<1>5. \A x \in ToSet(T) : /\ IsAttributes(x.attributes, ObjectType(o))
                          /\ x.comment # Unreadable /\ ObjectFree(x, Escaped)
    BY <1>3, <1>4 DEF IsNode
<1>6. About(W, "BA_", o) = SaidBy("BA_", T, X) /\ About(W, "CM_", o) = SaidBy("CM_", T, X)
    BY TwinsSpeak DEF OfNetwork
<1>7. PooledNode(ntw, n) = NodeWith(n, PooledAttributes(T), PooledComment(T))
    BY TwinsNamed DEF PooledNode, NodeTwins, NodeWith
<1>8. LoadNode(W, n.name) = [ name |-> n.name, comment |-> Comment(W, o), attributes |-> Attributes(W, o) ]
    BY DEF LoadNode
<1>9. n = [ name |-> n.name, comment |-> n.comment, attributes |-> n.attributes ]
    BY <1>2 DEF IsNode
<1> HIDE DEF T, X, W, o, n
<1>10. Attributes(W, o) = PooledAttributes(T) /\ Comment(W, o) = PooledComment(T)
    BY <1>1, <1>5, <1>6, ThreeTexts
<1> DEFINE a == PooledAttributes(T)
           c == PooledComment(T)
<1>11. NodeWith(n, a, c) = [ name |-> n.name, comment |-> c, attributes |-> a ]
    BY <1>9, NodeUpdated
<1> QED  BY <1>7, <1>8, <1>10, <1>11 DEF n, W

(* The twins of a signal are signals of the network, without escapes.       *)
LEMMA SignalTwinsFree ==
    ASSUME NEW ntw, IsNetwork(ntw), NetworkFree(ntw, Escaped), NEW id, NEW name
    PROVE  /\ Sequence(SignalTwins(ntw.messages, id, name))
           /\ ToSet(SignalTwins(ntw.messages, id, name)) \subseteq AllSignals(ntw.messages)
           /\ \A x \in ToSet(SignalTwins(ntw.messages, id, name)) :
                 IsSignal(x) /\ ObjectFree(x, Escaped) /\ TextsFree(x, Escaped)
<1> DEFINE ms == ntw.messages
           T == SignalTwins(ms, id, name)
<1>1. Sequence(ms) /\ \A i \in DOMAIN ms : IsMessage(ms[i])
    BY DEF IsNetwork
<1>2. /\ \A i \in DOMAIN ms : Sequence(ms[i].signals)
      /\ \A i \in DOMAIN ms : \A j \in DOMAIN ms[i].signals : IsSignal(ms[i].signals[j])
    BY <1>1, MessageSignals
<1>3. \A i \in DOMAIN ms : \A j \in DOMAIN ms[i].signals :
         ObjectFree(ms[i].signals[j], Escaped) /\ TextsFree(ms[i].signals[j], Escaped)
    BY DEF NetworkFree, MessageFree, SignalFree
<1> HIDE DEF ms
<1>4. /\ Sequence(T)
      /\ \A x \in ToSet(T) :
            \E i \in DOMAIN ms : \E j \in DOMAIN ms[i].signals :
               ms[i].id = id /\ ms[i].signals[j].name = name /\ x = ms[i].signals[j]
    BY <1>1, <1>2, SignalTwinsAre
<1> HIDE DEF T
<1>5. \A x \in ToSet(T) : IsSignal(x) /\ ObjectFree(x, Escaped) /\ TextsFree(x, Escaped)
    BY <1>2, <1>3, <1>4
<1>6. ToSet(T) \subseteq AllSignals(ms)
    BY <1>4 DEF AllSignals, ToSet
<1> QED  BY <1>4, <1>5, <1>6 DEF T, ms

(* The multiplexer indicator is read as it was written. *)
LEMMA MultiplexerReloads ==
    ASSUME NEW s, IsSignal(s)
    PROVE  /\ MultiplexerIndicator(SignalText(s).multiplexer) = s.multiplexer
           /\ MultiplexerSwitchValue(SignalText(s).multiplexer) = s.switch_value
<1> DEFINE token == SignalText(s).multiplexer
<1>1. token = IF s.multiplexer = "MuxSwitch" THEN << "M" >>
              ELSE IF s.multiplexer = "MuxValue" THEN << "m", s.switch_value >>
              ELSE << >>
    BY DEF SignalText
<1>2. /\ s.multiplexer \in {"NoMux", "MuxSwitch", "MuxValue"}
      /\ s.multiplexer # "MuxValue" => s.switch_value = 0
    BY DEF IsSignal
<1> HIDE DEF token
<1>3. CASE s.multiplexer = "NoMux"
    <2>1. token = << >>
        BY <1>1, <1>3
    <2>2. MultiplexerIndicator(token) = "NoMux"
        BY <2>1 DEF MultiplexerIndicator
    <2>3. MultiplexerSwitchValue(token) = 0
        BY <2>2 DEF MultiplexerSwitchValue
    <2> QED  BY <1>2, <1>3, <2>2, <2>3 DEF token
<1>4. CASE s.multiplexer = "MuxSwitch"
    <2>1. token = << "M" >>
        BY <1>1, <1>4
    <2>2. MultiplexerIndicator(token) = "MuxSwitch"
        <3>1. Head(<< "M" >>) = "M" /\ << "M" >> # << >>
            OBVIOUS
        <3> QED  BY <2>1, <3>1 DEF MultiplexerIndicator
    <2>3. MultiplexerSwitchValue(token) = 0
        BY <2>2 DEF MultiplexerSwitchValue
    <2> QED  BY <1>2, <1>4, <2>2, <2>3 DEF token
<1>5. CASE s.multiplexer = "MuxValue"
    <2> DEFINE v == s.switch_value
    <2>1. token = << "m", v >>
        BY <1>1, <1>5
    <2> HIDE DEF v
    <2>2. << "m", v >> # << >> /\ Head(<< "m", v >>) = "m" /\ << "m", v >>[2] = v
        OBVIOUS
    <2>3. MultiplexerIndicator(token) = "MuxValue"
        BY <2>1, <2>2 DEF MultiplexerIndicator
    <2>4. MultiplexerSwitchValue(token) = v
        BY <2>1, <2>2, <2>3 DEF MultiplexerSwitchValue
    <2> QED  BY <1>5, <2>3, <2>4 DEF token, v
<1> QED  BY <1>2, <1>3, <1>4, <1>5

(* A signal is read back with what its twins have.                          *)
LEMMA SignalReloads ==
    ASSUME NEW ntw, IsNetwork(ntw), NetworkFree(ntw, Escaped), NEW id, NEW s, IsSignal(s),
           s.unit \notin Escaped, Identifiers(s.receivers)
    PROVE  LoadSignal(Write(ntw), id, SignalText(s)) = PooledSignal(MessageTwins(ntw, id), s)
<1> DEFINE o == << "signal", id, s.name >>
           ms == ntw.messages
           T == SignalTwins(ms, id, s.name)
           X == AllSignals(ms)
           W == Write(ntw)
           a == PooledAttributes(T)
           c == PooledComment(T)
           d == PooledDescriptions(T)
           e == FirstOf(T, LAMBDA x : x.extended_type, "Integer")
           v == Each(T, LAMBDA x : x.multiplexer_values)
           l == LoadSignal(W, id, SignalText(s))
<1>1. /\ Sequence(T) /\ ToSet(T) \subseteq X
      /\ \A x \in ToSet(T) : IsSignal(x) /\ ObjectFree(x, Escaped) /\ TextsFree(x, Escaped)
    BY SignalTwinsFree
<1>2. ObjectType(o) = "signal"
    BY DEF ObjectType
<1>3. /\ \A x \in ToSet(T) : /\ IsAttributes(x.attributes, ObjectType(o))
                             /\ x.comment # Unreadable /\ ObjectFree(x, Escaped)
      /\ \A i \in DOMAIN T : /\ IsTexts(T[i].descriptions) /\ TextsFree(T[i], Escaped)
                             /\ T[i].extended_type \in {"Integer", "Float", "Double"}
    <2> HIDE DEF T, o
    <2>1. \A x \in ToSet(T) : IsAttributes(x.attributes, ObjectType(o)) /\ x.comment # Unreadable
        BY <1>1, <1>2 DEF IsSignal
    <2>2. \A x \in ToSet(T) : /\ IsTexts(x.descriptions)
                              /\ x.extended_type \in {"Integer", "Float", "Double"}
        BY <1>1 DEF IsSignal
    <2> QED  BY <2>1, <2>2, <1>1 DEF ToSet
<1>4. \A kind \in OfSignal : About(W, kind, o) = SaidBy(kind, T, X)
    BY TwinsSpeak
<1>5. /\ About(W, "BA_", o) = SaidBy("BA_", T, X) /\ About(W, "CM_", o) = SaidBy("CM_", T, X)
      /\ About(W, "VAL_", o) = SaidBy("VAL_", T, X)
      /\ About(W, "SIG_VALTYPE_", o) = SaidBy("SIG_VALTYPE_", T, X)
      /\ About(W, "SG_MUL_VAL_", o) = SaidBy("SG_MUL_VAL_", T, X)
    <2> HIDE DEF W, o, T, X
    <2> QED  BY <1>4 DEF OfSignal
<1>6. PooledSignal(MessageTwins(ntw, id), s) = SignalWith(s, a, c, d, e, v)
    <2>1. Sequence(ms)
        BY DEF IsNetwork
    <2>2. Each(MessageTwins(ntw, id),
               LAMBDA m : Each(m.signals, LAMBDA x : Optional(x.name = s.name, x))) = T
        BY <2>1, TwinsOfSignal DEF MessageTwins
    <2> HIDE DEF T
    <2> QED  BY <2>2 DEF PooledSignal, SignalWith
<1>7. /\ SignalText(s).name = s.name /\ SignalText(s).head = s.head
      /\ SignalText(s).unit = s.unit /\ SignalText(s).receivers = s.receivers
    <2>1. Quoted(s.unit) = s.unit /\ NameEach(s.receivers) = s.receivers
        BY QuotedIs, NameEachIs DEF IsSignal
    <2> QED  BY <2>1 DEF SignalText
<1>8. l = [ name |-> s.name, multiplexer |-> s.multiplexer, switch_value |-> s.switch_value,
            head |-> s.head, unit |-> s.unit, receivers |-> s.receivers, attributes |-> Attributes(W, o),
            descriptions |-> Descriptions(W, o), comment |-> Comment(W, o),
            extended_type |-> getSignalExtendedValueType(W, o),
            multiplexer_values |-> About(W, "SG_MUL_VAL_", o) ]
    <2> HIDE DEF W
    <2> QED  BY <1>7, MultiplexerReloads DEF LoadSignal
<1> HIDE DEF T, X, W, o, l
<1>9. Attributes(W, o) = a /\ Comment(W, o) = c
    BY <1>1, <1>3, <1>5, ThreeTexts
<1>10. Descriptions(W, o) = d
    <2>1. LastOr(SaidBy("VAL_", T, X), << >>) = PooledDescriptions(T)
        BY <1>1, <1>3, PooledDescriptionsAre
    <2> QED  BY <2>1, <1>5 DEF Descriptions
<1>11. getSignalExtendedValueType(W, o) = e
    <2> DEFINE code == FirstOr(SaidBy("SIG_VALTYPE_", T, X), 0)
    <2>1. getSignalExtendedValueType(W, o)
            = IF code = 1 THEN "Float" ELSE IF code = 2 THEN "Double" ELSE "Integer"
        BY <1>5 DEF getSignalExtendedValueType
    <2>2. code = FirstOr(SaidBy("SIG_VALTYPE_", T, X), 0)
        OBVIOUS
    <2> HIDE DEF code, e
    <2>3. (IF code = 1 THEN "Float" ELSE IF code = 2 THEN "Double" ELSE "Integer")
            = FirstOf(T, LAMBDA x : x.extended_type, "Integer")
        BY <1>1, <1>3, <2>2, PooledTypesAre
    <2> QED  BY <2>1, <2>3 DEF e
<1>12. About(W, "SG_MUL_VAL_", o) = v
    <2>1. SaidBy("SG_MUL_VAL_", T, X) = Each(T, LAMBDA x : x.multiplexer_values)
        BY <1>1, PooledListsAre
    <2> QED  BY <2>1, <1>5
<1> HIDE DEF a, c, d, e, v
<1>13. SignalWith(s, a, c, d, e, v)
         = [ name |-> s.name, multiplexer |-> s.multiplexer, switch_value |-> s.switch_value,
             head |-> s.head, unit |-> s.unit, receivers |-> s.receivers, attributes |-> a, descriptions |-> d,
             comment |-> c, extended_type |-> e, multiplexer_values |-> v ]
    <2>1. s = [ name |-> s.name, multiplexer |-> s.multiplexer, switch_value |-> s.switch_value,
                head |-> s.head, unit |-> s.unit, receivers |-> s.receivers, attributes |-> s.attributes,
                descriptions |-> s.descriptions, comment |-> s.comment,
                extended_type |-> s.extended_type,
                multiplexer_values |-> s.multiplexer_values ]
        BY DEF IsSignal
    <2> QED  BY <2>1, SignalUpdated
<1> QED  BY <1>6, <1>8, <1>9, <1>10, <1>11, <1>12, <1>13 DEF l, W

(* A message is read back with what its twins have.                         *)
LEMMA MessageReloads ==
    ASSUME NEW ntw, IsNetwork(ntw), Named(ntw), NetworkFree(ntw, Escaped),
           NEW i \in DOMAIN ntw.messages
    PROVE  LoadMessage(Write(ntw), MessageLine(ntw.messages[i])) = PooledMessage(ntw, ntw.messages[i])
<1> DEFINE m == ntw.messages[i]
           o == << "message", m.id >>
           T == MessageTwins(ntw, m.id)
           X == ToSet(ntw.messages)
           W == Write(ntw)
           st == MessageLine(m)
           a == PooledAttributes(T)
           c == PooledComment(T)
           t == FirstOf(T, LAMBDA x : x.transmitters, << >>)
           g == Each(T, LAMBDA x : x.signal_groups)
           l == [ j \in DOMAIN m.signals |-> PooledSignal(T, m.signals[j]) ]
           r == LoadMessage(W, st)
<1>1. /\ Sequence(T) /\ ToSet(T) \subseteq X
      /\ \A x \in ToSet(T) : \E k \in DOMAIN ntw.messages : x = ntw.messages[k]
    BY MessageTwinsAre
<1>2. \A k \in DOMAIN ntw.messages : IsMessage(ntw.messages[k]) /\ ObjectFree(ntw.messages[k], Escaped)
    BY DEF IsNetwork, NetworkFree, MessageFree
<1>3. \A x \in ToSet(T) : IsMessage(x) /\ ObjectFree(x, Escaped)
    BY <1>1, <1>2
<1>4. ObjectType(o) = "message"
    BY DEF ObjectType
<1>5. \A x \in ToSet(T) : /\ IsAttributes(x.attributes, ObjectType(o))
                          /\ x.comment # Unreadable /\ ObjectFree(x, Escaped)
    BY <1>3, <1>4 DEF IsMessage
<1>6. \A kind \in OfMessage : About(W, kind, o) = SaidBy(kind, T, X)
    BY TwinsSpeak
<1>7. /\ About(W, "BA_", o) = SaidBy("BA_", T, X) /\ About(W, "CM_", o) = SaidBy("CM_", T, X)
      /\ About(W, "BO_TX_BU_", o) = SaidBy("BO_TX_BU_", T, X)
      /\ About(W, "SIG_GROUP_", o) = SaidBy("SIG_GROUP_", T, X)
    <2> HIDE DEF W, o, T, X
    <2> QED  BY <1>6 DEF OfMessage
<1>8. PooledMessage(ntw, m) = MessageWith(m, a, c, t, g, l)
    <2>1. Each(ntw.messages, LAMBDA x : Optional(x.id = m.id, x)) = T
        BY TwinsWithId DEF MessageTwins
    <2> HIDE DEF T
    <2> QED  BY <2>1 DEF PooledMessage, MessageWith
<1>9. IsMessage(m) /\ NamedMessage(m) /\ MessageFree(m, Escaped)
    BY <1>2, NamedIs DEF NetworkFree
<1>10. /\ Owner(st) = o /\ Owner(st)[2] = m.id
       /\ Value(st) = [ name |-> m.name, transmitter |-> m.transmitter, size |-> m.size,
                        signals |-> [ j \in DOMAIN m.signals |-> SignalText(m.signals[j]) ] ]
    <2>1. Name(m.name) = m.name /\ Name(m.transmitter) = m.transmitter
        BY <1>9, OneNameIs DEF NamedMessage
    <2> QED  BY <2>1 DEF MessageLine, Owner, Value, St
<1> DEFINE texts == [ j \in DOMAIN m.signals |-> SignalText(m.signals[j]) ]
<1>11. /\ Value(st).name = m.name /\ Value(st).transmitter = m.transmitter
       /\ Value(st).size = m.size /\ Value(st).signals = texts
    BY <1>10
<1>12. DOMAIN texts = DOMAIN m.signals /\ \A j \in DOMAIN m.signals : texts[j] = SignalText(m.signals[j])
    OBVIOUS
<1>13. \A j \in DOMAIN m.signals : LoadSignal(W, m.id, SignalText(m.signals[j])) = PooledSignal(T, m.signals[j])
    <2> TAKE j \in DOMAIN m.signals
    <2>1. /\ IsSignal(m.signals[j]) /\ m.signals[j].unit \notin Escaped
          /\ Identifiers(m.signals[j].receivers)
        BY <1>9 DEF IsMessage, NamedMessage, MessageFree, SignalFree
    <2> QED  BY <2>1, SignalReloads
<1> HIDE DEF texts, st
<1>14. r = [ id |-> m.id, name |-> m.name, transmitter |-> m.transmitter, size |-> m.size,
             signals |-> [ j \in DOMAIN texts |-> LoadSignal(W, m.id, texts[j]) ],
             transmitters |-> FirstOr(About(W, "BO_TX_BU_", o), << >>),
             attributes |-> Attributes(W, o), comment |-> Comment(W, o),
             signal_groups |-> About(W, "SIG_GROUP_", o) ]
    <2> HIDE DEF W, o
    <2> QED  BY <1>10, <1>11 DEF LoadMessage
<1>15. [ j \in DOMAIN texts |-> LoadSignal(W, m.id, texts[j]) ] = l
    <2> HIDE DEF W, T, m
    <2> QED  BY <1>12, <1>13
<1> HIDE DEF T, X, W, o, m, r
<1>16. Attributes(W, o) = a /\ Comment(W, o) = c
    BY <1>1, <1>5, <1>7, ThreeTexts
<1>17. \A j \in DOMAIN T : Sequence(T[j].transmitters) /\ Identifiers(T[j].transmitters)
    <2>1. \A x \in ToSet(T) : Sequence(x.transmitters) /\ Identifiers(x.transmitters)
        BY <1>1, <1>3, NamedIs DEF IsMessage, NamedMessage
    <2> QED  BY <2>1 DEF ToSet
<1>18. FirstOr(About(W, "BO_TX_BU_", o), << >>) = t
    <2>1. FirstOr(SaidBy("BO_TX_BU_", T, X), << >>) = FirstOf(T, LAMBDA x : x.transmitters, << >>)
        BY <1>1, <1>17, PooledTransmittersAre
    <2> QED  BY <2>1, <1>7
<1>19. About(W, "SIG_GROUP_", o) = g
    <2>1. SaidBy("SIG_GROUP_", T, X) = Each(T, LAMBDA x : x.signal_groups)
        BY <1>1, PooledListsAre
    <2> QED  BY <2>1, <1>7
<1> HIDE DEF a, c, t, g, l
<1>20. MessageWith(m, a, c, t, g, l)
         = [ id |-> m.id, name |-> m.name, transmitter |-> m.transmitter, size |-> m.size, signals |-> l, transmitters |-> t,
             attributes |-> a, comment |-> c, signal_groups |-> g ]
    <2>1. m = [ id |-> m.id, name |-> m.name, transmitter |-> m.transmitter, size |-> m.size, signals |-> m.signals,
                transmitters |-> m.transmitters, attributes |-> m.attributes,
                comment |-> m.comment, signal_groups |-> m.signal_groups ]
        BY <1>9 DEF IsMessage
    <2> QED  BY <2>1, MessageUpdated
<1> QED  BY <1>8, <1>14, <1>15, <1>16, <1>18, <1>19, <1>20 DEF r, W, m, st

(* A variable that holds data says so. *)
LEMMA DataSaid ==
    ASSUME NEW T, Sequence(T), NEW X, ToSet(T) \subseteq X, NEW ev \in ToSet(T),
           SaidBy("ENVVAR_DATA_", T, X) = << >>
    PROVE  ev.var_type # "Data"
<1> DEFINE C == { i \in DOMAIN T : T[i].var_type = "Data" }
           g == [ i \in DOMAIN T |-> T[i].data_size ]
           V == SaidBy("ENVVAR_DATA_", T, X)
<1>1. V = FlattenSeq([ i \in DOMAIN T |-> Said("ENVVAR_DATA_", T[i]) ])
    BY SaidByIs
<1>2. \A i \in DOMAIN T : Said("ENVVAR_DATA_", T[i]) = Optional(i \in C, g[i])
    <2>1. \A i \in DOMAIN T : i \in C <=> T[i].var_type = "Data"
        OBVIOUS
    <2>2. \A i \in DOMAIN T : g[i] = T[i].data_size
        OBVIOUS
    <2> HIDE DEF C, g
    <2> QED  BY <2>1, <2>2 DEF Said, Optional
<1> HIDE DEF C, g, V
<1>3. V = FlattenSeq([ i \in DOMAIN T |-> Optional(i \in C, g[i]) ])
    BY <1>1, <1>2
<1>4. Chosen(V, T, C, g)
    BY <1>3, ChosenAre
<1>5. ToSet(V) = {}
    BY ToSetFew DEF V
<1>6. \A i \in DOMAIN T : i \notin C
    BY <1>4, <1>5 DEF Chosen
<1>7. PICK i \in DOMAIN T : ev = T[i]
    BY DEF ToSet
<1> QED  BY <1>6, <1>7 DEF C

(* The code of a type is read as that type, whatever was left on the stack. *)
LEMMA VarTypeReloads ==
    ASSUME NEW type \in LeftOnStack, type # NoVarType, type # "Data", NEW left
    PROVE  /\ VarTypeCode(type) + 1 \in DOMAIN VarTypes
           /\ VarTypes[VarTypeCode(type) + 1] = type
<1> DEFINE k == CHOOSE i \in DOMAIN VarTypes : VarTypes[i] = type
<1>1. type \in ToSet(VarTypes)
    BY DEF LeftOnStack
<1>2. \E i \in DOMAIN VarTypes : VarTypes[i] = type
    BY <1>1 DEF ToSet
<1>3. k \in DOMAIN VarTypes /\ VarTypes[k] = type
    BY <1>2
<1>4. VarTypeCode(type) = k - 1
    BY DEF VarTypeCode
<1> HIDE DEF k
<1>5. DOMAIN VarTypes = 1 .. 3
    BY DEF VarTypes
<1>6. k - 1 + 1 = k
    BY <1>3, <1>5
<1> QED  BY <1>3, <1>4, <1>6

(* An environment variable is read back with what its twins have.           *)
LEMMA EnvVarReloads ==
    ASSUME NEW ntw, IsNetwork(ntw), Named(ntw), NetworkFree(ntw, Escaped),
           NEW i \in DOMAIN ntw.environment_variables,
           ntw.environment_variables[i].var_type # NoVarType, NEW left
    PROVE  LoadEnvVar(Write(ntw), left, EnvVarLine(ntw.environment_variables[i]))
             = PooledEnvVar(ntw, ntw.environment_variables[i])
<1> DEFINE evs == ntw.environment_variables
           ev == evs[i]
           o == << "env", ev.name >>
           T == EnvTwins(ntw, ev.name)
           X == ToSet(evs)
           W == Write(ntw)
           st == EnvVarLine(ev)
           a == PooledAttributes(T)
           c == PooledComment(T)
           d == PooledDescriptions(T)
           data == Each(T, LAMBDA x : Optional(x.var_type = "Data", x.data_size))
           v == IF data = << >> THEN ev.var_type ELSE "Data"
           z == FirstOr(data, 0)
           code == VarTypeCode(ev.var_type)
           token == CHOOSE token \in DOMAIN AccessTypes : AccessTypes[token] = ev.access_type
           r == LoadEnvVar(W, left, st)
<1>1. /\ Sequence(T) /\ ToSet(T) \subseteq X
      /\ \A x \in ToSet(T) : \E k \in DOMAIN evs : x = evs[k]
      /\ ev \in ToSet(T)
    BY EnvTwinsAre
<1>2. \A k \in DOMAIN evs : IsEnvVar(evs[k]) /\ ObjectFree(evs[k], Escaped) /\ TextsFree(evs[k], Escaped)
    BY DEF IsNetwork, NetworkFree, SignalFree
<1>3. \A x \in ToSet(T) : IsEnvVar(x) /\ ObjectFree(x, Escaped) /\ TextsFree(x, Escaped)
    BY <1>1, <1>2
<1>4. ObjectType(o) = "env"
    BY DEF ObjectType
<1>5. /\ \A x \in ToSet(T) : /\ IsAttributes(x.attributes, ObjectType(o))
                             /\ x.comment # Unreadable /\ ObjectFree(x, Escaped)
      /\ \A k \in DOMAIN T : IsTexts(T[k].descriptions) /\ TextsFree(T[k], Escaped)
    <2> HIDE DEF T, o
    <2>1. \A x \in ToSet(T) : /\ IsAttributes(x.attributes, ObjectType(o))
                              /\ x.comment # Unreadable /\ IsTexts(x.descriptions)
        BY <1>3, <1>4 DEF IsEnvVar
    <2> QED  BY <2>1, <1>3 DEF ToSet
<1>6. \A kind \in OfEnv : About(W, kind, o) = SaidBy(kind, T, X)
    BY TwinsSpeak
<1>7. /\ About(W, "BA_", o) = SaidBy("BA_", T, X) /\ About(W, "CM_", o) = SaidBy("CM_", T, X)
      /\ About(W, "VAL_", o) = SaidBy("VAL_", T, X)
      /\ About(W, "ENVVAR_DATA_", o) = SaidBy("ENVVAR_DATA_", T, X)
    <2> HIDE DEF W, o, T, X
    <2> QED  BY <1>6 DEF OfEnv
<1>8. PooledEnvVar(ntw, ev) = EnvVarWith(ev, a, c, d, v, z)
    <2>1. Each(evs, LAMBDA x : Optional(x.name = ev.name, x)) = T
        BY TwinsNamed DEF EnvTwins
    <2>2. PooledEnvVar(ntw, ev)
            = [ ev EXCEPT !.attributes = a, !.comment = c, !.descriptions = d,
                          !.var_type = IF data = << >> THEN @ ELSE "Data",
                          !.data_size = z ]
        <3> HIDE DEF T
        <3> QED  BY <2>1 DEF PooledEnvVar
    <2> HIDE DEF data, a, c, d, z
    <2>3. [ ev EXCEPT !.attributes = a, !.comment = c, !.descriptions = d,
                      !.var_type = IF data = << >> THEN @ ELSE "Data",
                      !.data_size = z ]
            = [ ev EXCEPT !.attributes = a, !.comment = c, !.descriptions = d,
                          !.var_type = v, !.data_size = z ]
        OBVIOUS
    <2> QED  BY <2>2, <2>3 DEF EnvVarWith
<1>9. IsEnvVar(ev)
    BY <1>2
<1>10. /\ Owner(st) = o /\ Owner(st)[2] = ev.name
       /\ Value(st) = [ head |-> ev.head, maximum |-> ev.maximum, unit |-> ev.unit,
                        var_type |-> code, access_type |-> token,
                        access_nodes |-> ev.access_nodes ]
    <2>1. ev.unit \notin Escaped /\ Identifiers(ev.access_nodes)
        BY NamedIs DEF NetworkFree, SignalFree
    <2>2. Quoted(ev.unit) = ev.unit /\ NameEach(ev.access_nodes) = ev.access_nodes
        BY <1>9, <2>1, QuotedIs, NameEachIs DEF IsEnvVar
    <2> QED  BY <2>2 DEF EnvVarLine, Owner, Value, St
<1>11. token \in DOMAIN AccessTypes /\ AccessTypes[token] = ev.access_type
    <2>1. \E x \in DOMAIN AccessTypes : AccessTypes[x] = ev.access_type
        BY <1>9 DEF IsEnvVar
    <2> QED  BY <2>1
<1>12. data = About(W, "ENVVAR_DATA_", o)
    <2> HIDE DEF W, o, T, X, data
    <2>1. SaidBy("ENVVAR_DATA_", T, X) = Each(T, LAMBDA x : Optional(x.var_type = "Data", x.data_size))
        BY <1>1, PooledListsAre
    <2> QED  BY <1>7, <2>1 DEF data
<1>13. data = << >> => ev.var_type # "Data"
    <2> HAVE data = << >>
    <2>1. SaidBy("ENVVAR_DATA_", T, X) = << >>
        BY <1>7, <1>12
    <2> HIDE DEF T, X, ev, evs
    <2> QED  BY <2>1, <1>1, DataSaid
<1>14. ev.var_type \in LeftOnStack /\ ev.var_type # NoVarType
    BY <1>9 DEF IsEnvVar
<1> HIDE DEF st, code, token
<1>15. r = [ name |-> ev.name, head |-> ev.head, maximum |-> ev.maximum, unit |-> ev.unit,
             var_type |-> IF About(W, "ENVVAR_DATA_", o) # << >> THEN "Data"
                          ELSE IF code + 1 \in DOMAIN VarTypes THEN VarTypes[code + 1] ELSE left,
             data_size |-> FirstOr(About(W, "ENVVAR_DATA_", o), 0),
             access_type |-> ev.access_type, access_nodes |-> ev.access_nodes,
             descriptions |-> Descriptions(W, o), attributes |-> Attributes(W, o),
             comment |-> Comment(W, o) ]
    <2> HIDE DEF W, o
    <2> QED  BY <1>10, <1>11 DEF LoadEnvVar
<1> HIDE DEF T, X, W, o, evs, r, ev
<1>16. Attributes(W, o) = a /\ Comment(W, o) = c
    BY <1>1, <1>5, <1>7, ThreeTexts
<1>17. Descriptions(W, o) = d
    <2>1. LastOr(SaidBy("VAL_", T, X), << >>) = PooledDescriptions(T)
        BY <1>1, <1>5, PooledDescriptionsAre
    <2> QED  BY <2>1, <1>7 DEF Descriptions
<1> HIDE DEF data
<1>18. (IF About(W, "ENVVAR_DATA_", o) # << >> THEN "Data"
        ELSE IF code + 1 \in DOMAIN VarTypes THEN VarTypes[code + 1] ELSE left) = v
    <2>1. CASE data = << >>
        <3>1. code + 1 \in DOMAIN VarTypes /\ VarTypes[code + 1] = ev.var_type
            BY <2>1, <1>13, <1>14, VarTypeReloads DEF code
        <3> QED  BY <2>1, <3>1, <1>12
    <2>2. CASE data # << >>
        BY <2>2, <1>12
    <2> QED  BY <2>1, <2>2
<1>19. FirstOr(About(W, "ENVVAR_DATA_", o), 0) = z
    BY <1>12
<1> HIDE DEF a, c, d, v, z
<1>20. EnvVarWith(ev, a, c, d, v, z)
         = [ name |-> ev.name, head |-> ev.head, maximum |-> ev.maximum,
             unit |-> ev.unit, var_type |-> v,
             data_size |-> z, access_type |-> ev.access_type, access_nodes |-> ev.access_nodes,
             descriptions |-> d, attributes |-> a, comment |-> c ]
    <2>1. ev = [ name |-> ev.name, head |-> ev.head, maximum |-> ev.maximum,
              unit |-> ev.unit, var_type |-> ev.var_type, data_size |-> ev.data_size,
              access_type |-> ev.access_type, access_nodes |-> ev.access_nodes,
              descriptions |-> ev.descriptions, attributes |-> ev.attributes,
              comment |-> ev.comment ]
        BY <1>9 DEF IsEnvVar
    <2> QED  BY <2>1, EnvVarUpdated
<1> QED  BY <1>8, <1>15, <1>16, <1>17, <1>18, <1>19, <1>20 DEF r, W, ev, evs, st

-----------------------------------------------------------------------------
(* Reading the network back. *)

(* What is read back from the file written for a network.                   *)
ReloadedTiming(ntw) ==
    IF \A i \in 1 .. 3 : ntw.bit_timing[i] # 0 THEN ntw.bit_timing ELSE << 0, 0, 0 >>
WrittenTablesOf(ntw) == Tables(ntw) \o SignalTypeSection(ntw)
ReloadedTables(ntw) ==
    [ i \in DOMAIN WrittenTablesOf(ntw) |->
        [ name |-> Owner(WrittenTablesOf(ntw)[i])[2],
          descriptions |-> Value(WrittenTablesOf(ntw)[i]), signal_type |-> << >> ] ]
PooledNodes(ntw) == [ i \in DOMAIN ntw.nodes |-> PooledNode(ntw, ntw.nodes[i]) ]
PooledMessages(ntw) == [ i \in DOMAIN ntw.messages |-> PooledMessage(ntw, ntw.messages[i]) ]
PooledVariables(ntw) ==
    [ i \in DOMAIN ntw.environment_variables |->
        PooledEnvVar(ntw, ntw.environment_variables[i]) ]
Reloaded(ntw) ==
    [ version |-> ntw.version, new_symbols |-> ntw.new_symbols,
      bit_timing |-> ReloadedTiming(ntw), nodes |-> PooledNodes(ntw),
      value_tables |-> ReloadedTables(ntw), messages |-> PooledMessages(ntw),
      environment_variables |-> PooledVariables(ntw),
      attribute_definitions |-> ntw.attribute_definitions,
      attribute_defaults |-> ntw.attribute_defaults,
      attribute_values |-> ntw.attribute_values, comment |-> ntw.comment ]

ValuesIn(part) == [ i \in DOMAIN part |-> Value(part[i]) ]

(* A section of one statement has one value.                                *)
LEMMA OneValue ==
    ASSUME NEW part, NEW kind, NEW v, part = << St(kind, << >>, v) >>
    PROVE  ValuesIn(part) = << v >>
BY DEF Value, St, ValuesIn

(* The version, the new symbols, the bit timing and the names of the nodes  *)
(* are read back.                                                           *)
LEMMA HeaderReloads ==
    ASSUME NEW ntw, IsNetwork(ntw), Named(ntw), ntw.version \notin Escaped
    PROVE  /\ Head(Values(Write(ntw), "VERSION")) = ntw.version
           /\ FirstOr(Values(Write(ntw), "NS_"), << >>) = ntw.new_symbols
           /\ getBitTiming(Write(ntw)) = ReloadedTiming(ntw)
           /\ Head(Values(Write(ntw), "BU_")) = [ i \in DOMAIN ntw.nodes |-> ntw.nodes[i].name ]
<1> DEFINE W == Write(ntw)
           S == SectionsOf(ntw)
           timing == IF \A i \in 1 .. 3 : ntw.bit_timing[i] # 0 THEN ntw.bit_timing ELSE << >>
           names == Each(ntw.nodes, LAMBDA n : Words(n.name))
<1>1. \A k \in {1, 2, 3, 4} : Values(W, SectionKind(k)) = [ i \in DOMAIN S[k] |-> Value(S[k][i]) ]
    BY WrittenOf
<1>2. /\ S[1] = << St("VERSION", << >>, Quoted(ntw.version)) >>
      /\ S[2] = << St("NS_", << >>, ntw.new_symbols) >>
      /\ S[3] = << St("BS_", << >>, timing) >>
      /\ S[4] = << St("BU_", << >>, names) >>
    <2>1. /\ S[1] = << St("VERSION", << >>, Quoted(ntw.version)) >>
          /\ S[2] = << St("NS_", << >>, ntw.new_symbols) >>
          /\ S[3] = << BitTimingLine(ntw.bit_timing) >>
          /\ S[4] = << NodesLine(ntw.nodes) >>
        BY SectionAt
    <2>2. BitTimingLine(ntw.bit_timing) = St("BS_", << >>, timing)
        BY DEF BitTimingLine
    <2>3. NodesLine(ntw.nodes) = St("BU_", << >>, names)
        BY DEF NodesLine
    <2> HIDE DEF S, timing, names
    <2> QED  BY <2>1, <2>2, <2>3
<1>3. names = [ i \in DOMAIN ntw.nodes |-> ntw.nodes[i].name ]
    <2> DEFINE t == [ i \in DOMAIN ntw.nodes |-> ntw.nodes[i].name ]
    <2>1. Sequence(ntw.nodes) /\ \A i \in DOMAIN ntw.nodes : Words(ntw.nodes[i].name) = << ntw.nodes[i].name >>
        BY NamedIs, OneNameIs DEF IsNetwork
    <2>2. [ i \in DOMAIN ntw.nodes |-> Words(ntw.nodes[i].name) ]
            = [ i \in DOMAIN ntw.nodes |-> << t[i] >> ]
        BY <2>1
    <2>3. names = FlattenSeq([ i \in DOMAIN ntw.nodes |-> << t[i] >> ])
        BY <2>2 DEF Each
    <2>4. DOMAIN t = DOMAIN ntw.nodes /\ t = [ i \in DOMAIN ntw.nodes |-> t[i] ]
        OBVIOUS
    <2> HIDE DEF t, names
    <2>5. FlattenSeq([ i \in DOMAIN ntw.nodes |-> << t[i] >> ]) = t
        BY <2>1, <2>4, EachOne
    <2> QED  BY <2>3, <2>5 DEF t
<1>4. Quoted(ntw.version) = ntw.version
    BY QuotedIs DEF IsNetwork
<1>5. ntw.bit_timing # << >>
    <2>1. DOMAIN ntw.bit_timing = 1 .. 3
        BY DEF IsNetwork
    <2> QED  BY <2>1
<1> HIDE DEF S, W, names
<1>6. /\ Values(W, "VERSION") = << ntw.version >> /\ Values(W, "NS_") = << ntw.new_symbols >>
      /\ Values(W, "BS_") = << timing >> /\ Values(W, "BU_") = << names >>
    <2> HIDE DEF timing
    <2>1. /\ ValuesIn(S[1]) = << ntw.version >> /\ ValuesIn(S[2]) = << ntw.new_symbols >>
          /\ ValuesIn(S[3]) = << timing >> /\ ValuesIn(S[4]) = << names >>
        <3>1. ValuesIn(S[1]) = << ntw.version >>
            BY <1>2, <1>4, OneValue
        <3>2. ValuesIn(S[2]) = << ntw.new_symbols >>
            BY <1>2, OneValue
        <3>3. ValuesIn(S[3]) = << timing >>
            BY <1>2, OneValue
        <3>4. ValuesIn(S[4]) = << names >>
            BY <1>2, OneValue
        <3> QED  BY <3>1, <3>2, <3>3, <3>4
    <2>2. /\ Values(W, SectionKind(1)) = << ntw.version >>
          /\ Values(W, SectionKind(2)) = << ntw.new_symbols >>
          /\ Values(W, SectionKind(3)) = << timing >>
          /\ Values(W, SectionKind(4)) = << names >>
        BY <1>1, <2>1 DEF ValuesIn
    <2> QED  BY <2>2, SectionKinds
<1>7. \A x : Head(<< x >>) = x /\ << x >> # << >>
    OBVIOUS
<1>8. FirstOr(Values(W, "NS_"), << >>) = ntw.new_symbols
    BY <1>6, <1>7 DEF FirstOr
<1>9. getBitTiming(W) = ReloadedTiming(ntw)
    <2>1. Head(Values(W, "BS_")) = timing
        BY <1>6, <1>7
    <2>2. getBitTiming(W) = IF timing = << >> THEN << 0, 0, 0 >> ELSE timing
        BY <2>1 DEF getBitTiming
    <2> QED  BY <2>2, <1>5 DEF ReloadedTiming
<1>10. Head(Values(W, "VERSION")) = ntw.version /\ Head(Values(W, "BU_")) = names
    BY <1>6, <1>7
<1> QED  BY <1>3, <1>8, <1>9, <1>10 DEF W

(* So are attributes written one by one,                                    *)
LEMMA AttributesReload ==
    ASSUME NEW x, NEW type, IsAttributes(x.attributes, type), AttributesFree(x.attributes, Escaped)
    PROVE  [ i \in DOMAIN Said("BA_", x) |-> AttributeOf(type, Said("BA_", x)[i]) ] = x.attributes
<1> DEFINE at == x.attributes
           s == [ j \in DOMAIN at |-> AttributeText(at[j]) ]
           t == [ i \in DOMAIN s |-> AttributeOf(type, s[i]) ]
<1>1. Said("BA_", x) = s
    BY DEF Said
<1>2. Sequence(at)
      /\ \A j \in DOMAIN at :
            /\ at[j] = [ type |-> type, name |-> at[j].name, value |-> at[j].value ]
            /\ at[j].name # Unreadable /\ at[j].value # Unreadable
    BY DEF IsAttributes
<1>3. \A j \in DOMAIN at : AttributeText(at[j]) = << at[j].name, at[j].value >>
    BY <1>2, AttributeTextIs DEF AttributesFree
<1> HIDE DEF at
<1>4. DOMAIN s = DOMAIN at /\ \A j \in DOMAIN at : s[j] = << at[j].name, at[j].value >>
    BY <1>3
<1> HIDE DEF s
<1>5. DOMAIN t = DOMAIN at /\ t = [ i \in DOMAIN at |-> t[i] ] /\ \A i \in DOMAIN at : t[i] = at[i]
    BY <1>2, <1>4 DEF AttributeOf
<1> HIDE DEF t
<1>6. Sequence(t)
    BY <1>2, <1>5, MadeOf
<1>7. t = at
    BY <1>2, <1>5, <1>6, SequenceEqual
<1> QED  BY <1>1, <1>7 DEF t, at

(* values written one by one,                                               *)
LEMMA ValuesOfLines ==
    ASSUME NEW kind, NEW o, NEW values, Sequence(values)
    PROVE  [ i \in DOMAIN Lines(kind, o, values) |-> Value(Lines(kind, o, values)[i]) ] = values
<1> DEFINE l == Lines(kind, o, values)
           t == [ i \in DOMAIN l |-> Value(l[i]) ]
<1>1. DOMAIN l = DOMAIN values /\ \A i \in DOMAIN values : Value(l[i]) = values[i]
    BY DEF Lines, Value, St
<1> HIDE DEF l
<1>2. DOMAIN t = DOMAIN values /\ t = [ i \in DOMAIN values |-> t[i] ]
        /\ \A i \in DOMAIN values : t[i] = values[i]
    BY <1>1
<1> HIDE DEF t
<1>3. Sequence(t)
    BY <1>2, MadeOf
<1>4. t = values
    BY <1>2, <1>3, SequenceEqual
<1> QED  BY <1>4 DEF t, l

(* and what the file says of the network.                                   *)
LEMMA NetworkReloads ==
    ASSUME NEW ntw, IsNetwork(ntw), NetworkFree(ntw, Escaped)
    PROVE  /\ Values(Write(ntw), "BA_DEF_") = ntw.attribute_definitions
           /\ [ i \in DOMAIN Values(Write(ntw), "BA_DEF_DEF_") |->
                  AttributeOf("network", Values(Write(ntw), "BA_DEF_DEF_")[i]) ]
                = ntw.attribute_defaults
           /\ Attributes(Write(ntw), << "network" >>) = ntw.attribute_values
           /\ Comment(Write(ntw), << "network" >>) = ntw.comment
<1> DEFINE W == Write(ntw)
           S == SectionsOf(ntw)
           o == << "network" >>
           x == [ comment |-> ntw.comment, attributes |-> ntw.attribute_values ]
           y == [ attributes |-> ntw.attribute_defaults ]
<1>1. \A k \in {12, 13} : Values(W, SectionKind(k)) = [ i \in DOMAIN S[k] |-> Value(S[k][i]) ]
    BY WrittenOf
<1>2. /\ S[12] = Lines("BA_DEF_", << >>, Definitions(ntw))
      /\ S[13] = Lines("BA_DEF_DEF_", << "network" >>, Defaults(ntw))
    BY SectionAt
<1>3. Definitions(ntw) = ntw.attribute_definitions /\ Sequence(Definitions(ntw))
    <2> DEFINE ds == ntw.attribute_definitions
               q == Definitions(ntw)
    <2>1. Sequence(ds) /\ \A i \in DOMAIN ds : IsDefinition(ds[i]) /\ DefinitionFree(ds[i], Escaped)
        BY DEF IsNetwork, NetworkFree
    <2>2. \A i \in DOMAIN ds : Value(DefinitionLine(ds[i])) = ds[i]
        BY <2>1, DefinitionIs
    <2>3. DOMAIN q = DOMAIN ds /\ q = [ i \in DOMAIN ds |-> q[i] ] /\ \A i \in DOMAIN ds : q[i] = ds[i]
        BY <2>2 DEF Definitions
    <2> HIDE DEF q, ds
    <2>4. Sequence(q)
        BY <2>1, <2>3, MadeOf
    <2>5. q = ds
        BY <2>1, <2>3, <2>4, SequenceEqual
    <2> QED  BY <2>4, <2>5 DEF q, ds
<1>4. Sequence(Definitions(ntw)) /\ Sequence(Defaults(ntw))
    <2>1. IsAttributes(ntw.attribute_defaults, "network")
        BY DEF IsNetwork
    <2>2. Sequence(y.attributes)
        BY <2>1 DEF IsAttributes
    <2> HIDE DEF y
    <2>3. Sequence(Said("BA_", y))
        BY <2>2, SaidIs
    <2> QED  BY <1>3, <2>3 DEF Defaults, y
<1> HIDE DEF S, W
<1>5. Values(W, "BA_DEF_") = ntw.attribute_definitions /\ Values(W, "BA_DEF_DEF_") = Defaults(ntw)
    <2>1. /\ Values(W, SectionKind(12)) = [ i \in DOMAIN S[12] |-> Value(S[12][i]) ]
          /\ Values(W, SectionKind(13)) = [ i \in DOMAIN S[13] |-> Value(S[13][i]) ]
        BY <1>1
    <2>2. [ i \in DOMAIN S[12] |-> Value(S[12][i]) ] = ntw.attribute_definitions
        BY <1>2, <1>4, <1>3, ValuesOfLines
    <2>3. [ i \in DOMAIN S[13] |-> Value(S[13][i]) ] = Defaults(ntw)
        BY <1>2, <1>4, ValuesOfLines
    <2> QED  BY <2>1, <2>2, <2>3, SectionKinds
<1>6. Defaults(ntw) = Said("BA_", y)
    BY DEF Defaults
<1>7. y.attributes = ntw.attribute_defaults /\ x.attributes = ntw.attribute_values
        /\ x.comment = ntw.comment
    OBVIOUS
<1>8. \A kind \in OfNetwork : About(W, kind, o) = Said(kind, x)
    BY SaysOf DEF W, NetworkSays
<1> HIDE DEF x, y, o
<1>9. [ i \in DOMAIN Said("BA_", y) |-> AttributeOf("network", Said("BA_", y)[i]) ]
         = y.attributes
    <2>1. IsAttributes(y.attributes, "network")
        BY <1>7 DEF IsNetwork
    <2>2. AttributesFree(y.attributes, Escaped)
        BY <1>7 DEF NetworkFree
    <2> QED  BY <2>1, <2>2, AttributesReload
<1>10. [ i \in DOMAIN Said("BA_", x) |-> AttributeOf("network", Said("BA_", x)[i]) ]
         = x.attributes
    <2>1. IsAttributes(x.attributes, "network")
        BY <1>7 DEF IsNetwork
    <2>2. AttributesFree(x.attributes, Escaped)
        BY <1>7 DEF NetworkFree
    <2> QED  BY <2>1, <2>2, AttributesReload
<1>11. About(W, "BA_", o) = Said("BA_", x) /\ About(W, "CM_", o) = Said("CM_", x)
    BY <1>8 DEF OfNetwork
<1>12. Attributes(W, o) = ntw.attribute_values
    <2>1. ObjectType(o) = "network"
        BY DEF ObjectType, o
    <2> QED  BY <1>7, <1>10, <1>11, <2>1 DEF Attributes
<1>13. Comment(W, o) = ntw.comment
    <2> DEFINE c == ntw.comment
    <2>1. Quoted(c) = c
        BY QuotedIs DEF NetworkFree, IsNetwork
    <2>2. Said("CM_", x) = Optional(c # "", c)
        BY <1>7, <2>1 DEF Said
    <2> HIDE DEF c
    <2>3. Last(<< c >>) = c /\ << c >> # << >>
        BY DEF Last
    <2>4. LastOr(Optional(c # "", c), "") = c
        BY <2>3 DEF LastOr, Optional
    <2> QED  BY <1>11, <2>2, <2>4 DEF Comment, c
<1> QED  BY <1>5, <1>6, <1>7, <1>9, <1>12, <1>13 DEF W, o

(* What is read back from the file written for a network: Reloaded(ntw).    *)
LEMMA LoadWritten ==
    ASSUME NEW ntw, IsNetwork(ntw), Named(ntw), NetworkFree(ntw, Escaped),
           \A i \in DOMAIN ntw.environment_variables :
              ntw.environment_variables[i].var_type # NoVarType,
           NEW left
    PROVE  Load(Write(ntw), left) = Reloaded(ntw)
<1> DEFINE W == Write(ntw)
           names == [ i \in DOMAIN ntw.nodes |-> ntw.nodes[i].name ]
           tables == Of(W, "VAL_TABLE_")
           ms == Of(W, "BO_")
           evs == Of(W, "EV_")
           defaults == Values(W, "BA_DEF_DEF_")
<1>1. /\ Head(Values(W, "VERSION")) = ntw.version
      /\ FirstOr(Values(W, "NS_"), << >>) = ntw.new_symbols
      /\ getBitTiming(W) = ReloadedTiming(ntw)
      /\ Head(Values(W, "BU_")) = names
    BY HeaderReloads DEF NetworkFree
<1>2. /\ Values(W, "BA_DEF_") = ntw.attribute_definitions
      /\ [ i \in DOMAIN defaults |-> AttributeOf("network", defaults[i]) ]
           = ntw.attribute_defaults
      /\ Attributes(W, << "network" >>) = ntw.attribute_values
      /\ Comment(W, << "network" >>) = ntw.comment
    BY NetworkReloads
<1>3. [ i \in DOMAIN names |-> LoadNode(W, names[i]) ] = PooledNodes(ntw)
    <2>1. \A i \in DOMAIN ntw.nodes : LoadNode(W, ntw.nodes[i].name) = PooledNode(ntw, ntw.nodes[i])
        BY NodeReloads
    <2>2. DOMAIN names = DOMAIN ntw.nodes /\ \A i \in DOMAIN ntw.nodes : names[i] = ntw.nodes[i].name
        OBVIOUS
    <2> HIDE DEF W, names
    <2> QED  BY <2>1, <2>2 DEF PooledNodes
<1>4. ms = Messages(ntw) /\ evs = Variables(ntw)
    <2>1. \A k \in {6, 8} : Of(W, SectionKind(k)) = SectionsOf(ntw)[k]
        BY WrittenOf
    <2>2. Of(W, SectionKind(6)) = SectionsOf(ntw)[6] /\ Of(W, SectionKind(8)) = SectionsOf(ntw)[8]
        BY <2>1
    <2> HIDE DEF W
    <2> QED  BY <2>2, SectionKinds, SectionAt
<1>5. [ i \in DOMAIN ms |-> LoadMessage(W, ms[i]) ] = PooledMessages(ntw)
    <2>1. \A i \in DOMAIN ntw.messages :
             LoadMessage(W, MessageLine(ntw.messages[i])) = PooledMessage(ntw, ntw.messages[i])
        BY MessageReloads
    <2>2. DOMAIN ms = DOMAIN ntw.messages /\ \A i \in DOMAIN ntw.messages : ms[i] = MessageLine(ntw.messages[i])
        BY <1>4 DEF Messages
    <2> HIDE DEF W, ms
    <2> QED  BY <2>1, <2>2 DEF PooledMessages
<1>6. [ i \in DOMAIN evs |-> LoadEnvVar(W, left, evs[i]) ] = PooledVariables(ntw)
    <2> DEFINE xs == ntw.environment_variables
    <2>1. \A i \in DOMAIN xs : LoadEnvVar(W, left, EnvVarLine(xs[i])) = PooledEnvVar(ntw, xs[i])
        BY EnvVarReloads
    <2>2. DOMAIN evs = DOMAIN xs /\ \A i \in DOMAIN xs : evs[i] = EnvVarLine(xs[i])
        BY <1>4 DEF Variables
    <2> HIDE DEF W, evs
    <2> QED  BY <2>1, <2>2 DEF PooledVariables
<1>7. [ i \in DOMAIN tables |-> LoadValueTable(W, tables[i]) ] = ReloadedTables(ntw)
    <2>1. \A o : About(W, "SGTYPE_", o) = << >>
        BY NoSignalTypes
    <2>2. tables = WrittenTablesOf(ntw)
        BY WrittenTables DEF WrittenTablesOf
    <2> HIDE DEF W, tables
    <2>3. \A st : LoadValueTable(W, st)
                    = [ name |-> Owner(st)[2], descriptions |-> Value(st), signal_type |-> << >> ]
        BY <2>1 DEF LoadValueTable
    <2> QED  BY <2>2, <2>3 DEF ReloadedTables
<1> DEFINE r1 == PooledNodes(ntw)
           r2 == ReloadedTables(ntw)
           r3 == PooledMessages(ntw)
           r4 == PooledVariables(ntw)
<1> HIDE DEF W, names, tables, ms, evs, defaults, r1, r2, r3, r4
<1>8. Load(W, left) =
        [ version |-> Head(Values(W, "VERSION")),
          new_symbols |-> FirstOr(Values(W, "NS_"), << >>),
          bit_timing |-> getBitTiming(W),
          nodes |-> [ i \in DOMAIN names |-> LoadNode(W, names[i]) ],
          value_tables |-> [ i \in DOMAIN tables |-> LoadValueTable(W, tables[i]) ],
          messages |-> [ i \in DOMAIN ms |-> LoadMessage(W, ms[i]) ],
          environment_variables |-> [ i \in DOMAIN evs |-> LoadEnvVar(W, left, evs[i]) ],
          attribute_definitions |-> Values(W, "BA_DEF_"),
          attribute_defaults |-> [ i \in DOMAIN defaults |->
                                     AttributeOf("network", defaults[i]) ],
          attribute_values |-> Attributes(W, << "network" >>),
          comment |-> Comment(W, << "network" >>) ]
    BY <1>1 DEF Load, tables, ms, evs, defaults
<1>9. Load(W, left) = Reloaded(ntw)
    BY <1>1, <1>2, <1>3, <1>5, <1>6, <1>7, <1>8 DEF Reloaded
<1> QED  BY <1>9 DEF W

NetworkWith(ntw, n, m, e) == [ ntw EXCEPT !.nodes = n, !.messages = m, !.environment_variables = e ]

(* Replacing fields of a network.                                           *)
LEMMA NetworkUpdated ==
    ASSUME NEW ntw, NEW n1, NEW n2, NEW n3, NEW n4, NEW n5, NEW n6, NEW n7, NEW n8, NEW n9,
           NEW n10, NEW n11, NEW n, NEW m, NEW e,
           ntw = [ version |-> n1, new_symbols |-> n2, bit_timing |-> n3, nodes |-> n4,
                   value_tables |-> n5, messages |-> n6, environment_variables |-> n7,
                   attribute_definitions |-> n8, attribute_defaults |-> n9,
                   attribute_values |-> n10, comment |-> n11 ]
    PROVE  NetworkWith(ntw, n, m, e)
             = [ version |-> n1, new_symbols |-> n2, bit_timing |-> n3, nodes |-> n,
                 value_tables |-> n5, messages |-> m, environment_variables |-> e,
                 attribute_definitions |-> n8, attribute_defaults |-> n9,
                 attribute_values |-> n10, comment |-> n11 ]
<1> DEFINE r1 == [ ntw EXCEPT !.nodes = n ]
<1>1. r1 = [ version |-> n1, new_symbols |-> n2, bit_timing |-> n3, nodes |-> n,
             value_tables |-> n5, messages |-> n6, environment_variables |-> n7,
             attribute_definitions |-> n8, attribute_defaults |-> n9,
             attribute_values |-> n10, comment |-> n11 ]
    OBVIOUS
<1>2. [ ntw EXCEPT !.nodes = n, !.messages = m, !.environment_variables = e ]
        = [ r1 EXCEPT !.messages = m, !.environment_variables = e ]
    OBVIOUS
<1> HIDE DEF r1
<1> DEFINE r2 == [ r1 EXCEPT !.messages = m ]
<1>3. r2 = [ version |-> n1, new_symbols |-> n2, bit_timing |-> n3, nodes |-> n,
             value_tables |-> n5, messages |-> m, environment_variables |-> n7,
             attribute_definitions |-> n8, attribute_defaults |-> n9,
             attribute_values |-> n10, comment |-> n11 ]
    BY <1>1
<1>4. [ r1 EXCEPT !.messages = m, !.environment_variables = e ]
        = [ r2 EXCEPT !.environment_variables = e ]
    OBVIOUS
<1> HIDE DEF r2
<1> DEFINE r3 == [ r2 EXCEPT !.environment_variables = e ]
<1>5. r3 = [ version |-> n1, new_symbols |-> n2, bit_timing |-> n3, nodes |-> n,
             value_tables |-> n5, messages |-> m, environment_variables |-> e,
             attribute_definitions |-> n8, attribute_defaults |-> n9,
             attribute_values |-> n10, comment |-> n11 ]
    BY <1>3
<1> QED  BY <1>2, <1>4, <1>5 DEF NetworkWith

(* The fields of Pooled(ntw).                                               *)
LEMMA PooledIs ==
    ASSUME NEW ntw, IsNetwork(ntw)
    PROVE  Pooled(ntw) =
             [ version |-> ntw.version, new_symbols |-> ntw.new_symbols,
               bit_timing |-> ntw.bit_timing, nodes |-> PooledNodes(ntw),
               value_tables |-> ntw.value_tables, messages |-> PooledMessages(ntw),
               environment_variables |-> PooledVariables(ntw),
               attribute_definitions |-> ntw.attribute_definitions,
               attribute_defaults |-> ntw.attribute_defaults,
               attribute_values |-> ntw.attribute_values, comment |-> ntw.comment ]
<1> DEFINE n == PooledNodes(ntw)
           m == PooledMessages(ntw)
           e == PooledVariables(ntw)
<1>1. Pooled(ntw) = [ ntw EXCEPT
            !.nodes    = [ i \in DOMAIN @ |-> PooledNode(ntw, @[i]) ],
            !.messages = [ i \in DOMAIN @ |-> PooledMessage(ntw, @[i]) ],
            !.environment_variables = [ i \in DOMAIN @ |-> PooledEnvVar(ntw, @[i]) ] ]
    BY DEF Pooled
<1>2. Pooled(ntw) = NetworkWith(ntw, n, m, e)
    BY <1>1 DEF NetworkWith, PooledNodes, PooledMessages, PooledVariables
<1>3. ntw = [ version |-> ntw.version, new_symbols |-> ntw.new_symbols,
              bit_timing |-> ntw.bit_timing, nodes |-> ntw.nodes,
              value_tables |-> ntw.value_tables, messages |-> ntw.messages,
              environment_variables |-> ntw.environment_variables,
              attribute_definitions |-> ntw.attribute_definitions,
              attribute_defaults |-> ntw.attribute_defaults,
              attribute_values |-> ntw.attribute_values, comment |-> ntw.comment ]
    BY DEF IsNetwork
<1> HIDE DEF n, m, e
<1>4. NetworkWith(ntw, n, m, e)
        = [ version |-> ntw.version, new_symbols |-> ntw.new_symbols,
              bit_timing |-> ntw.bit_timing, nodes |-> n,
              value_tables |-> ntw.value_tables, messages |-> m,
              environment_variables |-> e,
              attribute_definitions |-> ntw.attribute_definitions,
              attribute_defaults |-> ntw.attribute_defaults,
              attribute_values |-> ntw.attribute_values, comment |-> ntw.comment ]
    BY <1>3, NetworkUpdated
<1> QED  BY <1>2, <1>4 DEF n, m, e

(* A value table that is written once is read back. *)
LEMMA TablesReload ==
    ASSUME NEW ntw, IsNetwork(ntw), NetworkFree(ntw, Escaped),
           \A i \in DOMAIN ntw.value_tables :
              /\ ntw.value_tables[i].signal_type = << >>
              /\ ntw.value_tables[i].descriptions # << >>
    PROVE  ReloadedTables(ntw) = ntw.value_tables
<1> DEFINE vts == ntw.value_tables
           t == [ i \in DOMAIN vts |-> TableSt(vts[i]) ]
           s == SignalTypeSection(ntw)
<1>1. Sequence(vts) /\ \A i \in DOMAIN vts : IsValueTable(vts[i]) /\ TextsFree(vts[i], Escaped)
    BY DEF IsNetwork, NetworkFree
<1>2. s = << >>
    <2>1. Sequence(s) /\ ToSet(s) = { TableSt(vts[i]) :
                          i \in { j \in DOMAIN vts : /\ vts[j].descriptions # << >>
                                                     /\ vts[j].signal_type # << >> } }
        BY <1>1, TablesAre DEF OfKind
    <2>2. { j \in DOMAIN vts : vts[j].descriptions # << >> /\ vts[j].signal_type # << >> } = {}
        OBVIOUS
    <2>3. ToSet(s) = {}
        BY <2>1, <2>2
    <2> HIDE DEF s
    <2>4. DOMAIN s = {}
        BY <2>3 DEF ToSet
    <2> QED  BY <2>1, <2>4, NoDomain
<1>3. Tables(ntw) = t
    <2>1. \A i \in DOMAIN vts : ValueTableLine(vts[i]) = << t[i] >>
        BY DEF ValueTableLine, Optional, TableSt
    <2>2. Tables(ntw) = FlattenSeq([ i \in DOMAIN vts |-> ValueTableLine(vts[i]) ])
        BY DEF Tables, Each
    <2>3. DOMAIN t = DOMAIN vts /\ t = [ i \in DOMAIN vts |-> t[i] ]
        OBVIOUS
    <2> HIDE DEF t, vts
    <2>4. FlattenSeq([ i \in DOMAIN vts |-> << t[i] >> ]) = t
        BY <1>1, <2>3, EachOne
    <2> QED  BY <2>1, <2>2, <2>4
<1>4. Sequence(t)
    <2>1. DOMAIN t = DOMAIN vts /\ t = [ i \in DOMAIN vts |-> t[i] ]
        OBVIOUS
    <2> HIDE DEF t
    <2> QED  BY <2>1, <1>1, MadeOf
<1>5. WrittenTablesOf(ntw) = t
    <2> HIDE DEF t, s
    <2>1. WrittenTablesOf(ntw) = t \o s
        BY <1>3 DEF WrittenTablesOf, s
    <2> QED  BY <2>1, <1>2, <1>4, ConcatEmpty
<1>6. \A i \in DOMAIN vts :
        [ name |-> Owner(t[i])[2], descriptions |-> Value(t[i]), signal_type |-> << >> ] = vts[i]
    <2> SUFFICES ASSUME NEW i \in DOMAIN vts
                 PROVE  [ name |-> Owner(t[i])[2], descriptions |-> Value(t[i]),
                          signal_type |-> << >> ] = vts[i]
        OBVIOUS
    <2>1. Owner(t[i])[2] = vts[i].name /\ Value(t[i]) = QuotedAll(vts[i].descriptions)
        BY DEF TableSt, Owner, Value, St
    <2>2. QuotedAll(vts[i].descriptions) = vts[i].descriptions
        BY <1>1, QuotedAllIs DEF IsValueTable, TextsFree
    <2>3. vts[i] = [ name |-> vts[i].name, descriptions |-> vts[i].descriptions,
                     signal_type |-> vts[i].signal_type ]
        BY <1>1 DEF IsValueTable
    <2>4. vts[i].signal_type = << >>
        OBVIOUS
    <2> HIDE DEF t
    <2> QED  BY <2>1, <2>2, <2>3, <2>4
<1>7. DOMAIN t = DOMAIN vts
    OBVIOUS
<1> DEFINE u == ReloadedTables(ntw)
<1>8. DOMAIN u = DOMAIN vts /\ u = [ i \in DOMAIN vts |-> u[i] ] /\ \A i \in DOMAIN vts : u[i] = vts[i]
    <2> HIDE DEF t, vts
    <2> QED  BY <1>5, <1>6, <1>7 DEF ReloadedTables
<1> HIDE DEF u, vts
<1>9. Sequence(u)
    BY <1>1, <1>8, MadeOf
<1> QED  BY <1>1, <1>8, <1>9, SequenceEqual DEF u, vts

(* A writable network of which all texts are read as written has no text    *)
(* with an escape.                                                          *)
LEMMA NoEscapes ==
    ASSUME NEW ntw, Writable(ntw), ReadAsWritten(ntw)
    PROVE  NetworkFree(ntw, Escaped)
<1> DEFINE texts == AllTexts(ntw)
<1>1. texts \cap QuotedTexts = {} /\ texts \cap DOMAIN Misread = {}
    BY DEF Writable, ReadAsWritten
<1> HIDE DEF texts
<1>2. texts \cap Escaped = {}
    BY <1>1 DEF Escaped
<1> QED  BY <1>2, AllTextsAre DEF texts

(* A representable network is read back as Pooled says.                     *)
LEMMA RepresentableReloads ==
    ASSUME NEW ntw, IsNetwork(ntw), Representable(ntw), NEW left
    PROVE  Load(Write(ntw), left) = Pooled(ntw)
<1>1. /\ Writable(ntw) /\ Named(ntw) /\ ReadAsWritten(ntw)
      /\ ntw.bit_timing = << 0, 0, 0 >> \/ \A i \in 1 .. 3 : ntw.bit_timing[i] # 0
      /\ \A i \in DOMAIN ntw.value_tables :
            /\ ntw.value_tables[i].signal_type = << >>
            /\ ntw.value_tables[i].descriptions # << >>
    BY DEF Representable, All
<1>2. NetworkFree(ntw, Escaped)
    BY <1>1, NoEscapes
<1>3. \A i \in DOMAIN ntw.environment_variables : ntw.environment_variables[i].var_type # NoVarType
    BY <1>1 DEF Writable, All
<1>4. Load(Write(ntw), left) = Reloaded(ntw)
    BY <1>1, <1>2, <1>3, LoadWritten
<1>5. ReloadedTables(ntw) = ntw.value_tables
    BY <1>1, <1>2, TablesReload
<1>6. ReloadedTiming(ntw) = ntw.bit_timing
    BY <1>1 DEF ReloadedTiming
<1>7. Reloaded(ntw) = Pooled(ntw)
    BY <1>5, <1>6, PooledIs DEF Reloaded
<1> QED  BY <1>4, <1>7

-----------------------------------------------------------------------------
(* Unique names. *)

(* With unique names an object is its only twin. *)
LEMMA TwinAlone ==
    ASSUME NEW list, Sequence(list), NEW C, NEW k \in DOMAIN list,
           \A i \in DOMAIN list : i \in C <=> i = k
    PROVE  Twins(list, C) = << list[k] >>
<1> DEFINE parts == [ i \in DOMAIN list |-> Optional(i \in C, list[i]) ]
<1>1. DOMAIN parts = DOMAIN list /\ parts = [ i \in DOMAIN list |-> parts[i] ]
    OBVIOUS
<1>2. /\ \A i \in DOMAIN list : Sequence(parts[i]) /\ (i # k => parts[i] = << >>)
      /\ parts[k] = << list[k] >>
    BY SequenceOne, SequenceEmpty DEF Optional
<1>3. Twins(list, C) = FlattenSeq(parts)
    BY DEF Twins
<1> HIDE DEF parts
<1>4. Sequences(parts)
    BY <1>1, <1>2, MadeOf DEF Sequences
<1> QED  BY <1>1, <1>2, <1>3, <1>4, FlattenOnly

(* What is made of the only element of a list. *)
LEMMA MadeOfOne ==
    ASSUME NEW x, NEW t, DOMAIN t = DOMAIN << x >>, t = [ i \in DOMAIN << x >> |-> t[i] ],
           Sequence(t[1])
    PROVE  FlattenSeq(t) = t[1]
<1>1. DOMAIN << x >> = {1} /\ Sequence(<< x >>)
    BY SequenceOne
<1>2. Sequence(t)
    <2> DEFINE s == << x >>
    <2>1. Sequence(s) /\ DOMAIN t = DOMAIN s /\ t = [ i \in DOMAIN s |-> t[i] ]
        BY <1>1
    <2> HIDE DEF s
    <2> QED  BY <2>1, MadeOf
<1>3. Sequences(t)
    BY <1>1, <1>2 DEF Sequences
<1> QED  BY <1>1, <1>3, FlattenOnly

(* The first and the last of at most one value.                             *)
LEMMA OptionalEnds ==
    ASSUME NEW v, NEW none
    PROVE  /\ FirstOr(Optional(v # none, v), none) = v
           /\ LastOr(Optional(v # none, v), none) = v
<1>1. CASE v = none
    BY <1>1 DEF FirstOr, LastOr, Optional
<1>2. CASE v # none
    <2>1. Optional(v # none, v) = << v >>
        BY <1>2 DEF Optional
    <2>2. << v >> # << >> /\ Head(<< v >>) = v /\ Last(<< v >>) = v
        BY DEF Last
    <2> QED  BY <2>1, <2>2 DEF FirstOr, LastOr
<1> QED  BY <1>1, <1>2

(* What the only twin has: attributes, comment and descriptions;            *)
LEMMA AloneTexts ==
    ASSUME NEW x
    PROVE  /\ Sequence(x.attributes) => PooledAttributes(<< x >>) = x.attributes
           /\ PooledComment(<< x >>) = x.comment
           /\ PooledDescriptions(<< x >>) = x.descriptions
<1> DEFINE s == << x >>
           a == [ i \in DOMAIN s |-> s[i].attributes ]
           cs == [ i \in DOMAIN s |-> Optional(s[i].comment # "", s[i].comment) ]
           d == [ i \in DOMAIN s |-> Optional(s[i].descriptions # << >>, s[i].descriptions) ]
<1>1. DOMAIN s = {1} /\ s[1] = x
    OBVIOUS
<1>2. ASSUME Sequence(x.attributes)
      PROVE  PooledAttributes(s) = x.attributes
    <2>1. DOMAIN a = DOMAIN s /\ a = [ i \in DOMAIN s |-> a[i] ] /\ a[1] = x.attributes
        BY <1>1
    <2>2. PooledAttributes(s) = FlattenSeq(a)
        BY DEF PooledAttributes, Each
    <2> HIDE DEF a
    <2> QED  BY <1>2, <2>1, <2>2, MadeOfOne
<1>3. PooledComment(s) = x.comment
    <2>1. DOMAIN cs = DOMAIN s /\ cs = [ i \in DOMAIN s |-> cs[i] ] /\ cs[1] = Optional(x.comment # "", x.comment)
        BY <1>1
    <2>2. PooledComment(s) = LastOr(FlattenSeq(cs), "")
        BY DEF PooledComment, LastOf, Some, Each
    <2> HIDE DEF cs, s
    <2>3. Sequence(cs[1])
        <3> DEFINE v == x.comment
        <3>1. cs[1] = IF v # "" THEN << v >> ELSE << >>
            BY <2>1 DEF Optional
        <3> HIDE DEF v
        <3>2. Sequence(<< v >>) /\ Sequence(<< >>)
            BY SequenceOne, SequenceEmpty
        <3> QED  BY <3>1, <3>2
    <2>4. FlattenSeq(cs) = cs[1]
        BY <2>1, <2>3, MadeOfOne DEF s
    <2>5. LastOr(Optional(x.comment # "", x.comment), "") = x.comment
        BY OptionalEnds
    <2> QED  BY <2>1, <2>2, <2>4, <2>5
<1>4. PooledDescriptions(s) = x.descriptions
    <2>1. DOMAIN d = DOMAIN s /\ d = [ i \in DOMAIN s |-> d[i] ]
          /\ d[1] = Optional(x.descriptions # << >>, x.descriptions)
        BY <1>1
    <2>2. PooledDescriptions(s) = LastOr(FlattenSeq(d), << >>)
        BY DEF PooledDescriptions, LastOf, Some, Each
    <2>3. Sequence(d[1])
        BY <2>1, OptionalIs
    <2> HIDE DEF d
    <2>4. FlattenSeq(d) = d[1]
        BY <2>1, <2>3, MadeOfOne
    <2> QED  BY <2>1, <2>2, <2>4, OptionalEnds
<1> QED  BY <1>2, <1>3, <1>4

(* the other fields.                                                        *)
LEMMA AloneLists ==
    ASSUME NEW x
    PROVE  /\ FirstOf(<< x >>, LAMBDA y : y.extended_type, "Integer") = x.extended_type
           /\ FirstOf(<< x >>, LAMBDA y : y.transmitters, << >>) = x.transmitters
           /\ Sequence(x.signal_groups) =>
                Each(<< x >>, LAMBDA y : y.signal_groups) = x.signal_groups
           /\ Sequence(x.multiplexer_values) =>
                Each(<< x >>, LAMBDA y : y.multiplexer_values) = x.multiplexer_values
           /\ Each(<< x >>, LAMBDA y : Optional(y.var_type = "Data", y.data_size))
                = Optional(x.var_type = "Data", x.data_size)
<1> DEFINE s == << x >>
           e == [ i \in DOMAIN s |-> Optional(s[i].extended_type # "Integer", s[i].extended_type) ]
           t == [ i \in DOMAIN s |-> Optional(s[i].transmitters # << >>, s[i].transmitters) ]
           g == [ i \in DOMAIN s |-> s[i].signal_groups ]
           v == [ i \in DOMAIN s |-> s[i].multiplexer_values ]
           z == [ i \in DOMAIN s |-> Optional(s[i].var_type = "Data", s[i].data_size) ]
<1>1. DOMAIN s = {1} /\ s[1] = x
    OBVIOUS
<1>2. FirstOf(s, LAMBDA y : y.extended_type, "Integer") = x.extended_type
    <2>1. DOMAIN e = DOMAIN s /\ e = [ i \in DOMAIN s |-> e[i] ]
          /\ e[1] = Optional(x.extended_type # "Integer", x.extended_type)
        BY <1>1
    <2>2. FirstOf(s, LAMBDA y : y.extended_type, "Integer") = FirstOr(FlattenSeq(e), "Integer")
        BY DEF FirstOf, Some, Each
    <2>3. Sequence(e[1])
        BY <2>1, OptionalIs
    <2> HIDE DEF e
    <2>4. FlattenSeq(e) = e[1]
        BY <2>1, <2>3, MadeOfOne
    <2> QED  BY <2>1, <2>2, <2>4, OptionalEnds
<1>3. FirstOf(s, LAMBDA y : y.transmitters, << >>) = x.transmitters
    <2>1. DOMAIN t = DOMAIN s /\ t = [ i \in DOMAIN s |-> t[i] ]
          /\ t[1] = Optional(x.transmitters # << >>, x.transmitters)
        BY <1>1
    <2>2. FirstOf(s, LAMBDA y : y.transmitters, << >>) = FirstOr(FlattenSeq(t), << >>)
        BY DEF FirstOf, Some, Each
    <2>3. Sequence(t[1])
        BY <2>1, OptionalIs
    <2> HIDE DEF t
    <2>4. FlattenSeq(t) = t[1]
        BY <2>1, <2>3, MadeOfOne
    <2> QED  BY <2>1, <2>2, <2>4, OptionalEnds
<1>4. ASSUME Sequence(x.signal_groups)
      PROVE  Each(s, LAMBDA y : y.signal_groups) = x.signal_groups
    <2>1. DOMAIN g = DOMAIN s /\ g = [ i \in DOMAIN s |-> g[i] ] /\ g[1] = x.signal_groups
        BY <1>1
    <2>2. Each(s, LAMBDA y : y.signal_groups) = FlattenSeq(g)
        BY DEF Each
    <2> HIDE DEF g
    <2> QED  BY <1>4, <2>1, <2>2, MadeOfOne
<1>5. ASSUME Sequence(x.multiplexer_values)
      PROVE  Each(s, LAMBDA y : y.multiplexer_values) = x.multiplexer_values
    <2>1. DOMAIN v = DOMAIN s /\ v = [ i \in DOMAIN s |-> v[i] ] /\ v[1] = x.multiplexer_values
        BY <1>1
    <2>2. Each(s, LAMBDA y : y.multiplexer_values) = FlattenSeq(v)
        BY DEF Each
    <2> HIDE DEF v
    <2> QED  BY <1>5, <2>1, <2>2, MadeOfOne
<1>6. Each(s, LAMBDA y : Optional(y.var_type = "Data", y.data_size))
        = Optional(x.var_type = "Data", x.data_size)
    <2>1. DOMAIN z = DOMAIN s /\ z = [ i \in DOMAIN s |-> z[i] ]
          /\ z[1] = Optional(x.var_type = "Data", x.data_size)
        BY <1>1
    <2>2. Each(s, LAMBDA y : Optional(y.var_type = "Data", y.data_size)) = FlattenSeq(z)
        BY DEF Each
    <2>3. Sequence(z[1])
        BY <2>1, OptionalIs
    <2> HIDE DEF z
    <2> QED  BY <2>1, <2>2, <2>3, MadeOfOne
<1> QED  BY <1>2, <1>3, <1>4, <1>5, <1>6

(* What unique names say of the indices. *)
UniqueIn(ntw) ==
    /\ \A i, j \in DOMAIN ntw.nodes : ntw.nodes[i].name = ntw.nodes[j].name => i = j
    /\ \A i, j \in DOMAIN ntw.messages : ntw.messages[i].id = ntw.messages[j].id => i = j
    /\ \A k \in DOMAIN ntw.messages : \A i, j \in DOMAIN ntw.messages[k].signals :
          ntw.messages[k].signals[i].name = ntw.messages[k].signals[j].name => i = j
    /\ \A i, j \in DOMAIN ntw.environment_variables :
          ntw.environment_variables[i].name = ntw.environment_variables[j].name => i = j

(* UniqueNames says that, without operators for arguments.                  *)
LEMMA UniqueNamesAre ==
    ASSUME NEW ntw, UniqueNames(ntw)
    PROVE  UniqueIn(ntw)
<1> USE DEF UniqueNames, Distinct, All
<1>1. \A i, j \in DOMAIN ntw.nodes : ntw.nodes[i].name = ntw.nodes[j].name => i = j
    OBVIOUS
<1>2. \A i, j \in DOMAIN ntw.messages : ntw.messages[i].id = ntw.messages[j].id => i = j
    OBVIOUS
<1>3. \A k \in DOMAIN ntw.messages : \A i, j \in DOMAIN ntw.messages[k].signals :
          ntw.messages[k].signals[i].name = ntw.messages[k].signals[j].name => i = j
    OBVIOUS
<1>4. \A i, j \in DOMAIN ntw.environment_variables :
          ntw.environment_variables[i].name = ntw.environment_variables[j].name => i = j
    OBVIOUS
<1> QED  BY <1>1, <1>2, <1>3, <1>4 DEF UniqueIn

(* Pooling changes no node of a network with unique names,                  *)
LEMMA NodeAlone ==
    ASSUME NEW ntw, IsNetwork(ntw), UniqueIn(ntw), NEW i \in DOMAIN ntw.nodes
    PROVE  PooledNode(ntw, ntw.nodes[i]) = ntw.nodes[i]
<1> DEFINE n == ntw.nodes[i]
           T == Twins(ntw.nodes, WithName(ntw.nodes, n.name))
<1>1. Sequence(ntw.nodes) /\ IsNode(n)
    BY DEF IsNetwork
<1>2. T = << n >>
    <2>1. \A j \in DOMAIN ntw.nodes : j \in WithName(ntw.nodes, n.name) <=> j = i
        BY DEF UniqueIn, WithName
    <2> QED  BY <1>1, <2>1, TwinAlone
<1>3. PooledNode(ntw, n) = NodeWith(n, PooledAttributes(T), PooledComment(T))
    BY TwinsNamed DEF PooledNode, NodeWith
<1> HIDE DEF T, n
<1>4. Sequence(n.attributes)
    BY <1>1 DEF IsNode, IsAttributes
<1>5. PooledAttributes(T) = n.attributes /\ PooledComment(T) = n.comment
    BY <1>2, <1>4, AloneTexts
<1>6. n = [ name |-> n.name, comment |-> n.comment, attributes |-> n.attributes ]
    BY <1>1 DEF IsNode
<1> DEFINE a == n.attributes
           c == n.comment
<1>7. NodeWith(n, a, c) = [ name |-> n.name, comment |-> c, attributes |-> a ]
    <2> HIDE DEF a, c
    <2> QED  BY <1>6, NodeUpdated
<1>8. PooledNode(ntw, n) = n
    BY <1>3, <1>5, <1>6, <1>7
<1> QED  BY <1>8 DEF n

(* no signal of a message with unique names,                                *)
LEMMA SignalAlone ==
    ASSUME NEW m, IsMessage(m), NEW j \in DOMAIN m.signals,
           \A k, l \in DOMAIN m.signals : m.signals[k].name = m.signals[l].name => k = l
    PROVE  PooledSignal(<< m >>, m.signals[j]) = m.signals[j]
<1> DEFINE s == m.signals[j]
           T == Twins(m.signals, WithName(m.signals, s.name))
           M == << m >>
           a == PooledAttributes(T)
           c == PooledComment(T)
           d == PooledDescriptions(T)
           e == FirstOf(T, LAMBDA x : x.extended_type, "Integer")
           v == Each(T, LAMBDA x : x.multiplexer_values)
<1>1. Sequence(m.signals) /\ IsSignal(s)
    BY DEF IsMessage
<1>2. T = << s >>
    <2>1. \A k \in DOMAIN m.signals : k \in WithName(m.signals, s.name) <=> k = j
        BY DEF WithName
    <2> QED  BY <1>1, <2>1, TwinAlone
<1>3. Each(M, LAMBDA y : Each(y.signals, LAMBDA x : Optional(x.name = s.name, x))) = T
    <2> DEFINE t == [ i \in DOMAIN << m >> |-> Each(<< m >>[i].signals, LAMBDA x : Optional(x.name = s.name, x)) ]
    <2>1. DOMAIN t = DOMAIN << m >> /\ t = [ i \in DOMAIN << m >> |-> t[i] ]
        OBVIOUS
    <2>2. t[1] = Each(m.signals, LAMBDA x : Optional(x.name = s.name, x))
        OBVIOUS
    <2>3. t[1] = T
        BY <2>2, TwinsNamed
    <2>4. Sequence(t[1])
        BY <2>3, <1>2, SequenceOne
    <2>5. Each(M, LAMBDA y : Each(y.signals, LAMBDA x : Optional(x.name = s.name, x))) = FlattenSeq(t)
        BY DEF Each
    <2> HIDE DEF t, T
    <2>6. FlattenSeq(t) = t[1]
        BY <2>1, <2>4, MadeOfOne
    <2> QED  BY <2>3, <2>5, <2>6
<1>4. PooledSignal(M, s) = SignalWith(s, a, c, d, e, v)
    <2> HIDE DEF T, M
    <2> QED  BY <1>3 DEF PooledSignal, SignalWith
<1> HIDE DEF T, s, M
<1>5. /\ Sequence(s.attributes) /\ Sequence(s.multiplexer_values)
    BY <1>1 DEF IsSignal, IsAttributes
<1>6. /\ a = s.attributes /\ c = s.comment /\ d = s.descriptions
    BY <1>2, <1>5, AloneTexts
<1>7. e = s.extended_type
    BY <1>2, AloneLists
<1>8. v = s.multiplexer_values
    BY <1>2, <1>5, AloneLists
<1> HIDE DEF a, c, d, e, v
<1>9. s = [ name |-> s.name, multiplexer |-> s.multiplexer, switch_value |-> s.switch_value,
            head |-> s.head, unit |-> s.unit, receivers |-> s.receivers, attributes |-> s.attributes,
            descriptions |-> s.descriptions, comment |-> s.comment,
            extended_type |-> s.extended_type,
            multiplexer_values |-> s.multiplexer_values ]
    BY <1>1 DEF IsSignal
<1>10. SignalWith(s, a, c, d, e, v)
         = [ name |-> s.name, multiplexer |-> s.multiplexer, switch_value |-> s.switch_value,
             head |-> s.head, unit |-> s.unit, receivers |-> s.receivers, attributes |-> a, descriptions |-> d,
             comment |-> c, extended_type |-> e, multiplexer_values |-> v ]
    BY <1>9, SignalUpdated
<1>11. PooledSignal(M, s) = s
    BY <1>4, <1>6, <1>7, <1>8, <1>9, <1>10
<1> QED  BY <1>11 DEF s, M

(* no message                                                               *)
LEMMA MessageAlone ==
    ASSUME NEW ntw, IsNetwork(ntw), UniqueIn(ntw), NEW i \in DOMAIN ntw.messages
    PROVE  PooledMessage(ntw, ntw.messages[i]) = ntw.messages[i]
<1> DEFINE m == ntw.messages[i]
           T == Twins(ntw.messages, WithId(ntw.messages, m.id))
           a == PooledAttributes(T)
           c == PooledComment(T)
           t == FirstOf(T, LAMBDA x : x.transmitters, << >>)
           g == Each(T, LAMBDA x : x.signal_groups)
           l == [ j \in DOMAIN m.signals |-> PooledSignal(T, m.signals[j]) ]
<1>1. Sequence(ntw.messages) /\ IsMessage(m)
    BY DEF IsNetwork
<1>2. T = << m >>
    <2>1. \A j \in DOMAIN ntw.messages : j \in WithId(ntw.messages, m.id) <=> j = i
        BY DEF UniqueIn, WithId
    <2> QED  BY <1>1, <2>1, TwinAlone
<1>3. PooledMessage(ntw, m) = MessageWith(m, a, c, t, g, l)
    <2>1. Each(ntw.messages, LAMBDA x : Optional(x.id = m.id, x)) = T
        BY TwinsWithId
    <2> HIDE DEF T
    <2> QED  BY <2>1 DEF PooledMessage, MessageWith
<1>4. \A j, k \in DOMAIN m.signals : m.signals[j].name = m.signals[k].name => j = k
    BY DEF UniqueIn
<1> HIDE DEF T, m
<1>5. Sequence(m.attributes) /\ Sequence(m.signal_groups) /\ Sequence(m.signals)
    BY <1>1 DEF IsMessage, IsAttributes
<1>6. a = m.attributes /\ c = m.comment
    BY <1>2, <1>5, AloneTexts
<1>7. t = m.transmitters
    BY <1>2, AloneLists
<1>8. g = m.signal_groups
    BY <1>2, <1>5, AloneLists
<1>9. l = m.signals
    <2>1. \A j \in DOMAIN m.signals : PooledSignal(T, m.signals[j]) = m.signals[j]
        BY <1>1, <1>2, <1>4, SignalAlone
    <2>2. DOMAIN l = DOMAIN m.signals /\ l = [ j \in DOMAIN m.signals |-> l[j] ]
          /\ \A j \in DOMAIN m.signals : l[j] = m.signals[j]
        BY <2>1
    <2> DEFINE ss == m.signals
    <2> HIDE DEF l, ss
    <2>3. Sequence(l)
        BY <1>5, <2>2, MadeOf DEF ss
    <2> QED  BY <1>5, <2>2, <2>3, SequenceEqual DEF ss
<1> HIDE DEF a, c, t, g, l
<1>10. m = [ id |-> m.id, name |-> m.name, transmitter |-> m.transmitter, size |-> m.size,
             signals |-> m.signals,
             transmitters |-> m.transmitters, attributes |-> m.attributes,
             comment |-> m.comment, signal_groups |-> m.signal_groups ]
    BY <1>1 DEF IsMessage
<1>11. MessageWith(m, a, c, t, g, l)
         = [ id |-> m.id, name |-> m.name, transmitter |-> m.transmitter, size |-> m.size,
             signals |-> l, transmitters |-> t,
             attributes |-> a, comment |-> c, signal_groups |-> g ]
    BY <1>10, MessageUpdated
<1>12. PooledMessage(ntw, m) = m
    BY <1>3, <1>6, <1>7, <1>8, <1>9, <1>10, <1>11
<1> QED  BY <1>12 DEF m

(* and no environment variable.                                             *)
LEMMA EnvVarAlone ==
    ASSUME NEW ntw, IsNetwork(ntw), UniqueIn(ntw), NEW i \in DOMAIN ntw.environment_variables
    PROVE  PooledEnvVar(ntw, ntw.environment_variables[i]) = ntw.environment_variables[i]
<1> DEFINE evs == ntw.environment_variables
           ev == evs[i]
           T == Twins(evs, WithName(evs, ev.name))
           a == PooledAttributes(T)
           c == PooledComment(T)
           d == PooledDescriptions(T)
           data == Each(T, LAMBDA x : Optional(x.var_type = "Data", x.data_size))
           v == IF data = << >> THEN ev.var_type ELSE "Data"
           z == FirstOr(data, 0)
<1>1. Sequence(evs) /\ IsEnvVar(ev)
    BY DEF IsNetwork
<1>2. T = << ev >>
    <2>1. \A j \in DOMAIN evs : j \in WithName(evs, ev.name) <=> j = i
        BY DEF UniqueIn, WithName
    <2> QED  BY <1>1, <2>1, TwinAlone
<1>3. PooledEnvVar(ntw, ev) = EnvVarWith(ev, a, c, d, v, z)
    <2>1. Each(evs, LAMBDA x : Optional(x.name = ev.name, x)) = T
        BY TwinsNamed
    <2>2. PooledEnvVar(ntw, ev)
            = [ ev EXCEPT !.attributes = a, !.comment = c, !.descriptions = d,
                          !.var_type = IF data = << >> THEN @ ELSE "Data",
                          !.data_size = z ]
        <3> HIDE DEF T
        <3> QED  BY <2>1 DEF PooledEnvVar
    <2> HIDE DEF data, a, c, d, z
    <2>3. [ ev EXCEPT !.attributes = a, !.comment = c, !.descriptions = d,
                      !.var_type = IF data = << >> THEN @ ELSE "Data",
                      !.data_size = z ]
            = [ ev EXCEPT !.attributes = a, !.comment = c, !.descriptions = d,
                          !.var_type = v, !.data_size = z ]
        OBVIOUS
    <2> QED  BY <2>2, <2>3 DEF EnvVarWith
<1> HIDE DEF T, ev, evs
<1>4. Sequence(ev.attributes) /\ (ev.var_type # "Data" => ev.data_size = 0)
    BY <1>1 DEF IsEnvVar, IsAttributes
<1>5. a = ev.attributes /\ c = ev.comment /\ d = ev.descriptions
    BY <1>2, <1>4, AloneTexts
<1>6. data = Optional(ev.var_type = "Data", ev.data_size)
    BY <1>2, AloneLists
<1> HIDE DEF data, a, c, d
<1>7. v = ev.var_type /\ z = ev.data_size
    <2>1. CASE ev.var_type = "Data"
        <3>1. data = << ev.data_size >>
            BY <1>6, <2>1 DEF Optional
        <3> QED  BY <3>1, <2>1 DEF FirstOr
    <2>2. CASE ev.var_type # "Data"
        <3>1. data = << >>
            BY <1>6, <2>2 DEF Optional
        <3> QED  BY <3>1, <2>2, <1>4 DEF FirstOr
    <2> QED  BY <2>1, <2>2
<1> HIDE DEF v, z
<1>8. ev = [ name |-> ev.name, head |-> ev.head, maximum |-> ev.maximum,
             unit |-> ev.unit, var_type |-> ev.var_type, data_size |-> ev.data_size,
             access_type |-> ev.access_type, access_nodes |-> ev.access_nodes,
             descriptions |-> ev.descriptions, attributes |-> ev.attributes,
             comment |-> ev.comment ]
    BY <1>1 DEF IsEnvVar
<1>9. EnvVarWith(ev, a, c, d, v, z)
        = [ name |-> ev.name, head |-> ev.head, maximum |-> ev.maximum,
            unit |-> ev.unit, var_type |-> v,
            data_size |-> z, access_type |-> ev.access_type, access_nodes |-> ev.access_nodes,
            descriptions |-> d, attributes |-> a, comment |-> c ]
    BY <1>8, EnvVarUpdated
<1>10. PooledEnvVar(ntw, ev) = ev
    BY <1>3, <1>5, <1>7, <1>8, <1>9
<1> QED  BY <1>10 DEF ev, evs

(* Of unique names everything is read back where it was. *)
LEMMA PooledAlone ==
    ASSUME NEW ntw, IsNetwork(ntw), UniqueNames(ntw)
    PROVE  /\ PooledNodes(ntw) = ntw.nodes /\ PooledMessages(ntw) = ntw.messages
           /\ PooledVariables(ntw) = ntw.environment_variables
<1>1. UniqueIn(ntw)
    BY UniqueNamesAre
<1>2. PooledNodes(ntw) = ntw.nodes
    <2> DEFINE xs == ntw.nodes
               t == PooledNodes(ntw)
    <2>1. Sequence(xs)
        BY DEF IsNetwork
    <2>2. \A i \in DOMAIN xs : PooledNode(ntw, xs[i]) = xs[i]
        BY <1>1, NodeAlone
    <2>3. DOMAIN t = DOMAIN xs /\ t = [ i \in DOMAIN xs |-> t[i] ] /\ \A i \in DOMAIN xs : t[i] = xs[i]
        BY <2>2 DEF PooledNodes
    <2> HIDE DEF xs, t
    <2>4. Sequence(t)
        BY <2>1, <2>3, MadeOf
    <2>5. t = xs
        BY <2>1, <2>3, <2>4, SequenceEqual
    <2> QED  BY <2>5 DEF t, xs
<1>3. PooledMessages(ntw) = ntw.messages
    <2> DEFINE xs == ntw.messages
               t == PooledMessages(ntw)
    <2>1. Sequence(xs)
        BY DEF IsNetwork
    <2>2. \A i \in DOMAIN xs : PooledMessage(ntw, xs[i]) = xs[i]
        BY <1>1, MessageAlone
    <2>3. DOMAIN t = DOMAIN xs /\ t = [ i \in DOMAIN xs |-> t[i] ] /\ \A i \in DOMAIN xs : t[i] = xs[i]
        BY <2>2 DEF PooledMessages
    <2> HIDE DEF xs, t
    <2>4. Sequence(t)
        BY <2>1, <2>3, MadeOf
    <2>5. t = xs
        BY <2>1, <2>3, <2>4, SequenceEqual
    <2> QED  BY <2>5 DEF t, xs
<1>4. PooledVariables(ntw) = ntw.environment_variables
    <2> DEFINE xs == ntw.environment_variables
               t == PooledVariables(ntw)
    <2>1. Sequence(xs)
        BY DEF IsNetwork
    <2>2. \A i \in DOMAIN xs : PooledEnvVar(ntw, xs[i]) = xs[i]
        BY <1>1, EnvVarAlone
    <2>3. DOMAIN t = DOMAIN xs /\ t = [ i \in DOMAIN xs |-> t[i] ] /\ \A i \in DOMAIN xs : t[i] = xs[i]
        BY <2>2 DEF PooledVariables
    <2> HIDE DEF xs, t
    <2>4. Sequence(t)
        BY <2>1, <2>3, MadeOf
    <2>5. t = xs
        BY <2>1, <2>3, <2>4, SequenceEqual
    <2> QED  BY <2>5 DEF t, xs
<1> QED  BY <1>2, <1>3, <1>4

-----------------------------------------------------------------------------
(* Writing again. *)

(* What is written for value tables is read as tables that are written so.  *)
Tabled(w) ==
    \A i \in DOMAIN w :
       \E name, texts : /\ w[i] = St("VAL_TABLE_", << "table", name >>, texts)
                        /\ texts # << >> /\ QuotedAll(texts) = texts

(* The statements of both sections with value tables are such.              *)
LEMMA WrittenTabled ==
    ASSUME NEW ntw, IsNetwork(ntw), NetworkFree(ntw, Escaped)
    PROVE  /\ Sequence(WrittenTablesOf(ntw)) /\ Tabled(WrittenTablesOf(ntw))
           /\ Sequence(Tables(ntw)) /\ Sequence(SignalTypeSection(ntw))
<1> DEFINE vts == ntw.value_tables
           a == Tables(ntw)
           b == SignalTypeSection(ntw)
           w == WrittenTablesOf(ntw)
           Good(st) == \E name, texts : /\ st = St("VAL_TABLE_", << "table", name >>, texts)
                                        /\ texts # << >> /\ QuotedAll(texts) = texts
<1>1. Sequence(vts) /\ \A i \in DOMAIN vts : IsValueTable(vts[i]) /\ TextsFree(vts[i], Escaped)
    BY DEF IsNetwork, NetworkFree
<1>2. /\ Sequence(a) /\ Sequence(b)
      /\ \A st \in ToSet(a) : \E i \in DOMAIN vts : vts[i].descriptions # << >> /\ st = TableSt(vts[i])
      /\ \A st \in ToSet(b) : \E i \in DOMAIN vts : vts[i].descriptions # << >> /\ st = TableSt(vts[i])
    <2>1. /\ OfKind(a, "VAL_TABLE_") /\ OfKind(b, "VAL_TABLE_")
          /\ ToSet(a) = { TableSt(vts[i]) : i \in { j \in DOMAIN vts : vts[j].descriptions # << >> } }
          /\ ToSet(b) = { TableSt(vts[i]) :
                            i \in { j \in DOMAIN vts : /\ vts[j].descriptions # << >>
                                                       /\ vts[j].signal_type # << >> } }
        BY <1>1, TablesAre
    <2> HIDE DEF a, b, vts
    <2> QED  BY <2>1 DEF OfKind
<1>3. ASSUME NEW i \in DOMAIN vts, vts[i].descriptions # << >>
      PROVE  Good(TableSt(vts[i]))
    <2> DEFINE texts == vts[i].descriptions
    <2>1. QuotedAll(texts) = texts
        BY <1>1, QuotedAllIs DEF IsValueTable, TextsFree
    <2>2. TableSt(vts[i]) = St("VAL_TABLE_", << "table", vts[i].name >>, texts)
        BY <2>1 DEF TableSt
    <2>3. texts # << >>
        BY <1>3
    <2> HIDE DEF texts
    <2> QED  BY <2>1, <2>2, <2>3
<1> HIDE DEF Good, vts, a, b
<1>4. w = a \o b
    BY DEF WrittenTablesOf, a, b
<1>5. Sequence(w) /\ \A st \in ToSet(w) : st \in ToSet(a) \/ st \in ToSet(b)
    BY <1>2, <1>4, Appended
<1>6. \A st \in ToSet(w) : Good(st)
    BY <1>2, <1>3, <1>5
<1>7. \A i \in DOMAIN w : Good(w[i])
    <2> HIDE DEF w
    <2> QED  BY <1>6 DEF ToSet
<1> QED  BY <1>2, <1>5, <1>7 DEF Tabled, Good, w, a, b

(* The tables read from them are written as them, all in the first section. *)
LEMMA TablesRewritten ==
    ASSUME NEW ntw, NEW w, Sequence(w), Tabled(w),
           ntw.value_tables
             = [ i \in DOMAIN w |-> [ name |-> Owner(w[i])[2], descriptions |-> Value(w[i]),
                                      signal_type |-> << >> ] ]
    PROVE  Tables(ntw) = w /\ SignalTypeSection(ntw) = << >>
<1> DEFINE vts == ntw.value_tables
           Line(vt) == ValueTableLine(vt)
           none == [ i \in DOMAIN vts |-> IF vts[i].signal_type # << >> THEN ValueTableLine(vts[i]) ELSE << >> ]
<1>1. DOMAIN vts = DOMAIN w
    OBVIOUS
<1>2. \A i \in DOMAIN w : vts[i].name = Owner(w[i])[2] /\ vts[i].descriptions = Value(w[i])
                          /\ vts[i].signal_type = << >>
    OBVIOUS
<1> HIDE DEF vts
<1>3. \A i \in DOMAIN w : ValueTableLine(vts[i]) = << w[i] >>
    <2> TAKE i \in DOMAIN w
    <2>1. PICK name, texts : /\ w[i] = St("VAL_TABLE_", << "table", name >>, texts)
                             /\ texts # << >> /\ QuotedAll(texts) = texts
        BY DEF Tabled
    <2>2. Owner(w[i])[2] = name /\ Value(w[i]) = texts
        BY <2>1 DEF Owner, Value, St
    <2>3. ValueTableLine(vts[i]) = Optional(texts # << >>, St("VAL_TABLE_", << "table", name >>, QuotedAll(texts)))
        BY <1>2, <2>2 DEF ValueTableLine
    <2> QED  BY <2>1, <2>3 DEF Optional
<1>4. Tables(ntw) = w
    <2>1. Tables(ntw) = FlattenSeq([ i \in DOMAIN w |-> ValueTableLine(vts[i]) ])
        BY <1>1 DEF Tables, Each, vts
    <2>2. Tables(ntw) = FlattenSeq([ i \in DOMAIN w |-> << w[i] >> ])
        BY <1>3, <2>1
    <2> QED  BY <2>2, FlattenOnes
<1>5. SignalTypeSection(ntw) = << >>
    <2>1. SignalTypeSection(ntw) = FlattenSeq(none)
        BY DEF SignalTypeSection, Each, vts
    <2>2. DOMAIN none = DOMAIN w /\ none = [ i \in DOMAIN w |-> none[i] ]
          /\ \A i \in DOMAIN none : none[i] = << >>
        BY <1>1, <1>2
    <2> HIDE DEF none
    <2>3. Sequence(none)
        BY <2>2, MadeOf
    <2> QED  BY <2>1, <2>2, <2>3, FlattenEmpty
<1> QED  BY <1>4, <1>5

(* s is the list of what the file of a network has.                         *)
HoldsSections(s, ntw) ==
    /\ s[1] = << St("VERSION", << >>, Quoted(ntw.version)) >>
    /\ s[3] = << BitTimingLine(ntw.bit_timing) >>
    /\ s[4] = << NodesLine(ntw.nodes) >>
    /\ s[5] = Tables(ntw)
    /\ s[6] = Messages(ntw)
    /\ s[7] = MessagePart("BO_TX_BU_", ntw)
    /\ s[8] = Variables(ntw)
    /\ s[9] = EnvPart("ENVVAR_DATA_", ntw)
    /\ s[10] = SignalTypeSection(ntw)
    /\ s[11] = FiveParts("CM_", ntw)
    /\ s[12] = Lines("BA_DEF_", << >>, Definitions(ntw))
    /\ s[13] = Lines("BA_DEF_DEF_", << "network" >>, Defaults(ntw))
    /\ s[14] = FiveParts("BA_", ntw)
    /\ s[15] = SignalPart("VAL_", ntw) \o EnvPart("VAL_", ntw)
    /\ s[16] = MessagePart("SIG_GROUP_", ntw)
    /\ s[17] = SignalPart("SIG_VALTYPE_", ntw)
    /\ s[18] = SignalPart("SG_MUL_VAL_", ntw)
    /\ s[2] = << St("NS_", << >>, ntw.new_symbols) >>

(* The sections of a network, one by one. *)
LEMMA SectionsAreThese ==
    ASSUME NEW ntw
    PROVE  HoldsSections(SectionsOf(ntw), ntw)
  <1> DEFINE s == SectionsOf(ntw)
  <1> SUFFICES HoldsSections(s, ntw)
    OBVIOUS
  <1> QED
    BY SectionAt, Zenon DEF HoldsSections

(* What is written again but the value tables. *)
LEMMA SectionsRewritten ==
    ASSUME NEW ntw, NEW r,
           r.version = ntw.version, r.new_symbols = ntw.new_symbols,
           r.bit_timing = ReloadedTiming(ntw), r.nodes = ntw.nodes, r.messages = ntw.messages,
           r.environment_variables = ntw.environment_variables,
           r.attribute_definitions = ntw.attribute_definitions,
           r.attribute_defaults = ntw.attribute_defaults,
           r.attribute_values = ntw.attribute_values, r.comment = ntw.comment,
           NEW k \in 1 .. 18, k # 5, k # 10
    PROVE  SectionsOf(r)[k] = SectionsOf(ntw)[k]
<1>1. BitTimingLine(r.bit_timing) = BitTimingLine(ntw.bit_timing)
    BY DEF BitTimingLine, ReloadedTiming
<1>2. \A kind : /\ NetworkPart(kind, r) = NetworkPart(kind, ntw)
                /\ NodePart(kind, r) = NodePart(kind, ntw)
                /\ MessagePart(kind, r) = MessagePart(kind, ntw)
                /\ SignalPart(kind, r) = SignalPart(kind, ntw)
                /\ EnvPart(kind, r) = EnvPart(kind, ntw)
    BY DEF NetworkPart, NetworkSays, NodePart, MessagePart, SignalPart, EnvPart
<1>3. \A kind : FiveParts(kind, r) = FiveParts(kind, ntw)
    BY <1>2 DEF FiveParts
<1>4. /\ Messages(r) = Messages(ntw) /\ Variables(r) = Variables(ntw)
      /\ Defaults(r) = Defaults(ntw) /\ Definitions(r) = Definitions(ntw)
    BY DEF Messages, Variables, Defaults, Definitions
<1> DEFINE s == SectionsOf(ntw)
           t == SectionsOf(r)
<1>5. HoldsSections(s, ntw) /\ HoldsSections(t, r)
    BY SectionsAreThese
<1> HIDE DEF s, t
<1>6. t[1] = s[1] /\ t[2] = s[2] /\ t[3] = s[3] /\ t[4] = s[4]
    BY <1>1, <1>5, Zenon DEF HoldsSections
<1>7. t[6] = s[6] /\ t[8] = s[8] /\ t[12] = s[12] /\ t[13] = s[13]
    BY <1>4, <1>5 DEF HoldsSections
<1>8. t[7] = s[7] /\ t[9] = s[9] /\ t[15] = s[15] /\ t[16] = s[16] /\ t[17] = s[17] /\ t[18] = s[18]
    <2> DEFINE Parts(n) == << MessagePart("BO_TX_BU_", n), EnvPart("ENVVAR_DATA_", n),
                              SignalPart("VAL_", n) \o EnvPart("VAL_", n),
                              MessagePart("SIG_GROUP_", n), SignalPart("SIG_VALTYPE_", n),
                              SignalPart("SG_MUL_VAL_", n) >>
               a == Parts(ntw)
               b == Parts(r)
    <2>1. a = b
        BY <1>2
    <2>2. /\ s[7] = a[1] /\ s[9] = a[2] /\ s[15] = a[3]
          /\ s[16] = a[4] /\ s[17] = a[5] /\ s[18] = a[6]
        BY <1>5 DEF HoldsSections
    <2>3. /\ t[7] = b[1] /\ t[9] = b[2] /\ t[15] = b[3]
          /\ t[16] = b[4] /\ t[17] = b[5] /\ t[18] = b[6]
        BY <1>5 DEF HoldsSections
    <2> HIDE DEF a, b
    <2> QED  BY <2>1, <2>2, <2>3
<1>9. t[11] = s[11] /\ t[14] = s[14]
    BY <1>3, <1>5, Zenon DEF HoldsSections
<1>10. k \in {1, 2, 3, 4, 6, 7, 8, 9, 11, 12, 13, 14, 15, 16, 17, 18}
    OBVIOUS
<1>11. t[k] = s[k]
    BY <1>6, <1>7, <1>8, <1>9, <1>10
<1> QED  BY <1>11 DEF s, t

(* What is read back is written as the same file: where a table stood in    *)
(* the second section, nothing stood between.                               *)
LEMMA Rewritten ==
    ASSUME NEW ntw, IsNetwork(ntw), NetworkFree(ntw, Escaped), TablesApart(ntw), UniqueNames(ntw),
           IsNetwork(Reloaded(ntw))
    PROVE  Write(Reloaded(ntw)) = Write(ntw)
<1> DEFINE r == Reloaded(ntw)
           s == SectionsOf(ntw)
           t == SectionsOf(r)
<1>1. /\ Write(ntw) = FlattenSeq(s) /\ Write(r) = FlattenSeq(t)
    BY WrittenStatements
<1>2. /\ Sequences(s) /\ DOMAIN s = 1 .. 18 /\ Sequences(t) /\ DOMAIN t = 1 .. 18
    BY SectionsAreOfKind
<1>3. \A k \in 1 .. 18 : k # 5 /\ k # 10 => t[k] = s[k]
    <2>1. /\ PooledNodes(ntw) = ntw.nodes /\ PooledMessages(ntw) = ntw.messages
          /\ PooledVariables(ntw) = ntw.environment_variables
        BY PooledAlone
    <2>2. /\ r.version = ntw.version /\ r.new_symbols = ntw.new_symbols
          /\ r.bit_timing = ReloadedTiming(ntw) /\ r.nodes = ntw.nodes
          /\ r.messages = ntw.messages
          /\ r.environment_variables = ntw.environment_variables
          /\ r.attribute_definitions = ntw.attribute_definitions
          /\ r.attribute_defaults = ntw.attribute_defaults
          /\ r.attribute_values = ntw.attribute_values /\ r.comment = ntw.comment
        BY <2>1 DEF Reloaded
    <2> HIDE DEF r
    <2> QED  BY <2>2, SectionsRewritten
<1>4. /\ Sequence(Tables(ntw)) /\ Sequence(SignalTypeSection(ntw))
      /\ Sequence(WrittenTablesOf(ntw)) /\ Tabled(WrittenTablesOf(ntw))
    BY WrittenTabled
<1>5. t[5] = WrittenTablesOf(ntw) /\ t[10] = << >>
    <2> DEFINE w == WrittenTablesOf(ntw)
    <2>1. r.value_tables
            = [ i \in DOMAIN w |-> [ name |-> Owner(w[i])[2], descriptions |-> Value(w[i]),
                                     signal_type |-> << >> ] ]
        BY DEF Reloaded, ReloadedTables
    <2>2. Sequence(w) /\ Tabled(w)
        BY <1>4
    <2> HIDE DEF w, r
    <2>3. Tables(r) = w /\ SignalTypeSection(r) = << >>
        BY <2>1, <2>2, TablesRewritten
    <2> QED  BY <2>3, SectionAt DEF w
<1>6. s[5] = Tables(ntw) /\ s[10] = SignalTypeSection(ntw)
    BY SectionAt
<1>7. t[5] = s[5] \o s[10]
    BY <1>5, <1>6 DEF WrittenTablesOf
<1>8. CASE s[10] = << >>
    <2>1. Sequence(s[5])
        BY <1>4, <1>6
    <2> HIDE DEF s, t
    <2>2. s[5] \o s[10] = s[5]
        BY <1>8, <2>1, ConcatEmpty
    <2>3. \A k \in 1 .. 18 : t[k] = s[k]
        BY <1>3, <1>5, <1>7, <1>8, <2>2
    <2>4. t = s
        BY <1>2, <2>3, SequenceEqual DEF Sequences
    <2> QED  BY <1>1, <2>4
<1>9. CASE s[10] # << >>
    <2>1. ntw.messages = << >> /\ ntw.environment_variables = << >>
        BY <1>9, EmptySections DEF TablesApart
    <2>2. s[6] = << >> /\ s[7] = << >> /\ s[8] = << >> /\ s[9] = << >>
        BY <2>1, EmptySections
    <2> HIDE DEF s, t
    <2>3. \A i \in DOMAIN s : 5 < i /\ i < 10 => s[i] = << >>
        <3>1. \A i \in 1 .. 18 : 5 < i /\ i < 10 => i \in {6, 7, 8, 9}
            OBVIOUS
        <3> QED  BY <3>1, <2>2, <1>2
    <2>4. \A i \in DOMAIN s : i # 5 /\ i # 10 => t[i] = s[i]
        BY <1>2, <1>3
    <2>5. 5 \in DOMAIN s /\ 10 \in DOMAIN s /\ 5 < 10 /\ DOMAIN t = DOMAIN s
        BY <1>2
    <2> DEFINE k == 5
               l == 10
    <2>6. /\ k \in DOMAIN s /\ l \in DOMAIN s /\ k < l /\ t[k] = s[k] \o s[l] /\ t[l] = << >>
          /\ \A i \in DOMAIN s : i # k /\ i # l => t[i] = s[i]
          /\ \A i \in DOMAIN s : k < i /\ i < l => s[i] = << >>
        BY <1>5, <1>7, <2>3, <2>4, <2>5
    <2> HIDE DEF k, l
    <2>7. FlattenSeq(s) = FlattenSeq(t)
        BY <1>2, <2>5, <2>6, FlattenMoved
    <2> QED  BY <1>1, <2>7
<1> QED  BY <1>8, <1>9

(* Reading an accepted file and writing that gives the file, for a network  *)
(* with unique names.                                                       *)
LEMMA WritingSettles ==
    ASSUME NEW ntw, IsNetwork(ntw), Named(ntw), ReadAsWritten(ntw), UniqueNames(ntw),
           Accepts(Write(ntw)), NEW left \in LeftOnStack
    PROVE  Write(Load(Write(ntw), left)) = Write(ntw)
<1>1. Writable(ntw)
    BY WriteAccepted
<1>2. TablesApart(ntw)
    BY <1>1, WritableIs
<1>3. NetworkFree(ntw, Escaped)
    BY <1>1, NoEscapes
<1>4. \A i \in DOMAIN ntw.environment_variables : ntw.environment_variables[i].var_type # NoVarType
    BY <1>1 DEF Writable, All
<1>5. Load(Write(ntw), left) = Reloaded(ntw)
    BY <1>3, <1>4, LoadWritten
<1>6. IsNetwork(Reloaded(ntw))
    <2> DEFINE W == Write(ntw)
    <2>1. AcceptedFile(W)
        BY WriteParsed DEF AcceptedFile
    <2> HIDE DEF W
    <2>2. IsNetwork(Load(W, left))
        BY <2>1, LoadIsNetwork
    <2> QED  BY <2>2, <1>5 DEF W
<1>7. Write(Reloaded(ntw)) = Write(ntw)
    BY <1>2, <1>3, <1>6, Rewritten
<1> QED  BY <1>5, <1>7

-----------------------------------------------------------------------------
(* Sessions. *)

(* What a slot holds.                                                       *)
IsLoaded(ntw) == IsNetwork(ntw) /\ Named(ntw)

(* Every file is what a parser returns, every network what a loader builds, *)
(* and the file written last was written for such a network.                *)
FilesInv ==
    /\ files = [ s \in Slots |-> files[s] ]
    /\ \A s \in Slots : files[s] = None \/ ParsedFile(files[s])
NetsInv ==
    /\ nets = [ s \in Slots |-> nets[s] ]
    /\ \A s \in Slots : nets[s] = None \/ IsLoaded(nets[s])
SavedInv ==
    /\ saves \in Nat
    /\ saves = 0 => saved = None
    /\ saves # 0 => IsLoaded(origin) /\ saved = Write(origin)
SessionInv == FilesInv /\ NetsInv /\ SavedInv

(* A file with a parsed statement inserted.                                 *)
LEMMA InsertedParses ==
    ASSUME NEW file, ParsedFile(file), NEW st, Parsed(st), NEW place \in 1 .. Len(file) + 1
    PROVE  ParsedFile(InsertAt(file, place, st))
<1> DEFINE a == SubSeq(file, 1, place - 1)
           b == SubSeq(file, place, Len(file))
           c == << st >>
<1>1. Sequence(file) /\ Len(file) \in Nat /\ DOMAIN file = 1 .. Len(file)
    BY ListIs DEF ParsedFile, Sequence
<1>2. \A i \in DOMAIN file : Parsed(file[i])
    BY DEF ParsedFile
<1>3. Sequence(a) /\ \A x \in ToSet(a) : Parsed(x)
    <2>1. file \in Seq(ToSet(file))
        BY <1>1 DEF Sequence, ToSet
    <2>2. a \in Seq(ToSet(file)) /\ \A i \in DOMAIN a : a[i] \in ToSet(file)
        BY <2>1, <1>1
    <2>3. Sequence(a)
        <3> HIDE DEF a
        <3> QED  BY <2>2, SequenceIs
    <2> QED  BY <2>2, <2>3, <1>2 DEF ToSet
<1>4. Sequence(b) /\ \A x \in ToSet(b) : Parsed(x)
    <2>1. file \in Seq(ToSet(file))
        BY <1>1 DEF Sequence, ToSet
    <2>2. b \in Seq(ToSet(file)) /\ \A i \in DOMAIN b : b[i] \in ToSet(file)
        BY <2>1, <1>1
    <2>3. Sequence(b)
        <3> HIDE DEF b
        <3> QED  BY <2>2, SequenceIs
    <2> QED  BY <2>2, <2>3, <1>2 DEF ToSet
<1>5. Sequence(c) /\ \A x \in ToSet(c) : Parsed(x)
    BY DEF ToSet, Sequence
<1>6. InsertAt(file, place, st) = a \o c \o b
    BY DEF InsertAt
<1> HIDE DEF a, b, c
<1> DEFINE d == a \o c
<1>7. Sequence(d) /\ \A x \in ToSet(d) : x \in ToSet(a) \/ x \in ToSet(c)
    BY <1>3, <1>5, Appended
<1> HIDE DEF d
<1>8. Sequence(d \o b) /\ \A x \in ToSet(d \o b) : x \in ToSet(d) \/ x \in ToSet(b)
    BY <1>7, <1>4, Appended
<1>9. List(d \o b)
    BY <1>8, ListIs
<1>10. \A x \in ToSet(d \o b) : Parsed(x)
    BY <1>3, <1>4, <1>5, <1>7, <1>8
<1>11. ParsedFile(d \o b)
    BY <1>9, <1>10 DEF ParsedFile, ToSet
<1> QED  BY <1>6, <1>11 DEF d

(* What is loaded into a slot is such a network. *)
LEMMA LoadedSlot ==
    ASSUME NEW file, ParsedFile(file), Accepts(file), NEW left \in LeftOnStack
    PROVE  IsLoaded(Load(file, left))
<1>1. AcceptedFile(file)
    BY DEF AcceptedFile
<1> QED  BY <1>1, LoadIsNetwork, LoadedNames DEF IsLoaded

(* So are what is made of one by Clone and of two by Merge. *)
LEMMA CopiedSlot ==
    ASSUME NEW ntw, IsLoaded(ntw)
    PROVE  IsLoaded(Clone(ntw)) /\ NetworkEquals(ntw, Clone(ntw))
<1>1. IsNetwork(Clone(ntw)) /\ NetworkEquals(ntw, Clone(ntw))
    BY CloneIs DEF IsLoaded
<1>2. Named(Clone(ntw))
    <2> DEFINE ms == ntw.messages
               c == [ i \in DOMAIN ms |-> CopyMessage(ms[i]) ]
    <2>1. /\ Clone(ntw).nodes = ntw.nodes /\ Clone(ntw).messages = c
          /\ Clone(ntw).environment_variables = ntw.environment_variables
        BY DEF Clone, IsLoaded, IsNetwork
    <2>2. \A i \in DOMAIN ms : IsMessage(ms[i]) /\ NamedMessage(ms[i])
        BY NamedIs DEF IsLoaded, IsNetwork
    <2>3. ASSUME NEW i \in DOMAIN ms
          PROVE  NamedMessage(c[i])
        <3> DEFINE m == ms[i]
        <3>1. c[i] = [ m EXCEPT !.signal_groups = << >> ]
            BY DEF CopyMessage
        <3>2. IsMessage(m) /\ NamedMessage(m)
            BY <2>2
        <3> HIDE DEF m, c
        <3>3. /\ c[i].name = m.name /\ c[i].transmitter = m.transmitter
              /\ c[i].transmitters = m.transmitters /\ c[i].signals = m.signals
            BY <3>1, <3>2 DEF IsMessage
        <3> QED  BY <3>2, <3>3 DEF NamedMessage
    <2>4. DOMAIN c = DOMAIN ms
        OBVIOUS
    <2> HIDE DEF c
    <2>5. \A i \in DOMAIN c : NamedMessage(c[i])
        BY <2>3, <2>4
    <2> QED  BY <2>1, <2>5, NamedIs DEF IsLoaded
<1> QED  BY <1>1, <1>2 DEF IsLoaded

(* Merge makes a network as the loader does, equal to the one merged into   *)
(* (operator== does not compare all lists) and with the messages of both.   *)
LEMMA MergedSlot ==
    ASSUME NEW self, IsLoaded(self), NEW other, IsLoaded(other)
    PROVE  /\ IsLoaded(Merge(self, other)) /\ NetworkEquals(Merge(self, other), self)
           /\ Merge(self, other).messages = self.messages \o other.messages
<1> DEFINE c == Merge(self, other)
<1>1. /\ IsNetwork(c) /\ NetworkEquals(c, self)
      /\ c.messages = self.messages \o other.messages /\ c.nodes = self.nodes \o other.nodes
      /\ c.environment_variables = self.environment_variables \o other.environment_variables
    BY MergeIs DEF IsLoaded
<1>2. /\ Sequence(self.nodes) /\ Sequence(other.nodes)
      /\ Sequence(self.messages) /\ Sequence(other.messages)
      /\ Sequence(self.environment_variables) /\ Sequence(other.environment_variables)
    BY DEF IsLoaded, IsNetwork
<1>3. Named(self) /\ Named(other)
    BY DEF IsLoaded
<1> HIDE DEF c
<1>4. \A i \in DOMAIN c.nodes : Identifier(c.nodes[i].name)
    <2> DEFINE a == self.nodes
               b == other.nodes
    <2>1. (\A x \in ToSet(a) : Identifier(x.name)) /\ (\A x \in ToSet(b) : Identifier(x.name))
        BY <1>3, NamedIs DEF ToSet
    <2>2. Sequence(a) /\ Sequence(b)
        BY <1>2
    <2> HIDE DEF a, b
    <2>3. \A x \in ToSet(a \o b) : x \in ToSet(a) \/ x \in ToSet(b)
        BY <2>2, Appended
    <2>4. \A i \in DOMAIN (a \o b) : Identifier((a \o b)[i].name)
        BY <2>1, <2>3 DEF ToSet
    <2> QED  BY <1>1, <2>4 DEF a, b
<1>5. \A i \in DOMAIN c.messages : NamedMessage(c.messages[i])
    <2> DEFINE a == self.messages
               b == other.messages
    <2>1. (\A x \in ToSet(a) : NamedMessage(x)) /\ (\A x \in ToSet(b) : NamedMessage(x))
        BY <1>3, NamedIs DEF ToSet
    <2>2. Sequence(a) /\ Sequence(b)
        BY <1>2
    <2> HIDE DEF a, b
    <2>3. \A x \in ToSet(a \o b) : x \in ToSet(a) \/ x \in ToSet(b)
        BY <2>2, Appended
    <2>4. \A i \in DOMAIN (a \o b) : NamedMessage((a \o b)[i])
        BY <2>1, <2>3 DEF ToSet
    <2> QED  BY <1>1, <2>4 DEF a, b
<1>6. \A i \in DOMAIN c.environment_variables : Identifiers(c.environment_variables[i].access_nodes)
    <2> DEFINE a == self.environment_variables
               b == other.environment_variables
    <2>1. /\ \A x \in ToSet(a) : Identifiers(x.access_nodes)
          /\ \A x \in ToSet(b) : Identifiers(x.access_nodes)
        BY <1>3, NamedIs DEF ToSet
    <2>2. Sequence(a) /\ Sequence(b)
        BY <1>2
    <2> HIDE DEF a, b
    <2>3. \A x \in ToSet(a \o b) : x \in ToSet(a) \/ x \in ToSet(b)
        BY <2>2, Appended
    <2>4. \A i \in DOMAIN (a \o b) : Identifiers((a \o b)[i].access_nodes)
        BY <2>1, <2>3 DEF ToSet
    <2> QED  BY <1>1, <2>4 DEF a, b
<1>7. Named(c)
    BY <1>4, <1>5, <1>6, NamedIs
<1> QED  BY <1>1, <1>7 DEF IsLoaded, c

(* What one slot is given, the others keep. *)
LEMMA OneNet ==
    ASSUME NetsInv, NEW s \in Slots, NEW x, x = None \/ IsLoaded(x),
           nets' = [nets EXCEPT ![s] = x]
    PROVE  NetsInv'
BY DEF NetsInv

(* The same of the files.                                                   *)
LEMMA OneFile ==
    ASSUME FilesInv, NEW s \in Slots, NEW x, x = None \/ ParsedFile(x),
           files' = [files EXCEPT ![s] = x]
    PROVE  FilesInv'
BY DEF FilesInv

(* SessionInv holds initially: the files of the slots are parsed ones.      *)
LEMMA SessionInitHolds == SessionInit => SessionInv
BY FilesAssumption DEF SessionInit, SessionInv, FilesInv, NetsInv, SavedInv

(* Every step preserves it: loading and reloading build networks, Clone and *)
(* Merge of networks are networks, and saving writes one.                   *)
LEMMA SessionNextKeeps == SessionInv /\ [SessionNext]_session_vars => SessionInv'
<1> SUFFICES ASSUME SessionInv, [SessionNext]_session_vars
             PROVE  SessionInv'
    OBVIOUS
<1>1. FilesInv /\ NetsInv /\ SavedInv
    BY DEF SessionInv
<1>2. CASE UNCHANGED session_vars
    BY <1>1, <1>2 DEF session_vars, SessionInv, FilesInv, NetsInv, SavedInv
<1>3. ASSUME NEW s \in Slots, NEW st \in Statements, AddStatement(s, st)
      PROVE  SessionInv'
    <2> DEFINE before == { i \in DOMAIN files[s] : Section(files[s][i]) <= Section(st) }
               place == 1 + Cardinality(before)
    <2>1. ParsedFile(files[s]) /\ Parsed(st)
        BY <1>1, <1>3, FilesAssumption DEF AddStatement, FilesInv
    <2>2. Len(files[s]) \in Nat /\ DOMAIN files[s] = 1 .. Len(files[s])
        BY <2>1, ListIs DEF ParsedFile, Sequence
    <2>3. place \in 1 .. Len(files[s]) + 1
        <3>1. IsFiniteSet(1 .. Len(files[s])) /\ Cardinality(1 .. Len(files[s])) = Len(files[s])
            BY <2>2, FS_Interval
        <3>2. before \subseteq 1 .. Len(files[s])
            BY <2>2
        <3> HIDE DEF before
        <3>3. Cardinality(before) \in Nat /\ Cardinality(before) <= Len(files[s])
            BY <3>1, <3>2, FS_Subset, FS_CardinalityType
        <3> QED  BY <3>3, <2>2
    <2> HIDE DEF place
    <2>4. ParsedFile(InsertAt(files[s], place, st))
        BY <2>1, <2>3, InsertedParses
    <2>5. files' = [files EXCEPT ![s] = InsertAt(files[s], place, st)]
        BY <1>3 DEF AddStatement, place
    <2>6. FilesInv'
        BY <1>1, <2>4, <2>5, OneFile
    <2>7. UNCHANGED << nets, saved, origin, saves >>
        BY <1>3 DEF AddStatement
    <2> QED  BY <1>1, <2>6, <2>7 DEF SessionInv, NetsInv, SavedInv
<1>4. ASSUME NEW s \in Slots, LoadDBCFromIs(s)
      PROVE  SessionInv'
    <2>1. files' = [files EXCEPT ![s] = None] /\ UNCHANGED << saved, origin, saves >>
        BY <1>4 DEF LoadDBCFromIs
    <2>2. PICK x : (x = None \/ IsLoaded(x)) /\ nets' = [nets EXCEPT ![s] = x]
        <3>1. ParsedFile(files[s])
            BY <1>1, <1>4 DEF LoadDBCFromIs, FilesInv
        <3>2. PICK left \in LeftOnStack :
                 nets' = [nets EXCEPT ![s] = IF Accepts(files[s]) THEN Load(files[s], left)
                                                                  ELSE None]
            BY <1>4 DEF LoadDBCFromIs
        <3>3. CASE Accepts(files[s])
            <4>1. IsLoaded(Load(files[s], left))
                BY <3>1, <3>3, LoadedSlot
            <4> QED  BY <3>2, <3>3, <4>1
        <3>4. CASE ~ Accepts(files[s])
            BY <3>2, <3>4
        <3> QED  BY <3>3, <3>4
    <2>3. FilesInv'
        BY <1>1, <2>1, OneFile
    <2>4. NetsInv'
        BY <1>1, <2>2, OneNet
    <2> QED  BY <1>1, <2>1, <2>3, <2>4 DEF SessionInv, SavedInv
<1>5. ASSUME NEW s \in Slots, CloneNetwork(s)
      PROVE  SessionInv'
    <2>1. IsLoaded(nets[s])
        BY <1>1, <1>5 DEF CloneNetwork, NetsInv, Holds
    <2>2. IsLoaded(Clone(nets[s]))
        BY <2>1, CopiedSlot
    <2>3. nets' = [nets EXCEPT ![s] = Clone(nets[s])] /\ UNCHANGED << files, saved, origin, saves >>
        BY <1>5 DEF CloneNetwork
    <2>4. NetsInv'
        BY <1>1, <2>2, <2>3, OneNet
    <2> QED  BY <1>1, <2>3, <2>4 DEF SessionInv, FilesInv, SavedInv
<1>6. ASSUME NEW s \in Slots, NEW t \in Slots, MergeNetworks(s, t)
      PROVE  SessionInv'
    <2>1. IsLoaded(nets[s]) /\ IsLoaded(nets[t]) /\ s # t
        BY <1>1, <1>6 DEF MergeNetworks, NetsInv, Holds
    <2>2. IsLoaded(Merge(nets[s], nets[t]))
        BY <2>1, MergedSlot
    <2>3. /\ nets' = [nets EXCEPT ![s] = Merge(nets[s], nets[t]), ![t] = None]
          /\ UNCHANGED << files, saved, origin, saves >>
        BY <1>6 DEF MergeNetworks
    <2>4. NetsInv'
        BY <1>1, <2>1, <2>2, <2>3 DEF NetsInv
    <2> QED  BY <1>1, <2>3, <2>4 DEF SessionInv, FilesInv, SavedInv
<1>7. ASSUME NEW s \in Slots, SaveNetwork(s)
      PROVE  SessionInv'
    <2>1. IsLoaded(nets[s])
        BY <1>1, <1>7 DEF SaveNetwork, NetsInv, Holds
    <2>2. /\ saved' = Write(nets[s]) /\ origin' = nets[s] /\ saves' = saves + 1
          /\ UNCHANGED << files, nets >>
        BY <1>7 DEF SaveNetwork
    <2>3. saves' \in Nat /\ saves' # 0
        BY <1>1, <2>2 DEF SavedInv
    <2>4. SavedInv'
        BY <2>1, <2>2, <2>3 DEF SavedInv
    <2> QED  BY <1>1, <2>2, <2>4 DEF SessionInv, FilesInv, NetsInv
<1>8. ASSUME NEW s \in Slots, ReloadSaved(s)
      PROVE  SessionInv'
    <2>1. IsLoaded(origin) /\ saved = Write(origin)
        BY <1>1, <1>8 DEF ReloadSaved, SavedInv
    <2>2. ParsedFile(saved)
        BY <2>1, WriteParsed DEF IsLoaded
    <2>3. PICK left \in LeftOnStack : nets' = [nets EXCEPT ![s] = Load(saved, left)]
        BY <1>8 DEF ReloadSaved
    <2>4. IsLoaded(Load(saved, left))
        BY <1>8, <2>2, LoadedSlot DEF ReloadSaved
    <2>5. NetsInv'
        BY <1>1, <2>3, <2>4, OneNet
    <2>6. UNCHANGED << files, saved, origin, saves >>
        BY <1>8 DEF ReloadSaved
    <2> QED  BY <1>1, <2>5, <2>6 DEF SessionInv, FilesInv, SavedInv
<1> QED
    BY <1>2, <1>3, <1>4, <1>5, <1>6, <1>7, <1>8 DEF SessionNext

(* In every session of the user, with any number of handles, files and      *)
(* statements, the slots hold networks and the file saved is that of one.   *)
THEOREM SessionInvariant == SessionSpec => []SessionInv
BY SessionInitHolds, SessionNextKeeps, PTL DEF SessionSpec

(* Network2DBC and the grammar: a saved file is accepted exactly for the    *)
(* networks of Writable.                                                    *)
THEOREM SavedParsesIffWritableAlways == SessionSpec => []SavedParsesIffWritable
<1>1. SessionInv => SavedParsesIffWritable
    <2> SUFFICES ASSUME SessionInv, saved # None
                 PROVE  Accepts(saved) <=> Writable(origin)
        BY DEF SavedParsesIffWritable
    <2>1. IsLoaded(origin) /\ saved = Write(origin)
        BY DEF SessionInv, SavedInv
    <2> QED  BY <2>1, WriteAccepted DEF IsLoaded
<1> QED  BY <1>1, SessionInvariant, PTL

(* Network2DBC and DBCAST2Network: a representable network that was saved   *)
(* is read back as Pooled(origin), the identity with unique names.          *)
THEOREM SavedReloadsAlways == SessionSpec => []SavedReloads
<1>1. SessionInv => SavedReloads
    <2> SUFFICES ASSUME SessionInv, saved # None, Representable(origin), NEW left \in LeftOnStack
                 PROVE  Load(saved, left) = Pooled(origin)
        BY DEF SavedReloads
    <2>1. IsLoaded(origin) /\ saved = Write(origin)
        BY DEF SessionInv, SavedInv
    <2> QED  BY <2>1, RepresentableReloads DEF IsLoaded
<1> QED  BY <1>1, SessionInvariant, PTL

(* What is read from a saved file is written as that file, also when the    *)
(* first writing lost something.                                            *)
THEOREM SavingSettlesAlways == SessionSpec => []SavingSettles
<1>1. SessionInv => SavingSettles
    <2> SUFFICES ASSUME SessionInv, saved # None, UniqueNames(origin), ReadAsWritten(origin),
                        Accepts(saved), NEW left \in LeftOnStack
                 PROVE  Write(Load(saved, left)) = saved
        BY DEF SavingSettles
    <2>1. IsLoaded(origin) /\ saved = Write(origin)
        BY DEF SessionInv, SavedInv
    <2> QED  BY <2>1, WritingSettles DEF IsLoaded
<1> QED  BY <1>1, SessionInvariant, PTL

Copies ==
    /\ \A s, t \in Slots : MergeNetworks(s, t) =>
              /\ NetworkEquals(nets'[s], nets[s])
              /\ IsPrefix(nets[s].messages, nets'[s].messages)
    /\ \A s \in Slots : CloneNetwork(s) => NetworkEquals(nets[s], nets'[s])

(* INetwork::Merge, Clone and operator==: no step merges or clones a        *)
(* network so that it compares unequal, or moves a message.                 *)
THEOREM CopiesCompareEqualAlways == SessionSpec => CopiesCompareEqual
<1>1. SessionInv => Copies
    <2> SUFFICES ASSUME SessionInv
                 PROVE  Copies
        OBVIOUS
    <2>1. NetsInv
        BY DEF SessionInv
    <2>2. ASSUME NEW s \in Slots, NEW t \in Slots, MergeNetworks(s, t)
          PROVE  /\ NetworkEquals(nets'[s], nets[s])
                 /\ IsPrefix(nets[s].messages, nets'[s].messages)
        <3>1. IsLoaded(nets[s]) /\ IsLoaded(nets[t]) /\ s # t
            BY <2>1, <2>2 DEF MergeNetworks, NetsInv, Holds
        <3>2. nets'[s] = Merge(nets[s], nets[t])
            <4>1. nets' = [nets EXCEPT ![s] = Merge(nets[s], nets[t]), ![t] = None]
                BY <2>2 DEF MergeNetworks
            <4>2. nets = [ r \in Slots |-> nets[r] ]
                BY <2>1 DEF NetsInv
            <4> QED  BY <4>1, <4>2, <3>1
        <3>3. /\ NetworkEquals(Merge(nets[s], nets[t]), nets[s])
              /\ Merge(nets[s], nets[t]).messages = nets[s].messages \o nets[t].messages
            BY <3>1, MergedSlot
        <3>4. Sequence(nets[s].messages) /\ Sequence(nets[t].messages)
            BY <3>1 DEF IsLoaded, IsNetwork
        <3>5. IsPrefix(nets[s].messages, nets[s].messages \o nets[t].messages)
            <4> DEFINE a == nets[s].messages
                       b == nets[t].messages
            <4> HIDE DEF a, b
            <4>1. Sequence(a) /\ Sequence(b)
                BY <3>4 DEF a, b
            <4>2. a \in Seq(ToSet(a) \cup ToSet(b)) /\ b \in Seq(ToSet(a) \cup ToSet(b))
                BY <4>1 DEF Sequence, ToSet
            <4>3. IsPrefix(a, a \o b)
                BY <4>2 DEF IsPrefix
            <4> QED  BY <4>3 DEF a, b
        <3> QED  BY <3>2, <3>3, <3>5
    <2>3. ASSUME NEW s \in Slots, CloneNetwork(s)
          PROVE  NetworkEquals(nets[s], nets'[s])
        <3>1. IsLoaded(nets[s])
            BY <2>1, <2>3 DEF CloneNetwork, NetsInv, Holds
        <3>2. nets'[s] = Clone(nets[s])
            BY <2>1, <2>3 DEF CloneNetwork, NetsInv
        <3> QED  BY <3>1, <3>2, CopiedSlot
    <2> QED  BY <2>2, <2>3 DEF Copies
<1>2. SessionSpec => [][Copies]_session_vars
    BY <1>1, SessionInvariant, PTL DEF SessionSpec
<1> QED  BY <1>2 DEF CopiesCompareEqual, Copies

-----------------------------------------------------------------------------
(* operator== as a relation.                                                *)

(* What finds all that another finds all of finds all of it.                *)
LEMMA FindsFurther ==
    /\ \A xs, ys, zs : Finds(xs, ys, Equal) /\ Finds(ys, zs, Equal) => Finds(xs, zs, Equal)
    /\ \A xs, ys, zs : Finds(xs, ys, SignalMultiplexerValueEquals)
                         /\ Finds(ys, zs, SignalMultiplexerValueEquals)
                       => Finds(xs, zs, SignalMultiplexerValueEquals)
    /\ \A xs, ys, zs : Finds(xs, ys, SignalGroupEquals) /\ Finds(ys, zs, SignalGroupEquals)
                       => Finds(xs, zs, SignalGroupEquals)
<1>1. \A xs, ys, zs : Finds(xs, ys, Equal) /\ Finds(ys, zs, Equal) => Finds(xs, zs, Equal)
    BY DEF Finds, Equal
<1>2. \A u, v, w : SignalMultiplexerValueEquals(u, v) /\ SignalMultiplexerValueEquals(v, w)
                   => SignalMultiplexerValueEquals(u, w)
    BY <1>1 DEF SignalMultiplexerValueEquals
<1>3. \A u, v, w : SignalGroupEquals(u, v) /\ SignalGroupEquals(v, w) => SignalGroupEquals(u, w)
    BY <1>1 DEF SignalGroupEquals
<1>4. \A xs, ys, zs : Finds(xs, ys, SignalMultiplexerValueEquals)
                        /\ Finds(ys, zs, SignalMultiplexerValueEquals)
                      => Finds(xs, zs, SignalMultiplexerValueEquals)
    BY <1>2 DEF Finds
<1>5. \A xs, ys, zs : Finds(xs, ys, SignalGroupEquals) /\ Finds(ys, zs, SignalGroupEquals)
                      => Finds(xs, zs, SignalGroupEquals)
    BY <1>3 DEF Finds
<1> QED  BY <1>1, <1>4, <1>5

(* The comparisons of the objects of a network are transitive.              *)
LEMMA ObjectsTransitive ==
    ASSUME NEW x, NEW y, NEW z
    PROVE  /\ NodeEquals(x, y) /\ NodeEquals(y, z) => NodeEquals(x, z)
           /\ SignalEquals(x, y) /\ SignalEquals(y, z) => SignalEquals(x, z)
           /\ EnvVarEquals(x, y) /\ EnvVarEquals(y, z) => EnvVarEquals(x, z)
           /\ AttributeDefinitionEquals(x, y) /\ AttributeDefinitionEquals(y, z)
              => AttributeDefinitionEquals(x, z)
<1>1. NodeEquals(x, y) /\ NodeEquals(y, z) => NodeEquals(x, z)
    BY FindsFurther DEF NodeEquals
<1>2. SignalEquals(x, y) /\ SignalEquals(y, z) => SignalEquals(x, z)
    BY FindsFurther DEF SignalEquals
<1>3. EnvVarEquals(x, y) /\ EnvVarEquals(y, z) => EnvVarEquals(x, z)
    BY FindsFurther DEF EnvVarEquals
<1>4. AttributeDefinitionEquals(x, y) /\ AttributeDefinitionEquals(y, z)
      => AttributeDefinitionEquals(x, z)
    BY FindsFurther DEF AttributeDefinitionEquals
<1> QED  BY <1>1, <1>2, <1>3, <1>4

(* So is that of messages.                                                  *)
LEMMA MessagesTransitive ==
    ASSUME NEW x, NEW y, NEW z, MessageEquals(x, y), MessageEquals(y, z)
    PROVE  MessageEquals(x, z)
<1>1. Finds(x.signals, z.signals, SignalEquals)
    <2>1. Finds(x.signals, y.signals, SignalEquals) /\ Finds(y.signals, z.signals, SignalEquals)
        BY DEF MessageEquals
    <2> QED  BY <2>1, ObjectsTransitive DEF Finds
<1> QED  BY <1>1, FindsFurther DEF MessageEquals

(* And that of value tables, which have a signal type or none.              *)
LEMMA ValueTablesTransitive ==
    ASSUME NEW x, NEW y, NEW z, IsValueTable(x), IsValueTable(y),
           ValueTableEquals(x, y), ValueTableEquals(y, z)
    PROVE  ValueTableEquals(x, z)
<1>1. /\ Len(x.signal_type) = Len(y.signal_type) /\ Len(y.signal_type) = Len(z.signal_type)
      /\ \A i \in DOMAIN x.signal_type : x.signal_type[i].head = y.signal_type[i].head
      /\ \A i \in DOMAIN y.signal_type : y.signal_type[i].head = z.signal_type[i].head
    BY DEF ValueTableEquals, SignalTypeEquals
<1>2. DOMAIN x.signal_type = DOMAIN y.signal_type
    BY <1>1, SequenceDomain DEF IsValueTable
<1>3. SignalTypeEquals(x.signal_type, z.signal_type)
    BY <1>1, <1>2 DEF SignalTypeEquals
<1>4. Finds(x.descriptions, z.descriptions, Equal)
    BY FindsFurther DEF ValueTableEquals
<1> QED  BY <1>3, <1>4 DEF ValueTableEquals

(* INetwork::operator== is a preorder on the networks the loaders make:     *)
(* every network is equal to itself, and what is equal to an equal one is   *)
(* equal. Being symmetric it is not, as the next theorems show.             *)
THEOREM EqualsIsPreorder ==
    ASSUME NEW a, IsNetwork(a), NEW b, IsNetwork(b), NEW c, IsNetwork(c)
    PROVE  /\ NetworkEquals(a, a)
           /\ NetworkEquals(a, b) /\ NetworkEquals(b, c) => NetworkEquals(a, c)
<1>1. NetworkEquals(a, a)
    BY FindsIn DEF NetworkEquals
<1>2. ASSUME NetworkEquals(a, b), NetworkEquals(b, c)
      PROVE  NetworkEquals(a, c)
    <2>1. /\ a.version = c.version /\ a.comment = c.comment /\ a.bit_timing = c.bit_timing
        BY <1>2 DEF NetworkEquals
    <2>2. /\ Finds(a.attribute_defaults, c.attribute_defaults, Equal)
          /\ Finds(a.attribute_values, c.attribute_values, Equal)
        BY <1>2, FindsFurther DEF NetworkEquals
    <2>3. Finds(a.nodes, c.nodes, NodeEquals)
        <3>1. Finds(a.nodes, b.nodes, NodeEquals) /\ Finds(b.nodes, c.nodes, NodeEquals)
            BY <1>2 DEF NetworkEquals
        <3> QED  BY <3>1, ObjectsTransitive DEF Finds
    <2>4. Finds(a.value_tables, c.value_tables, ValueTableEquals)
        <3>1. /\ Finds(a.value_tables, b.value_tables, ValueTableEquals)
              /\ Finds(b.value_tables, c.value_tables, ValueTableEquals)
            BY <1>2 DEF NetworkEquals
        <3>2. /\ \A i \in DOMAIN a.value_tables : IsValueTable(a.value_tables[i])
              /\ \A i \in DOMAIN b.value_tables : IsValueTable(b.value_tables[i])
            BY DEF IsNetwork
        <3> QED  BY <3>1, <3>2, ValueTablesTransitive DEF Finds
    <2>5. Finds(a.messages, c.messages, MessageEquals)
        <3>1. /\ Finds(a.messages, b.messages, MessageEquals)
              /\ Finds(b.messages, c.messages, MessageEquals)
            BY <1>2 DEF NetworkEquals
        <3> QED  BY <3>1, MessagesTransitive DEF Finds
    <2>6. Finds(a.environment_variables, c.environment_variables, EnvVarEquals)
        <3>1. /\ Finds(a.environment_variables, b.environment_variables, EnvVarEquals)
              /\ Finds(b.environment_variables, c.environment_variables, EnvVarEquals)
            BY <1>2 DEF NetworkEquals
        <3> QED  BY <3>1, ObjectsTransitive DEF Finds
    <2>7. Finds(a.attribute_definitions, c.attribute_definitions, AttributeDefinitionEquals)
        <3>1. /\ Finds(a.attribute_definitions, b.attribute_definitions,
                       AttributeDefinitionEquals)
              /\ Finds(b.attribute_definitions, c.attribute_definitions,
                       AttributeDefinitionEquals)
            BY <1>2 DEF NetworkEquals
        <3> QED  BY <3>1, ObjectsTransitive DEF Finds
    <2> QED  BY <2>1, <2>2, <2>3, <2>4, <2>5, <2>6, <2>7 DEF NetworkEquals
<1> QED  BY <1>1, <1>2

(* The fields of a clone are those of the network, but for the messages.    *)
LEMMA CloneHas ==
    ASSUME NEW ntw, IsNetwork(ntw)
    PROVE  /\ Clone(ntw).version = ntw.version /\ Clone(ntw).comment = ntw.comment
           /\ Clone(ntw).bit_timing = ntw.bit_timing /\ Clone(ntw).nodes = ntw.nodes
           /\ Clone(ntw).value_tables = ntw.value_tables
           /\ Clone(ntw).environment_variables = ntw.environment_variables
           /\ Clone(ntw).attribute_definitions = ntw.attribute_definitions
           /\ Clone(ntw).attribute_defaults = ntw.attribute_defaults
           /\ Clone(ntw).attribute_values = ntw.attribute_values
           /\ Clone(ntw).messages
                = [ i \in DOMAIN ntw.messages |-> CopyMessage(ntw.messages[i]) ]
BY DEF Clone, IsNetwork

(* MessageImpl's copy constructor and operator==: a clone is equal to the   *)
(* network it was made from exactly if no message of that has a signal      *)
(* group, though the network is always equal to the clone.                  *)
THEOREM CloneComparesBack ==
    ASSUME NEW ntw, IsNetwork(ntw)
    PROVE  NetworkEquals(Clone(ntw), ntw)
             <=> \A i \in DOMAIN ntw.messages : ntw.messages[i].signal_groups = << >>
<1> DEFINE ms == ntw.messages
           cs == Clone(ntw).messages
<1>1. /\ DOMAIN cs = DOMAIN ms /\ \A i \in DOMAIN ms : cs[i] = CopyMessage(ms[i])
    <2>1. cs = [ i \in DOMAIN ms |-> CopyMessage(ms[i]) ]
        BY CloneHas
    <2> HIDE DEF ms, cs
    <2> QED  BY <2>1
<1>2. \A i \in DOMAIN ms : IsMessage(ms[i])
    BY DEF IsNetwork
<1>3. \A i \in DOMAIN ms : cs[i].signal_groups = << >>
    BY <1>1, <1>2 DEF CopyMessage, IsMessage
<1> HIDE DEF ms, cs
<1>4. ASSUME Finds(cs, ms, MessageEquals), NEW i \in DOMAIN ms
      PROVE  ms[i].signal_groups = << >>
    <2>1. PICK j \in DOMAIN cs : MessageEquals(cs[j], ms[i])
        BY <1>4 DEF Finds
    <2>2. Finds(<< >>, ms[i].signal_groups, SignalGroupEquals)
        BY <1>1, <1>3, <2>1 DEF MessageEquals
    <2>3. DOMAIN ms[i].signal_groups = {}
        BY <2>2, SequenceEmpty DEF Finds
    <2>4. Sequence(ms[i].signal_groups)
        BY <1>2 DEF IsMessage
    <2> DEFINE n == Len(ms[i].signal_groups)
    <2>5. n \in Nat /\ 1 .. n = {}
        BY <2>3, <2>4, SequenceDomain
    <2> HIDE DEF n
    <2>6. n = 0
        BY <2>5
    <2> QED  BY <2>4, <2>6, EmptyIs DEF n
<1>5. ASSUME \A i \in DOMAIN ms : ms[i].signal_groups = << >>
      PROVE  Finds(cs, ms, MessageEquals)
    <2>1. ASSUME NEW i \in DOMAIN ms
          PROVE  MessageEquals(cs[i], ms[i])
        <3>1. cs[i] = ms[i]
            BY <1>1, <1>2, <1>5 DEF CopyMessage, IsMessage
        <3> QED  BY <3>1, EqualsItself
    <2> QED  BY <1>1, <2>1 DEF Finds
<1>6. NetworkEquals(Clone(ntw), ntw) <=> Finds(cs, ms, MessageEquals)
    BY CloneHas, FindsIn DEF NetworkEquals, cs, ms
<1> QED  BY <1>4, <1>5, <1>6 DEF ms

(* What a list finds of itself with another appended is what it finds of    *)
(* the other.                                                               *)
LEMMA FindsAppended ==
    ASSUME NEW xs, NEW ys, Sequence(xs), Sequence(ys)
    PROVE  /\ Finds(xs, xs \o ys, Equal) <=> Finds(xs, ys, Equal)
           /\ Finds(xs, xs \o ys, NodeEquals) <=> Finds(xs, ys, NodeEquals)
           /\ Finds(xs, xs \o ys, ValueTableEquals) <=> Finds(xs, ys, ValueTableEquals)
           /\ Finds(xs, xs \o ys, MessageEquals) <=> Finds(xs, ys, MessageEquals)
           /\ Finds(xs, xs \o ys, EnvVarEquals) <=> Finds(xs, ys, EnvVarEquals)
           /\ Finds(xs, xs \o ys, AttributeDefinitionEquals)
                <=> Finds(xs, ys, AttributeDefinitionEquals)
<1> DEFINE zs == xs \o ys
<1>1. /\ \A j \in DOMAIN zs : \/ j \in DOMAIN xs /\ zs[j] = xs[j]
                              \/ \E k \in DOMAIN ys : zs[j] = ys[k]
      /\ \A k \in DOMAIN ys : \E j \in DOMAIN zs : zs[j] = ys[k]
    <2>1. ASSUME NEW k \in DOMAIN ys
          PROVE  Len(xs) + k \in DOMAIN zs
        BY SequenceConcat, SequenceDomain
    <2>2. \A j \in DOMAIN zs \ DOMAIN xs : j - Len(xs) \in DOMAIN ys /\ zs[j] = ys[j - Len(xs)]
        BY SequenceConcat
    <2>3. /\ \A j \in DOMAIN xs : zs[j] = xs[j]
          /\ \A k \in DOMAIN ys : zs[Len(xs) + k] = ys[k]
        BY SequenceConcat
    <2> HIDE DEF zs
    <2>4. \A j \in DOMAIN zs : (j \in DOMAIN xs /\ zs[j] = xs[j])
                              \/ (\E k \in DOMAIN ys : zs[j] = ys[k])
        BY <2>2, <2>3
    <2>5. \A k \in DOMAIN ys : \E j \in DOMAIN zs : zs[j] = ys[k]
        BY <2>1, <2>3
    <2> QED  BY <2>4, <2>5
<1> HIDE DEF zs
<1>2. Finds(xs, zs, Equal) <=> Finds(xs, ys, Equal)
    BY <1>1, EqualsItself DEF Finds
<1>3. Finds(xs, zs, NodeEquals) <=> Finds(xs, ys, NodeEquals)
    BY <1>1, EqualsItself DEF Finds
<1>4. Finds(xs, zs, ValueTableEquals) <=> Finds(xs, ys, ValueTableEquals)
    BY <1>1, EqualsItself DEF Finds
<1>5. Finds(xs, zs, MessageEquals) <=> Finds(xs, ys, MessageEquals)
    BY <1>1, EqualsItself DEF Finds
<1>6. Finds(xs, zs, EnvVarEquals) <=> Finds(xs, ys, EnvVarEquals)
    BY <1>1, EqualsItself DEF Finds
<1>7. Finds(xs, zs, AttributeDefinitionEquals) <=> Finds(xs, ys, AttributeDefinitionEquals)
    BY <1>1, EqualsItself DEF Finds
<1> QED  BY <1>2, <1>3, <1>4, <1>5, <1>6, <1>7 DEF zs

(* The fields of a merged network that are compared.                        *)
IsMergedFrom(merged, self, other) ==
    /\ merged.version = self.version /\ merged.comment = self.comment
    /\ merged.bit_timing = self.bit_timing
    /\ merged.nodes = self.nodes \o other.nodes
    /\ merged.value_tables = self.value_tables \o other.value_tables
    /\ merged.messages = self.messages \o other.messages
    /\ merged.environment_variables
         = self.environment_variables \o other.environment_variables
    /\ merged.attribute_definitions
         = self.attribute_definitions \o other.attribute_definitions
    /\ merged.attribute_defaults = self.attribute_defaults \o other.attribute_defaults
    /\ merged.attribute_values = self.attribute_values \o other.attribute_values

(* Merge makes them so.                                                     *)
LEMMA MergeHas ==
    ASSUME NEW self, IsNetwork(self), NEW other
    PROVE  IsMergedFrom(Merge(self, other), self, other)
BY DEF Merge, IsNetwork, IsMergedFrom

(* The lists of ntw have, up to operator==, all that those of other have.   *)
HasAllOf(ntw, other) ==
    /\ Finds(ntw.nodes, other.nodes, NodeEquals)
    /\ Finds(ntw.value_tables, other.value_tables, ValueTableEquals)
    /\ Finds(ntw.messages, other.messages, MessageEquals)
    /\ Finds(ntw.environment_variables, other.environment_variables, EnvVarEquals)
    /\ Finds(ntw.attribute_definitions, other.attribute_definitions,
             AttributeDefinitionEquals)
    /\ Finds(ntw.attribute_defaults, other.attribute_defaults, Equal)
    /\ Finds(ntw.attribute_values, other.attribute_values, Equal)

(* INetwork::Merge and operator==: what a network was before a merge is     *)
(* equal to what it is after it exactly if it had everything of the other,  *)
(* though the other way round they are always equal.                        *)
THEOREM MergeComparesBack ==
    ASSUME NEW self, IsNetwork(self), NEW other, IsNetwork(other)
    PROVE  NetworkEquals(self, Merge(self, other)) <=> HasAllOf(self, other)
<1> DEFINE merged == Merge(self, other)
<1>1. /\ Sequence(self.nodes) /\ Sequence(other.nodes)
      /\ Sequence(self.value_tables) /\ Sequence(other.value_tables)
      /\ Sequence(self.messages) /\ Sequence(other.messages)
      /\ Sequence(self.environment_variables) /\ Sequence(other.environment_variables)
      /\ Sequence(self.attribute_definitions) /\ Sequence(other.attribute_definitions)
      /\ Sequence(self.attribute_defaults) /\ Sequence(other.attribute_defaults)
      /\ Sequence(self.attribute_values) /\ Sequence(other.attribute_values)
    BY DEF IsNetwork, IsAttributes
<1>0. IsMergedFrom(merged, self, other)
    BY MergeHas
<1> HIDE DEF merged
<1>2. /\ merged.version = self.version /\ merged.comment = self.comment
      /\ merged.bit_timing = self.bit_timing
    BY <1>0 DEF IsMergedFrom
<1>3. Finds(self.nodes, merged.nodes, NodeEquals)
        <=> Finds(self.nodes, other.nodes, NodeEquals)
    <2>1. merged.nodes = self.nodes \o other.nodes
        BY <1>0 DEF IsMergedFrom
    <2> QED  BY <1>1, <2>1, FindsAppended
<1>4. Finds(self.value_tables, merged.value_tables, ValueTableEquals)
        <=> Finds(self.value_tables, other.value_tables, ValueTableEquals)
    <2>1. merged.value_tables = self.value_tables \o other.value_tables
        BY <1>0 DEF IsMergedFrom
    <2> QED  BY <1>1, <2>1, FindsAppended
<1>5. Finds(self.messages, merged.messages, MessageEquals)
        <=> Finds(self.messages, other.messages, MessageEquals)
    <2>1. merged.messages = self.messages \o other.messages
        BY <1>0 DEF IsMergedFrom
    <2> QED  BY <1>1, <2>1, FindsAppended
<1>6. Finds(self.environment_variables, merged.environment_variables, EnvVarEquals)
        <=> Finds(self.environment_variables, other.environment_variables, EnvVarEquals)
    <2>1. merged.environment_variables = self.environment_variables \o other.environment_variables
        BY <1>0 DEF IsMergedFrom
    <2> QED  BY <1>1, <2>1, FindsAppended
<1>7. Finds(self.attribute_definitions, merged.attribute_definitions, AttributeDefinitionEquals)
        <=> Finds(self.attribute_definitions, other.attribute_definitions, AttributeDefinitionEquals)
    <2>1. merged.attribute_definitions = self.attribute_definitions \o other.attribute_definitions
        BY <1>0 DEF IsMergedFrom
    <2> QED  BY <1>1, <2>1, FindsAppended
<1>8. Finds(self.attribute_defaults, merged.attribute_defaults, Equal)
        <=> Finds(self.attribute_defaults, other.attribute_defaults, Equal)
    <2>1. merged.attribute_defaults = self.attribute_defaults \o other.attribute_defaults
        BY <1>0 DEF IsMergedFrom
    <2> QED  BY <1>1, <2>1, FindsAppended
<1>9. Finds(self.attribute_values, merged.attribute_values, Equal)
        <=> Finds(self.attribute_values, other.attribute_values, Equal)
    <2>1. merged.attribute_values = self.attribute_values \o other.attribute_values
        BY <1>0 DEF IsMergedFrom
    <2> QED  BY <1>1, <2>1, FindsAppended
<1>10. NetworkEquals(self, merged) <=> HasAllOf(self, other)
    BY <1>2, <1>3, <1>4, <1>5, <1>6, <1>7, <1>8, <1>9 DEF NetworkEquals, HasAllOf
<1> QED  BY <1>10 DEF merged

-----------------------------------------------------------------------------
(***************************************************************************)
(* KCD2Network and dbc2, for all documents and command lines.              *)
(*                                                                         *)
(* The loader: what a network names is declared in it, loading succeeds    *)
(* for exactly the documents that can be resolved, and a network is the    *)
(* first bus of its name. The inductive invariant relates what was made so *)
(* far to the part of the document it was made from: the nodes to the      *)
(* first of its nodes, the messages to those of the current bus, all of    *)
(* which were resolved.                                                    *)
(*                                                                         *)
(* The conversion: its behaviours are behaviours of the loader             *)
(* (CommandRunsLoader), whose networks are such as a DBC file can say; so  *)
(* what they are merged into is written and read back as above, and has    *)
(* what the files merged so far say. Every step leads down, so that the    *)
(* command ends, and CommandEndsRight says how.                            *)
(***************************************************************************)

NodeRecord  == [ name : Names, comment : {""}, attributes : {<< >>} ]
Made        == { Message(m) : m \in MessageElements }
NamesOf(ns) == { ns[k].name : k \in DOMAIN ns }
ElementAt(b, i) == doc.buses[b].messages[i]

TypeOK ==
    /\ doc \in Document
    /\ phase \in {"root", "nodes", "networks", "done", "thrown", "undefined"}
    /\ nodes \in Seq(NodeRecord)
    /\ bus \in Nat \ {0}
    /\ messages \in Seq(Made)

(* node_names holds the nodes made so far, and no other name. *)
NodesInv ==
    /\ Len(nodes) <= Len(doc.nodes)
    /\ \A k \in 1 .. Len(nodes) :
          nodes[k].name = doc.nodes[k].name /\ doc.nodes[k].id # Absent
    /\ DOMAIN node_names = { doc.nodes[k].id : k \in 1 .. Len(nodes) }
    /\ \A id \in DOMAIN node_names : node_names[id] \in NamesOf(nodes)

(* What each phase is entered with. *)
PhaseInv ==
    /\ phase \in {"nodes", "networks", "done"} => doc.root_is_definition
    /\ phase \in {"networks", "done"} => Len(nodes) = Len(doc.nodes)
    /\ phase \in {"root", "nodes"} => bus = 1 /\ messages = << >> /\ networks = Empty

(* The buses before this one, and of this one the messages made, were       *)
(* resolved.                                                                *)
BusesInv ==
    phase = "networks" =>
        /\ bus <= Len(doc.buses) + 1
        /\ \A b \in 1 .. bus - 1 : \A i \in 1 .. Len(doc.buses[b].messages) :
              ResolvableMessage(doc, ElementAt(b, i))
        /\ bus = Len(doc.buses) + 1 => messages = << >>
        /\ bus <= Len(doc.buses) => Len(messages) <= Len(doc.buses[bus].messages)
        /\ \A i \in 1 .. Len(messages) : ResolvableMessage(doc, ElementAt(bus, i))

MessagesInv == \A i \in 1 .. Len(messages) : References(messages[i]) \subseteq NamesOf(nodes)
NetworksInv ==
    \A n \in DOMAIN networks :
        /\ networks[n].nodes = nodes
        /\ \A i \in DOMAIN networks[n].messages :
              References(networks[n].messages[i]) \subseteq NamesOf(nodes)

KcdInv ==
    /\ TypeOK
    /\ NodesInv
    /\ PhaseInv
    /\ BusesInv
    /\ MessagesInv
    /\ NetworksInv
    /\ LoadsIffResolvable

-----------------------------------------------------------------------------
(* The parts of a document. *)
LEMMA DocumentParts ==
    ASSUME NEW d \in Document
    PROVE  /\ d.nodes \in Seq(NodeElement)
           /\ d.buses \in Seq(BusElement)
           /\ Len(d.nodes) \in Nat /\ DOMAIN d.nodes = 1 .. Len(d.nodes)
           /\ Len(d.buses) \in Nat /\ DOMAIN d.buses = 1 .. Len(d.buses)
           /\ \A k \in 1 .. Len(d.nodes) : d.nodes[k].id \in Int /\ d.nodes[k].name \in Names
           /\ \A b \in 1 .. Len(d.buses) :
                 /\ d.buses[b].messages \in Seq(MessageElements)
                 /\ Len(d.buses[b].messages) \in Nat
                 /\ DOMAIN d.buses[b].messages = 1 .. Len(d.buses[b].messages)
                 /\ \A i \in 1 .. Len(d.buses[b].messages) :
                       d.buses[b].messages[i] \in MessageElements
  <1>1. d.nodes \in Seq(NodeElement) /\ d.buses \in Seq(BusElement)
    BY DEF Document
  <1>2. /\ Len(d.nodes) \in Nat /\ DOMAIN d.nodes = 1 .. Len(d.nodes)
        /\ Len(d.buses) \in Nat /\ DOMAIN d.buses = 1 .. Len(d.buses)
    BY <1>1
  <1>3. \A k \in 1 .. Len(d.nodes) : d.nodes[k] \in NodeElement
    BY <1>1, <1>2
  <1>4. \A b \in 1 .. Len(d.buses) : d.buses[b] \in BusElement
    BY <1>1, <1>2
  <1>5. \A b \in 1 .. Len(d.buses) : d.buses[b].messages \in Seq(MessageElements)
    BY <1>4 DEF BusElement
  <1>6. \A s \in Seq(MessageElements) :
           /\ Len(s) \in Nat /\ DOMAIN s = 1 .. Len(s)
           /\ \A i \in 1 .. Len(s) : s[i] \in MessageElements
    OBVIOUS
  <1> QED
    BY <1>1, <1>2, <1>3, <1>5, <1>6 DEF NodeElement

(* The three tests of parseMessage together are ResolvableMessage, once all *)
(* nodes are known.                                                         *)
LEMMA KnownIsResolvable ==
    ASSUME NEW m \in MessageElements, DOMAIN node_names = Ids(doc)
    PROVE  KnownSender(m) /\ Known(m.producers) /\ KnownConsumers(m)
               <=> ResolvableMessage(doc, m)
  <1>1. m.producers \in Seq(Int)
    BY DocsAssumption
  <1>2. m.producers # << >> => 1 \in DOMAIN m.producers
    BY <1>1
  <1>3. \A ids : Known(ids) <=> ToSet(ids) \subseteq Ids(doc)
    BY DEF Known, ToSet
  <1>4. KnownSender(m) /\ Known(m.producers)
            <=> m.producers # << >> /\ ToSet(m.producers) \subseteq Ids(doc)
    BY <1>2, <1>3 DEF KnownSender, ToSet
  <1>5. KnownConsumers(m) <=>
            \A i \in DOMAIN SignalElements(m) :
                ToSet(SignalElements(m)[i].signal.consumers) \subseteq Ids(doc)
    BY <1>3 DEF KnownConsumers
  <1> QED
    BY <1>4, <1>5 DEF ResolvableMessage

(* What a message is made to name are names of nodes. *)
LEMMA MadeReferences ==
    ASSUME NEW m, NodesInv, KnownSender(m), Known(m.producers), KnownConsumers(m)
    PROVE  References(Message(m)) \subseteq NamesOf(nodes)
  <1> DEFINE made == Message(m)
             elements == SignalElements(m)
  <1>1. \A id \in DOMAIN node_names : node_names[id] \in NamesOf(nodes)
    BY DEF NodesInv
  <1>2. \A ids : Known(ids) => ToSet(Referred(ids)) \subseteq NamesOf(nodes)
    BY <1>1 DEF Known, Referred, ToSet
  <1>3. made.transmitter \in NamesOf(nodes)
    BY <1>1 DEF KnownSender, Message
  <1>4. ToSet(made.transmitters) \subseteq NamesOf(nodes)
    <2>1. made.transmitters = Referred(m.producers)
      BY DEF Message
    <2> QED
      BY <1>2, <2>1
  <1>5. ASSUME NEW i \in DOMAIN made.signals
        PROVE  ToSet(made.signals[i].receivers) \subseteq NamesOf(nodes)
    <2>1. made.signals = [ k \in DOMAIN elements |-> parseSignal(elements[k]) ]
      BY DEF Message
    <2>2. i \in DOMAIN elements /\ made.signals[i] = parseSignal(elements[i])
      BY <2>1
    <2>3. made.signals[i].receivers = Referred(elements[i].signal.consumers)
      BY <2>2 DEF parseSignal
    <2>4. Known(elements[i].signal.consumers)
      BY <2>2 DEF KnownConsumers
    <2> QED
      BY <1>2, <2>3, <2>4
  <1> HIDE DEF made
  <1>6. References(made) \subseteq NamesOf(nodes)
    BY <1>3, <1>4, <1>5 DEF References
  <1> QED
    BY <1>6 DEF made

(* A message is made the same as long as no node is added. *)
LEMMA MadeUnchanged ==
    ASSUME node_names' = node_names
    PROVE  Made' = Made
  <1>1. \A ids : Referred(ids)' = Referred(ids)
    BY DEF Referred
  <1>2. \A e : parseSignal(e)' = parseSignal(e)
    BY <1>1 DEF parseSignal
  <1>3. \A m : Message(m)' = Message(m)
    BY <1>1, <1>2 DEF Message
  <1> QED
    BY <1>3 DEF Made

(* What a step leaves alone that does not touch the nodes. *)
LEMMA NodesUnchanged ==
    ASSUME NodesInv, UNCHANGED << doc, nodes, node_names >>
    PROVE  NodesInv'
  BY DEF NodesInv, NamesOf

(* The invariant holds before any document is loaded.                       *)
LEMMA InitIInv == Init => KcdInv
  <1> SUFFICES ASSUME Init PROVE KcdInv
    OBVIOUS
  <1> USE DEF Init
  <1>1. Blank \in Document
    BY DEF Blank, Document
  <1>2. TypeOK
    BY <1>1 DEF TypeOK
  <1>3. Len(Blank.nodes) = 0 /\ Len(Blank.buses) = 0 /\ Blank.root_is_definition
        /\ DOMAIN Blank.nodes = {} /\ DOMAIN Blank.buses = {}
    BY DEF Blank
  <1>4. DOMAIN Empty = {}
    BY DEF Empty
  <1>5. NodesInv
    BY <1>3, <1>4 DEF NodesInv
  <1>6. PhaseInv /\ BusesInv /\ MessagesInv /\ NetworksInv
    BY <1>3, <1>4 DEF PhaseInv, BusesInv, MessagesInv, NetworksInv
  <1>7. LoadsIffResolvable
    BY <1>3 DEF LoadsIffResolvable, Resolvable, Ids
  <1> QED
    BY <1>2, <1>5, <1>6, <1>7 DEF KcdInv

(* It holds when the loading of a document begins.                          *)
LEMMA LoadIInv ==
    ASSUME KcdInv, NEW d \in Docs, LoadKCDFromIs(d)
    PROVE  KcdInv'
  <1> USE DEF LoadKCDFromIs
  <1>1. d \in Document
    BY DocsAssumption
  <1>2. TypeOK'
    BY <1>1 DEF TypeOK
  <1>3. DOMAIN Empty = {}
    BY DEF Empty
  <1>4. NodesInv'
    BY <1>1, <1>3, DocumentParts DEF NodesInv
  <1>5. PhaseInv' /\ BusesInv' /\ MessagesInv' /\ NetworksInv' /\ LoadsIffResolvable'
    BY <1>3 DEF PhaseInv, BusesInv, MessagesInv, NetworksInv, LoadsIffResolvable
  <1> QED
    BY <1>2, <1>4, <1>5 DEF KcdInv

(* It is kept by the test of the root element.                              *)
LEMMA DefinitionIInv ==
    ASSUME KcdInv, parseNetworkDefinition
    PROVE  KcdInv'
  <1> USE DEF KcdInv, parseNetworkDefinition
  <1>1. TypeOK'
    BY MadeUnchanged DEF TypeOK
  <1>2. NodesInv'
    BY NodesUnchanged
  <1>3. PhaseInv' /\ BusesInv'
    BY DEF PhaseInv, BusesInv
  <1>4. MessagesInv' /\ NetworksInv'
    BY Zenon DEF MessagesInv, NetworksInv, NamesOf
  <1>5. LoadsIffResolvable'
    BY DEF LoadsIffResolvable, Resolvable
  <1> QED
    BY <1>1, <1>2, <1>3, <1>4, <1>5

(* It is kept when the nodes end: all ids are known then.                   *)
LEMMA NodesParsedIInv ==
    ASSUME KcdInv, NodesParsed
    PROVE  KcdInv'
  <1> USE DEF KcdInv, NodesParsed
  <1>1. TypeOK'
    BY MadeUnchanged DEF TypeOK
  <1>2. NodesInv'
    BY NodesUnchanged
  <1>3. PhaseInv'
    BY DEF PhaseInv
  <1>4. BusesInv'
    BY DocumentParts DEF PhaseInv, BusesInv, TypeOK
  <1>5. MessagesInv' /\ NetworksInv'
    BY DEF MessagesInv, NetworksInv, NamesOf
  <1>6. LoadsIffResolvable'
    BY DEF LoadsIffResolvable
  <1> QED
    BY <1>1, <1>2, <1>3, <1>4, <1>5, <1>6

(* It is kept by parseNode, with an id and without one.                     *)
LEMMA ParseNodeIInv ==
    ASSUME KcdInv, parseNode
    PROVE  KcdInv'
  <1> DEFINE k == Len(nodes) + 1
             node == doc.nodes[k]
             made == [ name |-> node.name, comment |-> "", attributes |-> << >> ]
  <1>1. /\ phase = "nodes" /\ Len(nodes) < Len(doc.nodes)
        /\ UNCHANGED << doc, bus, messages, networks >>
    BY DEF parseNode
  <1>2. /\ messages = << >> /\ networks = Empty /\ DOMAIN networks = {} /\ bus = 1
        /\ doc.root_is_definition
    BY <1>1 DEF KcdInv, PhaseInv, Empty
  <1>3. doc \in Document /\ nodes \in Seq(NodeRecord) /\ Len(nodes) \in Nat
    BY DEF KcdInv, TypeOK
  <1>4. k \in 1 .. Len(doc.nodes) /\ node.id \in Int /\ node.name \in Names
    BY <1>1, <1>3, DocumentParts
  <1>5. made \in NodeRecord
    BY <1>4 DEF NodeRecord
  <1>6. CASE node.id = Absent
    <2>1. phase' = "thrown" /\ UNCHANGED << node_names, nodes >>
      BY <1>6 DEF parseNode
    <2>2. TypeOK'
      BY <1>1, <2>1, MadeUnchanged DEF KcdInv, TypeOK
    <2>3. NodesInv'
      BY <1>1, <2>1, NodesUnchanged DEF KcdInv
    <2>4. Absent \in Ids(doc)
      BY <1>3, <1>4, <1>6, DocumentParts DEF Ids
    <2>5. LoadsIffResolvable'
      BY <1>1, <2>1, <2>4 DEF LoadsIffResolvable, Resolvable
    <2>6. PhaseInv' /\ BusesInv' /\ MessagesInv' /\ NetworksInv'
      BY <1>1, <1>2, <2>1 DEF PhaseInv, BusesInv, MessagesInv, NetworksInv
    <2> QED
      BY <2>2, <2>3, <2>5, <2>6 DEF KcdInv
  <1>7. CASE node.id # Absent
    <2>1. /\ node_names' = [ id \in DOMAIN node_names \cup {node.id} |->
                               IF id = node.id THEN node.name ELSE node_names[id] ]
          /\ nodes' = Append(nodes, made)
          /\ phase' = "nodes"
      BY <1>1, <1>7 DEF parseNode
    <2> HIDE DEF node, made
    <2>2. /\ nodes' \in Seq(NodeRecord) /\ Len(nodes') = k
          /\ DOMAIN nodes = 1 .. Len(nodes) /\ DOMAIN nodes' = 1 .. k
          /\ \A i \in 1 .. Len(nodes) : nodes'[i] = nodes[i]
          /\ nodes'[k] = made
      BY <1>3, <1>5, <2>1, AppendProperties
    <2>3. nodes'[k].name = node.name
      <3>1. made.name = node.name
        BY DEF made
      <3> QED
        BY <2>2, <3>1
    <2>4. TypeOK'
      BY <1>1, <1>2, <2>1, <2>2 DEF KcdInv, TypeOK
    <2>5. \A i \in 1 .. k : i \in 1 .. Len(nodes) \/ i = k
      BY <1>3
    <2>6. \A i \in 1 .. Len(nodes') :
             nodes'[i].name = doc'.nodes[i].name /\ doc'.nodes[i].id # Absent
      BY <1>1, <1>7, <2>2, <2>3, <2>5 DEF KcdInv, NodesInv, node
    <2>7. DOMAIN node_names' = { doc'.nodes[i].id : i \in 1 .. Len(nodes') }
      <3>1. DOMAIN node_names = { doc.nodes[i].id : i \in 1 .. Len(nodes) }
        BY DEF KcdInv, NodesInv
      <3>2. { doc.nodes[i].id : i \in 1 .. k }
              = { doc.nodes[i].id : i \in 1 .. Len(nodes) } \cup {doc.nodes[k].id}
        BY <2>5, <1>3
      <3> QED
        BY <1>1, <2>1, <2>2, <3>1, <3>2 DEF node
    <2>8. \A id \in DOMAIN node_names' : node_names'[id] \in NamesOf(nodes')
      <3>1. NamesOf(nodes) \subseteq NamesOf(nodes')
        BY <2>2, <1>3 DEF NamesOf
      <3>2. node.name \in NamesOf(nodes')
        BY <1>3, <2>2, <2>3 DEF NamesOf
      <3> QED
        BY <2>1, <3>1, <3>2 DEF KcdInv, NodesInv
    <2>9. NodesInv'
      <3>1. Len(nodes') <= Len(doc'.nodes)
        BY <1>1, <1>4, <2>2, <1>3, DocumentParts
      <3> QED
        BY <2>6, <2>7, <2>8, <3>1 DEF NodesInv
    <2>10. PhaseInv' /\ BusesInv' /\ MessagesInv' /\ NetworksInv' /\ LoadsIffResolvable'
      BY <1>1, <1>2, <2>1
      DEF PhaseInv, BusesInv, MessagesInv, NetworksInv, LoadsIffResolvable
    <2> QED
      BY <2>4, <2>9, <2>10 DEF KcdInv
  <1> QED
    BY <1>6, <1>7

(* It is kept by parseMessage, whether the message is made or one of the    *)
(* three tests fails.                                                       *)
LEMMA ParseMessageIInv ==
    ASSUME KcdInv, parseMessage
    PROVE  KcdInv'
  <1> DEFINE i == Len(messages) + 1
             m == doc.buses[bus].messages[i]
             resolved == KnownSender(m) /\ Known(m.producers) /\ KnownConsumers(m)
  <1>1. /\ phase = "networks" /\ bus <= Len(doc.buses)
        /\ Len(messages) < Len(doc.buses[bus].messages)
        /\ UNCHANGED << doc, node_names, nodes, bus, networks >>
    BY DEF parseMessage
  <1>2. /\ doc \in Document /\ bus \in 1 .. Len(doc.buses)
        /\ messages \in Seq(Made) /\ Len(messages) \in Nat
        /\ nodes \in Seq(NodeRecord) /\ Len(nodes) = Len(doc.nodes)
        /\ doc.root_is_definition
    BY <1>1, DocumentParts DEF KcdInv, TypeOK, PhaseInv
  <1>3. i \in 1 .. Len(doc.buses[bus].messages) /\ m \in MessageElements
    <2>1. /\ Len(doc.buses[bus].messages) \in Nat
          /\ \A j \in 1 .. Len(doc.buses[bus].messages) :
                doc.buses[bus].messages[j] \in MessageElements
      BY <1>2, DocumentParts
    <2>2. i \in 1 .. Len(doc.buses[bus].messages)
      BY <1>1, <1>2, <2>1
    <2> QED
      BY <2>1, <2>2
  <1>4. DOMAIN node_names = Ids(doc)
    BY <1>2, DocumentParts DEF KcdInv, NodesInv, Ids
  <1>5. resolved <=> ResolvableMessage(doc, m)
    BY <1>3, <1>4, KnownIsResolvable
  <1>6. Made' = Made
    BY <1>1, MadeUnchanged
  <1>7. NodesInv' /\ NamesOf(nodes)' = NamesOf(nodes)
    BY <1>1, NodesUnchanged DEF KcdInv, NamesOf
  <1>8. NetworksInv'
    BY <1>1, <1>7 DEF KcdInv, NetworksInv
  <1>9. CASE ~ resolved
    <2>1. phase' \in {"thrown", "undefined"} /\ UNCHANGED messages
      BY <1>9 DEF parseMessage
    <2>2. TypeOK'
      BY <1>1, <1>6, <2>1 DEF KcdInv, TypeOK
    <2>3. ~ Resolvable(doc)
      BY <1>2, <1>3, <1>5, <1>9, DocumentParts DEF Resolvable
    <2>4. PhaseInv' /\ BusesInv' /\ LoadsIffResolvable'
      BY <1>1, <2>1, <2>3 DEF PhaseInv, BusesInv, LoadsIffResolvable
    <2>5. MessagesInv'
      BY <1>1, <1>7, <2>1 DEF KcdInv, MessagesInv
    <2> QED
      BY <1>7, <1>8, <2>2, <2>4, <2>5 DEF KcdInv
  <1>10. CASE resolved
    <2>1. messages' = Append(messages, Message(m)) /\ phase' = "networks"
      BY <1>1, <1>10 DEF parseMessage
    <2>2. Message(m) \in Made
      BY <1>3 DEF Made
    <2> HIDE DEF m, resolved
    <2>3. /\ messages' \in Seq(Made) /\ Len(messages') = i
          /\ \A j \in 1 .. Len(messages) : messages'[j] = messages[j]
          /\ messages'[i] = Message(m)
      BY <1>2, <2>1, <2>2, AppendProperties
    <2>4. TypeOK'
      BY <1>1, <1>6, <2>1, <2>3 DEF KcdInv, TypeOK
    <2>5. PhaseInv' /\ LoadsIffResolvable'
      BY <1>1, <2>1 DEF KcdInv, PhaseInv, LoadsIffResolvable
    <2>6. \A j \in 1 .. i : j \in 1 .. Len(messages) \/ j = i
      BY <1>2
    <2>7. BusesInv'
      <3>1. ResolvableMessage(doc, ElementAt(bus, i))
        BY <1>5, <1>10 DEF m, ElementAt
      <3>2. \A j \in 1 .. Len(messages') : ResolvableMessage(doc, ElementAt(bus, j))
        BY <1>1, <2>3, <2>6, <3>1 DEF KcdInv, BusesInv
      <3>3. /\ Len(messages') <= Len(doc.buses[bus].messages)
            /\ bus # Len(doc.buses) + 1
        BY <1>2, <1>3, <2>3, DocumentParts
      <3> QED
        BY <1>1, <3>2, <3>3 DEF KcdInv, BusesInv, ElementAt
    <2>8. References(Message(m)) \subseteq NamesOf(nodes)
      BY <1>10, MadeReferences DEF KcdInv, resolved
    <2>9. MessagesInv'
      BY <1>7, <2>3, <2>6, <2>8 DEF KcdInv, MessagesInv
    <2> QED
      BY <1>7, <1>8, <2>4, <2>5, <2>7, <2>9 DEF KcdInv
  <1> QED
    BY <1>9, <1>10

(* It is kept by parseNetwork, which begins the next bus.                   *)
LEMMA ParseNetworkIInv ==
    ASSUME KcdInv, parseNetwork
    PROVE  KcdInv'
  <1> DEFINE name == doc.buses[bus].name
  <1>1. /\ phase = "networks" /\ bus <= Len(doc.buses)
        /\ Len(messages) = Len(doc.buses[bus].messages)
        /\ bus' = bus + 1 /\ messages' = << >>
        /\ UNCHANGED << doc, phase, node_names, nodes >>
        /\ networks' = [ n \in DOMAIN networks \cup {name} |->
                           IF n \in DOMAIN networks THEN networks[n] ELSE Network ]
    BY DEF parseNetwork
  <1>2. /\ doc \in Document /\ bus \in 1 .. Len(doc.buses) /\ Len(doc.buses) \in Nat
        /\ messages \in Seq(Made) /\ DOMAIN messages = 1 .. Len(messages)
    BY <1>1, DocumentParts DEF KcdInv, TypeOK
  <1>3. TypeOK'
    BY <1>1, <1>2 DEF KcdInv, TypeOK
  <1>4. NodesInv' /\ NamesOf(nodes)' = NamesOf(nodes)
    BY <1>1, NodesUnchanged DEF KcdInv, NamesOf
  <1>5. PhaseInv' /\ MessagesInv' /\ LoadsIffResolvable'
    BY <1>1 DEF KcdInv, PhaseInv, MessagesInv, LoadsIffResolvable
  <1>6. BusesInv'
    <2>1. \A b \in 1 .. bus' - 1 : b \in 1 .. bus - 1 \/ b = bus
      BY <1>1, <1>2
    <2>2. \A b \in 1 .. bus' - 1 : \A i \in 1 .. Len(doc.buses[b].messages) :
             ResolvableMessage(doc, ElementAt(b, i))
      BY <1>1, <2>1 DEF KcdInv, BusesInv
    <2>3. /\ bus' <= Len(doc.buses) + 1
          /\ bus' <= Len(doc.buses) => 0 <= Len(doc.buses[bus'].messages)
      BY <1>1, <1>2, DocumentParts
    <2>4. Len(messages') = 0
      BY <1>1
    <2> QED
      BY <1>1, <2>2, <2>3, <2>4 DEF BusesInv, ElementAt
  <1>7. NetworksInv'
    <2>1. Network.nodes = nodes /\ Network.messages = messages
      BY DEF Network
    <2> HIDE DEF name
    <2>2. \A n \in DOMAIN networks' :
              (networks'[n] = networks[n] /\ n \in DOMAIN networks) \/ networks'[n] = Network
      BY <1>1
    <2>3. \A n \in DOMAIN networks' :
             /\ networks'[n].nodes = nodes
             /\ \A i \in DOMAIN networks'[n].messages :
                   References(networks'[n].messages[i]) \subseteq NamesOf(nodes)
      BY <1>2, <2>1, <2>2 DEF KcdInv, NetworksInv, MessagesInv
    <2>4. nodes' = nodes /\ NamesOf(nodes)' = NamesOf(nodes)
      BY <1>1, <1>4
    <2>5. \A n \in DOMAIN networks' :
             /\ networks'[n].nodes = nodes'
             /\ \A i \in DOMAIN networks'[n].messages :
                   References(networks'[n].messages[i]) \subseteq NamesOf(nodes)'
      BY <2>3, <2>4
    <2> QED
      BY <2>5, Zenon DEF NetworksInv
  <1> QED
    BY <1>3, <1>4, <1>5, <1>6, <1>7 DEF KcdInv

(* It is kept when the buses end: every message was resolved.               *)
LEMMA NetworksParsedIInv ==
    ASSUME KcdInv, NetworksParsed
    PROVE  KcdInv'
  <1>1. /\ phase = "networks" /\ bus > Len(doc.buses) /\ phase' = "done"
        /\ UNCHANGED << doc, node_names, nodes, bus, messages, networks >>
    BY DEF NetworksParsed
  <1>2. TypeOK'
    BY <1>1, MadeUnchanged DEF KcdInv, TypeOK
  <1>3. NodesInv' /\ NamesOf(nodes)' = NamesOf(nodes)
    BY <1>1, NodesUnchanged DEF KcdInv, NamesOf
  <1>4. PhaseInv' /\ BusesInv' /\ MessagesInv' /\ NetworksInv'
    BY <1>1, <1>3 DEF KcdInv, PhaseInv, BusesInv, MessagesInv, NetworksInv
  <1>5. Resolvable(doc)
    <2>1. doc \in Document /\ doc.root_is_definition /\ Len(nodes) = Len(doc.nodes)
          /\ bus = Len(doc.buses) + 1 /\ Len(doc.buses) \in Nat
      BY <1>1, DocumentParts DEF KcdInv, TypeOK, PhaseInv, BusesInv
    <2>2. Absent \notin Ids(doc)
      BY <2>1, DocumentParts DEF KcdInv, NodesInv, Ids
    <2>3. \A b \in 1 .. Len(doc.buses) : \A i \in 1 .. Len(doc.buses[b].messages) :
             ResolvableMessage(doc, doc.buses[b].messages[i])
      BY <1>1, <2>1 DEF KcdInv, BusesInv, ElementAt
    <2> QED
      BY <2>1, <2>2, <2>3, DocumentParts DEF Resolvable
  <1>6. LoadsIffResolvable'
    BY <1>1, <1>5 DEF LoadsIffResolvable
  <1> QED
    BY <1>2, <1>3, <1>4, <1>6 DEF KcdInv

(* It is kept when nothing changes.                                         *)
LEMMA StutterIInv ==
    ASSUME KcdInv, UNCHANGED vars
    PROVE  KcdInv'
  <1> USE DEF vars
  <1>1. TypeOK'
    BY MadeUnchanged DEF KcdInv, TypeOK
  <1>2. NodesInv' /\ NamesOf(nodes)' = NamesOf(nodes)
    BY NodesUnchanged DEF KcdInv, NamesOf
  <1>3. PhaseInv' /\ BusesInv' /\ LoadsIffResolvable'
    BY DEF KcdInv, PhaseInv, BusesInv, ElementAt, LoadsIffResolvable
  <1>4. MessagesInv' /\ NetworksInv'
    BY <1>2 DEF KcdInv, MessagesInv, NetworksInv
  <1> QED
    BY <1>1, <1>2, <1>3, <1>4 DEF KcdInv

(* The invariant holds in every state. *)
THEOREM Invariance == Spec => []KcdInv
  <1>1. KcdInv /\ [Next]_vars => KcdInv'
    BY LoadIInv, DefinitionIInv, ParseNodeIInv, NodesParsedIInv, ParseMessageIInv,
       ParseNetworkIInv, NetworksParsedIInv, StutterIInv
    DEF Next, Parse
  <1> QED
    BY InitIInv, <1>1, PTL DEF Spec

(* KCD: the senders, transmitters and receivers a network names are its     *)
(* nodes, for every document.                                               *)
THEOREM ReferencesDeclaredAlways == Spec => []ReferencesDeclared
  <1>1. KcdInv => ReferencesDeclared
    BY DEF KcdInv, NetworksInv, ReferencesDeclared, NamesOf
  <1> QED
    BY Invariance, <1>1, PTL

(* LoadKCDFromIs: loading succeeds for exactly the documents that can be    *)
(* resolved, for every document.                                            *)
THEOREM LoadsIffResolvableAlways == Spec => []LoadsIffResolvable
  <1>1. KcdInv => LoadsIffResolvable
    BY DEF KcdInv
  <1> QED
    BY Invariance, <1>1, PTL

-----------------------------------------------------------------------------
(* What is made of a message.                                               *)

(* The size of a message is enough for its direct signals, and no more.     *)
HoldsDirect(m) ==
    LET Direct == { k \in DOMAIN m.signals : m.signals[k].multiplexer = "NoMux" }
        End(k) == m.signals[k].head.start_bit + m.signals[k].head.bit_size
    IN  /\ \A k \in Direct : End(k) <= 8 * m.size
        /\ m.size > 0 => \E k \in Direct : End(k) > 8 * (m.size - 1)

(* made is what became of the element m. *)
IsMadeFrom(made, m) == made.id = m.id /\ (m.length = Absent => HoldsDirect(made))

(* What find_elements gives is a sequence.                                  *)
LEMMA FoundIsSequence ==
    ASSUME NEW s, Found(s)
    PROVE  Sequence(s)
  BY DEF Found, Sequence

(* The elements of a multiplexor and its groups are multiplexed.            *)
Multiplexed(x) ==
    {Element(x.switch, "MuxSwitch", 0)} \cup
    UNION { { Element(g.signals[i], "MuxValue", g.count) : i \in DOMAIN g.signals } :
            g \in ToSet(x.groups) }
(* MultiplexElements gives such elements and no other.                      *)
LEMMA MultiplexElementsAre ==
    ASSUME NEW x, Found(x.groups), \A g \in ToSet(x.groups) : FoundSignals(g.signals)
    PROVE  MultiplexElements(x) \in Seq(Multiplexed(x))
  <1> DEFINE E == Multiplexed(x)
             OfGroup(g) == [ i \in DOMAIN g.signals |->
                               Element(g.signals[i], "MuxValue", g.count) ]
             groups == [ i \in DOMAIN x.groups |-> OfGroup(x.groups[i]) ]
  <1>1. ASSUME NEW i \in DOMAIN x.groups
        PROVE  OfGroup(x.groups[i]) \in Seq(E)
    <2> DEFINE g == x.groups[i]
    <2>1. g \in ToSet(x.groups) /\ FoundSignals(g.signals)
      BY DEF ToSet
    <2> HIDE DEF g
    <2>2. Len(g.signals) \in Nat /\ DOMAIN g.signals = 1 .. Len(g.signals)
      BY <2>1, FoundIsSequence, SequenceDomain DEF FoundSignals
    <2>3. \A k \in DOMAIN g.signals : Element(g.signals[k], "MuxValue", g.count) \in E
      BY <2>1 DEF Multiplexed
    <2> HIDE DEF E
    <2>4. OfGroup(g) \in Seq(E)
      BY <2>2, <2>3
    <2> QED
      BY <2>4 DEF g
  <1>2. groups \in Seq(Seq(E))
    <2>1. Len(x.groups) \in Nat /\ DOMAIN x.groups = 1 .. Len(x.groups)
      BY FoundIsSequence, SequenceDomain
    <2> HIDE DEF E, OfGroup
    <2> QED
      BY <1>1, <2>1
  <1> HIDE DEF groups
  <1>3. FlattenSeq(groups) \in Seq(E)
    <2> HIDE DEF E
    <2> QED
      BY <1>2, FlattenSeqType
  <1>4. << Element(x.switch, "MuxSwitch", 0) >> \in Seq(E)
    <2>1. Element(x.switch, "MuxSwitch", 0) \in E
      BY DEF Multiplexed
    <2> HIDE DEF E
    <2> QED
      BY <2>1
  <1>5. MultiplexElements(x) = << Element(x.switch, "MuxSwitch", 0) >> \o FlattenSeq(groups)
    BY DEF MultiplexElements, groups
  <1> HIDE DEF E
  <1>6. << Element(x.switch, "MuxSwitch", 0) >> \o FlattenSeq(groups) \in Seq(E)
    BY <1>3, <1>4
  <1> QED
    BY <1>5, <1>6 DEF E

(* An element says a switch value only below a multiplexor.                 *)
IsElement(e) ==
    /\ e.multiplexer \in {"NoMux", "MuxSwitch", "MuxValue"}
    /\ e.multiplexer # "MuxValue" => e.switch_value = 0

(* The other elements are the direct signals of the message, all of them.   *)
LEMMA DirectElements ==
    ASSUME NEW m \in MessageElements
    PROVE  /\ Sequence(SignalElements(m))
           /\ \A k \in DOMAIN SignalElements(m) : IsElement(SignalElements(m)[k])
           /\ \A k \in DOMAIN SignalElements(m) :
                SignalElements(m)[k].multiplexer = "NoMux" =>
                    \E i \in DOMAIN m.signals :
                        SignalElements(m)[k].signal = m.signals[i]
           /\ \A i \in DOMAIN m.signals : \E k \in DOMAIN SignalElements(m) :
                /\ SignalElements(m)[k].multiplexer = "NoMux"
                /\ SignalElements(m)[k].signal = m.signals[i]
  <1> DEFINE above == IF m.multiplexes = << >> THEN << >>
                      ELSE MultiplexElements(Head(m.multiplexes))
             own   == [ i \in DOMAIN m.signals |-> Element(m.signals[i], "NoMux", 0) ]
             all   == SignalElements(m)
  <1>1. /\ Found(m.signals) /\ Found(m.multiplexes)
        /\ \A x \in ToSet(m.multiplexes) :
             Found(x.groups) /\ \A g \in ToSet(x.groups) : FoundSignals(g.signals)
    BY SignalsAssumption DEF FoundSignals
  <1>2. /\ Sequence(above)
        /\ \A k \in DOMAIN above : above[k].multiplexer # "NoMux" /\ IsElement(above[k])
    <2>1. CASE m.multiplexes = << >>
      <3>1. above = << >>
        BY <2>1
      <3> HIDE DEF above
      <3>2. Sequence(<< >>) /\ DOMAIN << >> = {}
        BY DEF Sequence
      <3> QED
        BY <3>1, <3>2
    <2>2. CASE m.multiplexes # << >>
      <3> DEFINE x == Head(m.multiplexes)
      <3>1. x \in ToSet(m.multiplexes)
        <4>1. m.multiplexes \in Seq({ m.multiplexes[i] : i \in DOMAIN m.multiplexes })
          BY <1>1 DEF Found
        <4>2. 1 \in DOMAIN m.multiplexes /\ x = m.multiplexes[1]
          BY <2>2, <4>1
        <4> QED
          BY <4>2 DEF ToSet
      <3> HIDE DEF x
      <3>2. MultiplexElements(x) \in Seq(Multiplexed(x))
        BY <1>1, <3>1, MultiplexElementsAre
      <3>3. above = MultiplexElements(x)
        BY <2>2 DEF x
      <3>4. \A e \in Multiplexed(x) : e.multiplexer # "NoMux" /\ IsElement(e)
        BY DEF Multiplexed, Element, IsElement
      <3> HIDE DEF above
      <3>5. \A k \in DOMAIN above : above[k] \in Multiplexed(x)
        BY <3>2, <3>3
      <3> QED
        BY <3>2, <3>3, <3>4, <3>5, SequenceIs
    <2> QED
      BY <2>1, <2>2
  <1>3. /\ Sequence(own) /\ DOMAIN own = DOMAIN m.signals
        /\ \A i \in DOMAIN own :
              own[i].multiplexer = "NoMux" /\ own[i].signal = m.signals[i] /\ IsElement(own[i])
    <2>1. Len(m.signals) \in Nat /\ DOMAIN m.signals = 1 .. Len(m.signals)
      BY <1>1, FoundIsSequence, SequenceDomain
    <2>2. own = [ i \in 1 .. Len(m.signals) |-> own[i] ]
      BY <2>1
    <2>3. Sequence(own)
      <3> HIDE DEF own
      <3> QED
        BY <2>1, <2>2, SequenceMade
    <2> QED
      BY <2>3 DEF Element, IsElement
  <1>4. all = above \o own
    BY DEF SignalElements
  <1> HIDE DEF above, own, all
  <1>5. /\ \A i \in DOMAIN above : all[i] = above[i]
        /\ \A i \in DOMAIN own : all[Len(above) + i] = own[i]
        /\ \A k \in DOMAIN all \ DOMAIN above :
              k - Len(above) \in DOMAIN own /\ all[k] = own[k - Len(above)]
    BY <1>2, <1>3, <1>4, SequenceConcat
  <1>6. \A i \in DOMAIN own : Len(above) + i \in DOMAIN all
    <2>1. /\ DOMAIN all = 1 .. Len(above) + Len(own) /\ DOMAIN own = 1 .. Len(own)
          /\ Len(above) \in Nat /\ Len(own) \in Nat
      BY <1>2, <1>3, <1>4, SequenceConcat, SequenceDomain
    <2> QED
      BY <2>1
  <1>7. ASSUME NEW k \in DOMAIN all, all[k].multiplexer = "NoMux"
        PROVE  \E i \in DOMAIN m.signals : all[k].signal = m.signals[i]
    <2>1. k \notin DOMAIN above
      BY <1>2, <1>5, <1>7
    <2> DEFINE i == k - Len(above)
    <2>2. i \in DOMAIN own /\ all[k] = own[i]
      BY <1>5, <2>1
    <2> HIDE DEF i
    <2> QED
      BY <1>3, <2>2
  <1>8. ASSUME NEW i \in DOMAIN m.signals
        PROVE  \E k \in DOMAIN all :
                  all[k].multiplexer = "NoMux" /\ all[k].signal = m.signals[i]
    <2> DEFINE k == Len(above) + i
    <2>1. k \in DOMAIN all /\ all[k] = own[i]
      BY <1>3, <1>5, <1>6
    <2> HIDE DEF k
    <2> QED
      BY <1>3, <2>1
  <1>9. Sequence(all)
    BY <1>2, <1>3, <1>4, SequenceConcat
  <1>10. \A k \in DOMAIN all : IsElement(all[k])
    BY <1>2, <1>3, <1>5
  <1> QED
    BY <1>7, <1>8, <1>9, <1>10 DEF all

(* getMessageSize, for signals in any number.                               *)
SignalEnds(m) == { m.signals[i].offset + Length(m.signals[i]) : i \in DOMAIN m.signals }
(* It is the least number of bytes with the last of these ends in it.       *)
LEMMA SizeIs ==
    ASSUME NEW m \in MessageElements
    PROVE  /\ getMessageSize(m) \in Nat
           /\ SignalEnds(m) \subseteq Nat
           /\ \A e \in SignalEnds(m) : e <= 8 * getMessageSize(m)
           /\ getMessageSize(m) > 0 => \E e \in SignalEnds(m) : e > 8 * (getMessageSize(m) - 1)
  <1> DEFINE S == SignalEnds(m) \cup {0}
             max == Max(S)
  <1>1. FoundSignals(m.signals)
    BY SignalsAssumption
  <1>2. SignalEnds(m) \subseteq Nat
    BY <1>1 DEF SignalEnds, FoundSignals, Length, Absent
  <1>3. max \in S /\ \A e \in S : max >= e
    <2>1. Len(m.signals) \in Nat /\ DOMAIN m.signals = 1 .. Len(m.signals)
      BY <1>1, FoundIsSequence, SequenceDomain DEF FoundSignals
    <2> DEFINE end == [ i \in 1 .. Len(m.signals) |->
                          m.signals[i].offset + Length(m.signals[i]) ]
    <2>2. \A i \in 1 .. Len(m.signals) : end[i] \in SignalEnds(m)
      BY <2>1 DEF SignalEnds
    <2>3. \A i \in 1 .. Len(m.signals) : end[i] \in Nat
      BY <1>2, <2>2
    <2>4. \A e \in SignalEnds(m) : \E i \in 1 .. Len(m.signals) : e = end[i]
      BY <2>1 DEF SignalEnds
    <2> HIDE DEF end
    <2>5. PICK n \in Nat : \A i \in 1 .. Len(m.signals) : end[i] <= n
      BY <2>1, <2>3, NumbersBounded
    <2>6. S \in SUBSET Nat /\ S # {} /\ \A e \in S : e <= n
      BY <1>2, <2>4, <2>5
    <2> HIDE DEF S
    <2>7. \E x \in S : \A y \in S : x >= y
      BY <2>6, GreatestNumber
    <2> QED
      BY <2>7, Zenon DEF Max
  <1>4. getMessageSize(m) = (max + 7) \div 8
    BY DEF getMessageSize, SignalEnds
  <1>5. max \in Nat
    BY <1>2, <1>3
  <1> HIDE DEF max
  <1>6. /\ getMessageSize(m) \in Nat
        /\ max <= 8 * getMessageSize(m)
        /\ getMessageSize(m) > 0 => max > 8 * (getMessageSize(m) - 1) /\ max # 0
    BY <1>4, <1>5
  <1>7. \A e \in SignalEnds(m) : e \in Nat /\ e <= max
    BY <1>2, <1>3, <1>5
  <1>8. \A e \in SignalEnds(m) : e <= 8 * getMessageSize(m)
    BY <1>5, <1>6, <1>7
  <1>9. max # 0 => max \in SignalEnds(m)
    BY <1>3
  <1> QED
    BY <1>2, <1>6, <1>8, <1>9

(* parseSignal: the place and the multiplexer of a signal are its element's. *)
LEMMA ParsedSignal ==
    ASSUME NEW e
    PROVE  /\ parseSignal(e).multiplexer = e.multiplexer
           /\ parseSignal(e).head.start_bit = e.signal.offset
           /\ parseSignal(e).head.bit_size = Length(e.signal)
  <1> DEFINE v == parseValue(IF e.signal.value = << >> THEN NoValue ELSE Head(e.signal.value))
             head == [ start_bit  |-> e.signal.offset,
                       bit_size   |-> Length(e.signal),
                       byte_order |-> IF e.signal.big THEN "BigEndian" ELSE "LittleEndian",
                       value_type |-> v.value_type,
                       minimum    |-> v.minimum,
                       maximum    |-> v.maximum ]
  <1>1. parseSignal(e).multiplexer = e.multiplexer
    BY Zenon DEF parseSignal
  <1>2. parseSignal(e).head = head
    BY Zenon DEF parseSignal
  <1> HIDE DEF v
  <1>3. head.start_bit = e.signal.offset /\ head.bit_size = Length(e.signal)
    OBVIOUS
  <1> QED
    BY <1>1, <1>2, <1>3

(* Message: its signals are parsed from its elements, one by one.           *)
LEMMA MadeSignals ==
    ASSUME NEW m
    PROVE  Message(m).signals
             = [ k \in DOMAIN SignalElements(m) |-> parseSignal(SignalElements(m)[k]) ]
  BY Zenon DEF Message

(* What is made of a message is made from it in that sense.                 *)
LEMMA MadeHoldsDirect ==
    ASSUME NEW m \in MessageElements
    PROVE  IsMadeFrom(Message(m), m)
  <1> DEFINE made == Message(m)
             elements == SignalElements(m)
             End(k) == made.signals[k].head.start_bit + made.signals[k].head.bit_size
             Direct == { k \in DOMAIN made.signals : made.signals[k].multiplexer = "NoMux" }
  <1>1. made.id = m.id /\ (m.length = Absent => made.size = getMessageSize(m))
    BY DEF Message, MessageSize
  <1>2. made.signals = [ k \in DOMAIN elements |-> parseSignal(elements[k]) ]
    BY MadeSignals
  <1> HIDE DEF made, elements
  <1>3. \A k \in DOMAIN elements :
            /\ made.signals[k].multiplexer = elements[k].multiplexer
            /\ End(k) = elements[k].signal.offset + Length(elements[k].signal)
    <2> SUFFICES ASSUME NEW k \in DOMAIN elements
                 PROVE  /\ made.signals[k].multiplexer = elements[k].multiplexer
                        /\ End(k) = elements[k].signal.offset + Length(elements[k].signal)
      OBVIOUS
    <2> DEFINE e == elements[k]
               s == made.signals[k]
    <2>1. s = parseSignal(e)
      BY <1>2
    <2> HIDE DEF e, s
    <2>2. /\ s.multiplexer = e.multiplexer
          /\ s.head.start_bit = e.signal.offset /\ s.head.bit_size = Length(e.signal)
      BY <2>1, ParsedSignal
    <2> QED
      BY <2>2 DEF e, s
  <1>5. DOMAIN made.signals = DOMAIN elements
    BY <1>2
  <1>7. \A k \in Direct : End(k) \in SignalEnds(m)
    BY <1>3, <1>5, DirectElements DEF elements, SignalEnds
  <1>8. \A e \in SignalEnds(m) : \E k \in Direct : e = End(k)
    <2> SUFFICES ASSUME NEW i \in DOMAIN m.signals
                 PROVE  \E k \in Direct : m.signals[i].offset + Length(m.signals[i]) = End(k)
      BY DEF SignalEnds
    <2>1. PICK k \in DOMAIN elements :
              elements[k].multiplexer = "NoMux" /\ elements[k].signal = m.signals[i]
      BY DirectElements DEF elements
    <2>2. k \in Direct /\ End(k) = m.signals[i].offset + Length(m.signals[i])
      BY <1>3, <1>5, <2>1
    <2> QED
      BY <2>2
  <1>9. ASSUME m.length = Absent PROVE HoldsDirect(made)
    <2>1. made.size = getMessageSize(m)
      BY <1>1, <1>9
    <2>2. \A k \in Direct : End(k) <= 8 * made.size
      BY <1>7, <2>1, SizeIs
    <2>3. made.size > 0 => \E k \in Direct : End(k) > 8 * (made.size - 1)
      BY <1>8, <2>1, SizeIs
    <2> QED
      BY <2>2, <2>3 DEF HoldsDirect
  <1> QED
    BY <1>1, <1>9 DEF made, IsMadeFrom

-----------------------------------------------------------------------------
(* Which bus each network was made from.                                    *)

IsFirstBus(b, n) ==
    /\ b \in 1 .. Len(doc.buses) /\ doc.buses[b].name = n
    /\ \A c \in 1 .. b - 1 : doc.buses[c].name # n
IsNetworkOf(made, b) ==
    /\ made.bit_timing = << Baudrate(doc.buses[b]), 0, 0 >>
    /\ Len(made.messages) = Len(doc.buses[b].messages)
    /\ DOMAIN made.messages = 1 .. Len(doc.buses[b].messages)
    /\ \A i \in 1 .. Len(doc.buses[b].messages) : IsMadeFrom(made.messages[i], ElementAt(b, i))
BusNamesUpTo(k) == { doc.buses[b].name : b \in 1 .. k }

FirstBusInv ==
    /\ \A n \in DOMAIN networks :
          /\ Len(nodes) = Len(doc.nodes)
          /\ \E b \in 1 .. Len(doc.buses) : IsFirstBus(b, n) /\ IsNetworkOf(networks[n], b)
    /\ phase = "networks" =>
          /\ DOMAIN networks = BusNamesUpTo(bus - 1)
          /\ \A i \in 1 .. Len(messages) : IsMadeFrom(messages[i], ElementAt(bus, i))
    /\ phase = "done" => DOMAIN networks = BusNamesUpTo(Len(doc.buses))

(* The first bus in the order of the document is FirstBus. *)
LEMMA IsFirstIsFirstBus ==
    ASSUME doc \in Document, NEW n, NEW b, IsFirstBus(b, n)
    PROVE  FirstBus(n) = doc.buses[b]
  <1> DEFINE of_name == { c \in DOMAIN doc.buses : doc.buses[c].name = n }
  <1>1. DOMAIN doc.buses = 1 .. Len(doc.buses) /\ Len(doc.buses) \in Nat
    BY DocumentParts
  <1>2. b \in of_name /\ of_name \subseteq Int
    BY <1>1 DEF IsFirstBus
  <1>3. \A c \in of_name : b <= c
    BY <1>1 DEF IsFirstBus
  <1> HIDE DEF of_name
  <1>5. (CHOOSE x \in of_name : \A y \in of_name : x <= y) = b
    <2> DEFINE first == CHOOSE x \in of_name : \A y \in of_name : x <= y
    <2>1. first \in of_name /\ \A y \in of_name : first <= y
      BY <1>2, <1>3, Zenon
    <2> HIDE DEF first
    <2>2. first = b
      BY <1>2, <1>3, <2>1
    <2> QED
      BY <2>2 DEF first
  <1>7. Min(of_name) = b
    BY <1>5 DEF Min
  <1> QED
    BY <1>7 DEF FirstBus, of_name

(* A step that leaves the networks and what they were made from alone.      *)
LEMMA FirstBusKept ==
    ASSUME FirstBusInv, UNCHANGED << doc, nodes, networks >>
    PROVE  \A n \in DOMAIN networks' :
              /\ Len(nodes') = Len(doc'.nodes)
              /\ \E b \in 1 .. Len(doc'.buses) :
                    IsFirstBus(b, n)' /\ IsNetworkOf(networks[n], b)'
  <1> SUFFICES ASSUME NEW n \in DOMAIN networks'
               PROVE  /\ Len(nodes') = Len(doc'.nodes)
                      /\ \E b \in 1 .. Len(doc'.buses) :
                            IsFirstBus(b, n)' /\ IsNetworkOf(networks[n], b)'
    OBVIOUS
  <1>1. Len(nodes) = Len(doc.nodes)
    BY DEF FirstBusInv
  <1>2. PICK b \in 1 .. Len(doc.buses) : IsFirstBus(b, n) /\ IsNetworkOf(networks[n], b)
    BY DEF FirstBusInv
  <1>3. IsFirstBus(b, n)'
    BY <1>2 DEF IsFirstBus
  <1>5. IsNetworkOf(networks[n], b)'
    BY <1>2 DEF IsNetworkOf, ElementAt, Baudrate
  <1> QED
    BY <1>1, <1>2, <1>3, <1>5

(* parseNetwork adds a network for the first bus of a name, and for no      *)
(* other.                                                                   *)
LEMMA ParseNetworkFirstBus ==
    ASSUME KcdInv, FirstBusInv, parseNetwork
    PROVE  FirstBusInv'
  <1> DEFINE name == doc.buses[bus].name
  <1>1. /\ phase = "networks" /\ bus <= Len(doc.buses)
        /\ Len(messages) = Len(doc.buses[bus].messages)
        /\ bus' = bus + 1 /\ messages' = << >>
        /\ UNCHANGED << doc, phase, node_names, nodes >>
        /\ networks' = [ n \in DOMAIN networks \cup {name} |->
                           IF n \in DOMAIN networks THEN networks[n] ELSE Network ]
    BY DEF parseNetwork
  <1>2. /\ doc \in Document /\ bus \in 1 .. Len(doc.buses) /\ Len(doc.buses) \in Nat
        /\ Len(nodes) = Len(doc.nodes)
    BY <1>1, DocumentParts DEF KcdInv, TypeOK, PhaseInv
  <1>3. BusNamesUpTo(bus) = BusNamesUpTo(bus - 1) \cup {name}
    <2>1. \A b \in 1 .. bus : b \in 1 .. bus - 1 \/ b = bus
      BY <1>2
    <2>2. \A b \in 1 .. bus - 1 : b \in 1 .. bus
      BY <1>2
    <2>3. bus \in 1 .. bus
      BY <1>2
    <2> QED
      BY <2>1, <2>2, <2>3 DEF BusNamesUpTo
  <1>5. DOMAIN networks = BusNamesUpTo(bus - 1)
    BY <1>1 DEF FirstBusInv
  <1>7. IsNetworkOf(Network, bus)
    <2>1. /\ Network.messages = messages
          /\ Network.bit_timing = << Baudrate(doc.buses[bus]), 0, 0 >>
      BY DEF Network
    <2>2. DOMAIN messages = 1 .. Len(messages)
      BY DEF KcdInv, TypeOK
    <2> QED
      BY <1>1, <2>1, <2>2 DEF FirstBusInv, IsNetworkOf
  <1>8. name \notin DOMAIN networks => IsFirstBus(bus, name)
    BY <1>2, <1>5 DEF IsFirstBus, BusNamesUpTo
  <1> HIDE DEF name
  <1>9. ASSUME NEW n \in DOMAIN networks'
        PROVE  \E b \in 1 .. Len(doc.buses) : IsFirstBus(b, n) /\ IsNetworkOf(networks'[n], b)
    <2>1. CASE n \in DOMAIN networks
      <3>1. networks'[n] = networks[n]
        BY <1>1, <2>1
      <3> QED
        BY <2>1, <3>1 DEF FirstBusInv
    <2>2. CASE n \notin DOMAIN networks
      <3>1. n = name /\ networks'[n] = Network
        BY <1>1, <2>2
      <3> QED
        BY <1>2, <1>7, <1>8, <2>2, <3>1
    <2> QED
      BY <2>1, <2>2
  <1>4. DOMAIN networks' = BusNamesUpTo(bus' - 1)
    <2>1. bus' - 1 = bus
      BY <1>1, <1>2
    <2> QED
      BY <1>1, <1>3, <1>5, <2>1
  <1>6. ASSUME NEW n \in DOMAIN networks'
        PROVE  /\ Len(nodes') = Len(doc'.nodes)
               /\ \E b \in 1 .. Len(doc'.buses) :
                     IsFirstBus(b, n)' /\ IsNetworkOf(networks[n], b)'
    <2>2. PICK b \in 1 .. Len(doc.buses) : IsFirstBus(b, n) /\ IsNetworkOf(networks'[n], b)
      BY <1>9, <1>6
    <2>3. doc' = doc /\ nodes' = nodes
      BY <1>1
    <2>4. IsFirstBus(b, n)'
      BY <2>2, <2>3 DEF IsFirstBus
    <2>5. IsNetworkOf(networks[n], b)'
      BY <2>2, <2>3 DEF IsNetworkOf, ElementAt, Baudrate
    <2> QED
      BY <1>2, <2>2, <2>3, <2>4, <2>5
  <1>10. BusNamesUpTo(bus - 1)' = BusNamesUpTo(bus' - 1)
    BY <1>1 DEF BusNamesUpTo
  <1>11. phase' = "networks" /\ \A i \in 1 .. Len(messages') : FALSE
    BY <1>1
  <1> QED
    BY <1>1, <1>4, <1>6, <1>10, <1>11 DEF FirstBusInv

(* A message is made from the element it stands for.                        *)
LEMMA ParseMessageFirstBus ==
    ASSUME KcdInv, FirstBusInv, parseMessage
    PROVE  FirstBusInv'
  <1> DEFINE i == Len(messages) + 1
             m == doc.buses[bus].messages[i]
  <1>1. /\ phase = "networks"
        /\ UNCHANGED << doc, node_names, nodes, bus, networks >>
        /\ \/ phase' \in {"thrown", "undefined"}
           \/ phase' = "networks" /\ messages' = Append(messages, Message(m))
    BY DEF parseMessage
  <1>2. /\ messages \in Seq(Made) /\ Len(messages) \in Nat
        /\ bus <= Len(doc.buses) /\ Len(messages) < Len(doc.buses[bus].messages)
        /\ doc \in Document /\ bus \in 1 .. Len(doc.buses)
    BY DocumentParts DEF KcdInv, TypeOK, parseMessage
  <1>3. BusNamesUpTo(bus - 1)' = BusNamesUpTo(bus - 1)
    BY <1>1 DEF BusNamesUpTo
  <1>5. CASE phase' \in {"thrown", "undefined"}
    BY <1>1, <1>5, FirstBusKept DEF FirstBusInv
  <1>7. CASE phase' = "networks" /\ messages' = Append(messages, Message(m))
    <2>1. m \in MessageElements
      <3>1. /\ Len(doc.buses[bus].messages) \in Nat
            /\ \A j \in 1 .. Len(doc.buses[bus].messages) :
                  doc.buses[bus].messages[j] \in MessageElements
        BY <1>2, DocumentParts
      <3>2. i \in 1 .. Len(doc.buses[bus].messages)
        BY <1>2, <3>1
      <3> QED
        BY <3>1, <3>2
    <2>2. Message(m) \in Made
      BY <2>1 DEF Made
    <2>3. IsMadeFrom(Message(m), m)
      BY <2>1, MadeHoldsDirect
    <2> DEFINE made == Message(m)
    <2>4. made \in Made /\ IsMadeFrom(made, ElementAt(bus, i))
      BY <2>2, <2>3 DEF ElementAt
    <2> HIDE DEF made, m
    <2>5. messages' = Append(messages, made)
      BY <1>7 DEF made
    <2>6. /\ Len(messages') = i /\ messages'[i] = made
          /\ \A j \in 1 .. Len(messages) : messages'[j] = messages[j]
      BY <1>2, <2>4, <2>5, AppendProperties
    <2>7. \A j \in 1 .. i : j \in 1 .. Len(messages) \/ j = i
      BY <1>2
    <2>8. \A j \in 1 .. Len(messages') : IsMadeFrom(messages'[j], ElementAt(bus, j))
      BY <1>1, <2>4, <2>6, <2>7 DEF FirstBusInv
    <2>9. \A j \in 1 .. Len(messages') : IsMadeFrom(messages[j], ElementAt(bus, j))'
      BY <1>1, <2>8 DEF ElementAt
    <2> QED
      BY <1>1, <1>3, <1>7, <2>9, FirstBusKept DEF FirstBusInv
  <1> QED
    BY <1>1, <1>5, <1>7

(* Every step keeps what is known of the first buses.                       *)
LEMMA FirstBusStep ==
    ASSUME KcdInv, FirstBusInv, [Next]_vars
    PROVE  FirstBusInv'
  <1>0. DOMAIN Empty = {}
    BY DEF Empty
  <1>1. ASSUME NEW d \in Docs, LoadKCDFromIs(d)
        PROVE  FirstBusInv'
    BY <1>0, <1>1 DEF LoadKCDFromIs, FirstBusInv
  <1>2. CASE parseNetworkDefinition
    BY <1>2, FirstBusKept DEF parseNetworkDefinition, FirstBusInv
  <1>3. CASE parseNode
    <2>1. networks' = networks /\ DOMAIN networks = {} /\ phase' \in {"nodes", "thrown"}
      BY <1>0, <1>3 DEF KcdInv, PhaseInv, parseNode
    <2> QED
      BY <2>1 DEF FirstBusInv
  <1>5. CASE NodesParsed
    <2>1. /\ networks' = networks /\ DOMAIN networks = {} /\ phase' = "networks"
          /\ bus' = 1 /\ messages' = << >>
      BY <1>0, <1>5 DEF KcdInv, PhaseInv, NodesParsed
    <2>2. BusNamesUpTo(bus - 1)' = {}
      BY <2>1 DEF BusNamesUpTo
    <2> QED
      BY <2>1, <2>2 DEF FirstBusInv
  <1>7. CASE parseMessage
    BY <1>7, ParseMessageFirstBus
  <1>8. CASE parseNetwork
    BY <1>8, ParseNetworkFirstBus
  <1>9. CASE NetworksParsed
    <2>1. /\ phase = "networks" /\ phase' = "done"
          /\ UNCHANGED << doc, nodes, networks, bus >>
          /\ bus - 1 = Len(doc.buses)
      BY <1>9, DocumentParts DEF NetworksParsed, KcdInv, TypeOK, BusesInv
    <2>2. DOMAIN networks' = BusNamesUpTo(Len(doc.buses))
      BY <2>1 DEF FirstBusInv
    <2>3. BusNamesUpTo(Len(doc.buses))' = BusNamesUpTo(Len(doc.buses))
      BY <2>1 DEF BusNamesUpTo
    <2> QED
      BY <2>1, <2>2, <2>3, FirstBusKept DEF FirstBusInv
  <1>4. CASE UNCHANGED vars
    BY <1>4, FirstBusKept DEF vars, FirstBusInv, BusNamesUpTo, ElementAt
  <1> QED
    BY <1>1, <1>2, <1>3, <1>5, <1>7, <1>8, <1>9, <1>4 DEF Next, Parse

(* It holds in every state.                                                 *)
LEMMA FirstBusInvariance == Spec => [](KcdInv /\ FirstBusInv)
  <1>1. Init => FirstBusInv
    <2> SUFFICES ASSUME Init PROVE FirstBusInv
      OBVIOUS
    <2>1. DOMAIN Empty = {}
      BY DEF Empty
    <2>2. Len(doc.buses) = 0
      BY DEF Init, Blank
    <2>3. BusNamesUpTo(Len(doc.buses)) = {}
      BY <2>2 DEF BusNamesUpTo
    <2> QED
      BY <2>1, <2>3 DEF Init, FirstBusInv
  <1>2. KcdInv /\ FirstBusInv /\ [Next]_vars => FirstBusInv'
    BY FirstBusStep
  <1> QED
    BY Invariance, <1>1, <1>2, PTL DEF Spec

(* A network is made from the first bus of its name. *)
LEMMA NetworkOfFirstBus ==
    ASSUME KcdInv, FirstBusInv, NEW n \in DOMAIN networks
    PROVE  /\ networks[n].bit_timing = << Baudrate(FirstBus(n)), 0, 0 >>
           /\ Len(networks[n].messages) = Len(FirstBus(n).messages)
           /\ DOMAIN networks[n].messages = DOMAIN FirstBus(n).messages
           /\ \A i \in DOMAIN FirstBus(n).messages :
                 IsMadeFrom(networks[n].messages[i], FirstBus(n).messages[i])
           /\ networks[n].nodes = nodes
           /\ Len(nodes) = Len(doc.nodes)
  <1>1. doc \in Document
    BY DEF KcdInv, TypeOK
  <1>2. PICK b \in 1 .. Len(doc.buses) :
           IsFirstBus(b, n) /\ IsNetworkOf(networks[n], b)
    BY DEF FirstBusInv
  <1>3. FirstBus(n) = doc.buses[b]
    BY <1>1, <1>2, IsFirstIsFirstBus
  <1>5. networks[n].nodes = nodes /\ Len(nodes) = Len(doc.nodes)
    BY DEF KcdInv, NetworksInv, FirstBusInv
  <1>7. DOMAIN doc.buses[b].messages = 1 .. Len(doc.buses[b].messages)
    BY <1>1, DocumentParts
  <1> QED
    BY <1>2, <1>3, <1>5, <1>7 DEF IsNetworkOf, ElementAt

(* parseNetworks: for every document, each network is made from the first   *)
(* bus of its name.                                                         *)
THEOREM NetworksAreBusesAlways == Spec => []NetworksAreBuses
  <1>1. KcdInv /\ FirstBusInv => NetworksAreBuses
    <2> SUFFICES ASSUME KcdInv, FirstBusInv PROVE NetworksAreBuses
      OBVIOUS
    <2>1. doc \in Document
      BY DEF KcdInv, TypeOK
    <2>2. ASSUME NEW n \in DOMAIN networks
          PROVE  /\ networks[n].bit_timing = << Baudrate(FirstBus(n)), 0, 0 >>
                 /\ Len(networks[n].messages) = Len(FirstBus(n).messages)
                 /\ \A i \in DOMAIN FirstBus(n).messages :
                       networks[n].messages[i].id = FirstBus(n).messages[i].id
                 /\ Len(networks[n].nodes) = Len(doc.nodes)
                 /\ \A i \in DOMAIN doc.nodes :
                       networks[n].nodes[i].name = doc.nodes[i].name
      <3>1. networks[n].nodes = nodes /\ Len(nodes) = Len(doc.nodes)
        BY NetworkOfFirstBus
      <3>2. \A i \in DOMAIN doc.nodes : nodes[i].name = doc.nodes[i].name
        BY <2>1, <3>1, DocumentParts DEF KcdInv, NodesInv
      <3> QED
        BY <3>1, <3>2, NetworkOfFirstBus DEF IsMadeFrom
    <2>3. phase = "done" => DOMAIN networks = { doc.buses[b].name : b \in DOMAIN doc.buses }
      BY <2>1, DocumentParts DEF FirstBusInv, BusNamesUpTo
    <2> QED
      BY <2>2, <2>3 DEF NetworksAreBuses
  <1> QED
    BY FirstBusInvariance, <1>1, PTL

(* getMessageSize: for every document, a message of automatic length has    *)
(* the bytes of its direct signals, however many, and none more.            *)
THEOREM AutoSizeHoldsSignalsAlways == Spec => []AutoSizeHoldsSignals
  <1>1. KcdInv /\ FirstBusInv => AutoSizeHoldsSignals
    <2> SUFFICES ASSUME KcdInv, FirstBusInv, NEW n \in DOMAIN networks,
                        NEW i \in DOMAIN networks[n].messages,
                        FirstBus(n).messages[i].length = Absent
                 PROVE  HoldsDirect(networks[n].messages[i])
      BY DEF AutoSizeHoldsSignals, HoldsDirect
    <2> QED
      BY NetworkOfFirstBus DEF IsMadeFrom
  <1> QED
    BY FirstBusInvariance, <1>1, PTL

(* No attributes are made. *)
LEMMA NoAttributes == ASSUME NEW type PROVE IsAttributes(<< >>, type)
  BY SequenceEmpty DEF IsAttributes

(* The names of referred nodes are a list.                                  *)
LEMMA ReferredIs == ASSUME NEW ids, Sequence(ids) PROVE Sequence(Referred(ids))
  <1> DEFINE r == Referred(ids)
  <1>1. DOMAIN r = DOMAIN ids /\ r = [ i \in DOMAIN ids |-> r[i] ]
    BY DEF Referred
  <1> HIDE DEF r
  <1> QED
    BY <1>1, MadeOf DEF r

(* What is made of an element is a signal a DBC file can say. *)
LEMMA MadeSignal ==
    ASSUME NEW m \in MessageElements, NEW k \in DOMAIN SignalElements(m)
    PROVE  IsSignal(parseSignal(SignalElements(m)[k]))
  <1> DEFINE e == SignalElements(m)[k]
             s == parseSignal(e)
             v == parseValue(IF e.signal.value = << >> THEN NoValue ELSE Head(e.signal.value))
  <1>1. IsElement(e)
    BY DirectElements
  <1>2. /\ List(e.signal.labels) /\ Unreadable \notin ToSet(e.signal.labels)
        /\ e.signal.notes # Unreadable /\ List(e.signal.consumers)
        /\ e.signal.value # << >> => Head(e.signal.value).unit # Unreadable
    BY TextsAssumption DEF ToSet
  <1> HIDE DEF e
  <1>3. v.extended_type \in {"Integer", "Float", "Double"}
    <2> DEFINE x == IF e.signal.value = << >> THEN NoValue ELSE Head(e.signal.value)
    <2> HIDE DEF x
    <2>1. parseValue(x).extended_type \in {"Integer", "Float", "Double"}
      BY DEF parseValue
    <2> QED
      BY <2>1 DEF x
  <1>4. v.unit # Unreadable
    <2>1. parseValue(NoValue).unit = "" /\ "" # Unreadable
      BY DEF parseValue, NoValue, Unreadable
    <2>2. \A x : parseValue(x).unit = x.unit
      BY DEF parseValue
    <2> QED
      BY <1>2, <2>1, <2>2
  <1> HIDE DEF v
  <1>5. /\ s = [ name |-> s.name, multiplexer |-> s.multiplexer,
                 switch_value |-> s.switch_value, head |-> s.head, unit |-> s.unit,
                 receivers |-> s.receivers, attributes |-> s.attributes,
                 descriptions |-> s.descriptions, comment |-> s.comment,
                 extended_type |-> s.extended_type,
                 multiplexer_values |-> s.multiplexer_values ]
        /\ s.multiplexer = e.multiplexer /\ s.switch_value = e.switch_value
        /\ s.attributes = << >> /\ s.multiplexer_values = << >>
        /\ s.descriptions = e.signal.labels /\ s.comment = e.signal.notes
        /\ s.extended_type = v.extended_type /\ s.unit = v.unit
        /\ s.receivers = Referred(e.signal.consumers)
    BY DEF parseSignal, v
  <1> HIDE DEF s
  <1>6. Sequence(s.receivers)
    <2>1. Sequence(e.signal.consumers)
      BY <1>2, ListIs
    <2> QED
      BY <1>5, <2>1, ReferredIs
  <1>7. IsTexts(s.descriptions)
    BY <1>2, <1>5, ListIs DEF IsTexts
  <1>8. /\ IsAttributes(s.attributes, "signal")
        /\ Sequence(s.multiplexer_values) /\ DOMAIN s.multiplexer_values = {}
    BY <1>5, NoAttributes, SequenceEmpty
  <1>9. IsSignal(s)
    BY <1>1, <1>2, <1>3, <1>5, <1>7, <1>8, <1>4, <1>6 DEF IsSignal, IsElement
  <1> QED
    BY <1>9 DEF s, e

(* So is what is made of a message. *)
LEMMA MadeMessage ==
    ASSUME NEW m \in MessageElements
    PROVE  IsMessage(Message(m))
  <1> DEFINE made == Message(m)
             elements == SignalElements(m)
             signals == [ i \in DOMAIN elements |-> parseSignal(elements[i]) ]
  <1>1. /\ made = [ id |-> made.id, name |-> made.name,
                    transmitter |-> made.transmitter, size |-> made.size,
                    signals |-> made.signals, transmitters |-> made.transmitters,
                    attributes |-> made.attributes, comment |-> made.comment,
                    signal_groups |-> made.signal_groups ]
        /\ made.signals = signals /\ made.comment = m.text
        /\ made.transmitters = Referred(m.producers)
        /\ made.attributes = << >> /\ made.signal_groups = << >>
    BY DEF Message
  <1>2. m.text # Unreadable
    BY TextsAssumption
  <1>3. Sequence(elements)
    BY DirectElements
  <1>4. \A i \in DOMAIN elements : signals[i] = parseSignal(elements[i]) /\ IsSignal(signals[i])
    BY MadeSignal
  <1>5. DOMAIN signals = DOMAIN elements /\ signals = [ i \in DOMAIN elements |-> signals[i] ]
    OBVIOUS
  <1> HIDE DEF made, signals, elements
  <1>6. Sequence(signals)
    BY <1>3, <1>5, MadeOf
  <1>7. IsAttributes(made.attributes, "message") /\ Sequence(made.signal_groups)
    BY <1>1, NoAttributes, SequenceEmpty
  <1>8. Sequence(made.transmitters)
    <2>1. Sequence(m.producers)
      BY DocsAssumption, SequenceIs
    <2> QED
      BY <1>1, <2>1, ReferredIs
  <1>9. IsMessage(made)
    BY <1>1, <1>2, <1>4, <1>5, <1>6, <1>7, <1>8 DEF IsMessage
  <1> QED
    BY <1>9 DEF made

(* So is what is made of a node.                                            *)
LEMMA NodeIs == ASSUME NEW n \in NodeRecord PROVE IsNode(n)
  <1>1. /\ n = [ name |-> n.name, comment |-> n.comment, attributes |-> n.attributes ]
        /\ n.comment = "" /\ n.attributes = << >>
    BY DEF NodeRecord
  <1>2. "" # Unreadable
    BY DEF Unreadable
  <1> QED
    BY <1>1, <1>2, NoAttributes DEF IsNode

(* The networks of a KCD file are such as a DBC file can say. *)
KcdNetworksInv == \A n \in DOMAIN networks : IsNetwork(networks[n])

(* The network made of a bus is one.                                        *)
LEMMA MadeNetwork ==
    ASSUME KcdInv, phase = "networks", bus <= Len(doc.buses)
    PROVE  IsNetwork(Network)
  <1> DEFINE b == doc.buses[bus]
  <1>1. doc \in Document /\ bus \in 1 .. Len(doc.buses)
    BY DocumentParts DEF KcdInv, TypeOK
  <1>2. b \in BusElement
    BY <1>1 DEF Document
  <1>3. Baudrate(b) \in Nat
    BY <1>2 DEF BusElement, Baudrate
  <1> DEFINE rate == Baudrate(b)
  <1> HIDE DEF b, rate
  <1>4. << rate, 0, 0 >> \in [ 1 .. 3 -> Nat ]
    BY <1>3 DEF rate
  <1>5. /\ Sequence(nodes) /\ \A i \in DOMAIN nodes : IsNode(nodes[i])
    <2>1. nodes \in Seq(NodeRecord)
      BY DEF KcdInv, TypeOK
    <2>2. \A i \in DOMAIN nodes : nodes[i] \in NodeRecord
      BY <2>1
    <2> QED
      BY <2>1, <2>2, SequenceIs, NodeIs
  <1>6. /\ Sequence(messages) /\ \A i \in DOMAIN messages : IsMessage(messages[i])
    <2>1. messages \in Seq(Made)
      BY DEF KcdInv, TypeOK
    <2>2. \A i \in DOMAIN messages : messages[i] \in Made
      BY <2>1
    <2>3. \A x \in Made : IsMessage(x)
      BY MadeMessage DEF Made
    <2> QED
      BY <2>1, <2>2, <2>3, SequenceIs
  <1> DEFINE made == Network
  <1>7. /\ made = [ version |-> made.version, new_symbols |-> made.new_symbols,
                    bit_timing |-> made.bit_timing, nodes |-> made.nodes,
                    value_tables |-> made.value_tables, messages |-> made.messages,
                    environment_variables |-> made.environment_variables,
                    attribute_definitions |-> made.attribute_definitions,
                    attribute_defaults |-> made.attribute_defaults,
                    attribute_values |-> made.attribute_values, comment |-> made.comment ]
        /\ made.version = "" /\ made.comment = ""
        /\ made.bit_timing = << rate, 0, 0 >>
        /\ made.nodes = nodes /\ made.messages = messages
        /\ made.value_tables = << >> /\ made.environment_variables = << >>
        /\ made.attribute_definitions = << >> /\ made.attribute_defaults = << >>
        /\ made.attribute_values = << >>
    BY DEF Network, rate, b
  <1> HIDE DEF made
  <1>8. "" # Unreadable
    BY DEF Unreadable
  <1>9. IsNetwork(made)
    <2>1. IsAttributes(<< >>, "network")
      BY NoAttributes
    <2> QED
      BY <1>4, <1>5, <1>6, <1>7, <1>8, <2>1, SequenceEmpty DEF IsNetwork
  <1> QED
    BY <1>9 DEF made

(* Only parseNetwork changes the networks.                                  *)
LEMMA KcdNetworksStep ==
    ASSUME KcdInv, KcdNetworksInv, [Next]_vars
    PROVE  KcdNetworksInv'
  <1>1. DOMAIN Empty = {}
    BY DEF Empty
  <1>2. ASSUME NEW d \in Docs, LoadKCDFromIs(d)
        PROVE  KcdNetworksInv'
    BY <1>1, <1>2 DEF LoadKCDFromIs, KcdNetworksInv
  <1>3. CASE parseNetwork
    <2>1. IsNetwork(Network)
      BY <1>3, MadeNetwork DEF parseNetwork
    <2>2. \A n \in DOMAIN networks' :
              (networks'[n] = networks[n] /\ n \in DOMAIN networks) \/ networks'[n] = Network
      BY <1>3 DEF parseNetwork
    <2> QED
      BY <2>1, <2>2 DEF KcdNetworksInv
  <1>4. CASE UNCHANGED networks
    BY <1>4 DEF KcdNetworksInv
  <1>5. parseNetworkDefinition \/ parseNode \/ NodesParsed \/ parseMessage \/ NetworksParsed
            \/ UNCHANGED vars => UNCHANGED networks
    BY DEF parseNetworkDefinition, parseNode, NodesParsed, parseMessage, NetworksParsed, vars
  <1> QED
    BY <1>2, <1>3, <1>4, <1>5 DEF Next, Parse

(* They are such in every state.                                            *)
LEMMA KcdNetworks == Spec => []KcdNetworksInv
  <1>1. Init => KcdNetworksInv
    <2>1. DOMAIN Empty = {}
      BY DEF Empty
    <2> QED
      BY <2>1 DEF Init, KcdNetworksInv
  <1>2. KcdInv /\ KcdNetworksInv /\ [Next]_vars => KcdNetworksInv'
    BY KcdNetworksStep
  <1> QED
    BY Invariance, <1>1, <1>2, PTL DEF Spec

(* The fold over the first names: each network is merged into what the      *)
(* earlier ones were merged into.                                           *)
Folded(iter, base, f, names, n) ==
    iter = [ S \in SUBSET (1 .. n) |->
               IF S = {} THEN base
               ELSE Merge(iter[S \ {Max(S)}], f[names[Max(S)]]) ]

(* The greatest of some of the first indices.                               *)
LEMMA MaxIs ==
    ASSUME NEW n \in Nat, NEW S \in SUBSET (1 .. n), S # {}
    PROVE  Max(S) \in S /\ \A y \in S : Max(S) >= y
  <1>1. S \in SUBSET Nat /\ \A x \in S : x <= n
    OBVIOUS
  <1>2. \E x \in S : \A y \in S : x >= y
    BY <1>1, GreatestNumber
  <1> QED
    BY <1>2 DEF Max

(* There is such a fold: that over one name more extends it.                *)
LEMMA FoldedExists ==
    ASSUME NEW base, NEW f, NEW names, NEW n \in Nat
    PROVE  \E iter : Folded(iter, base, f, names, n)
  <1> DEFINE T == { k \in Nat : ~ \E iter : Folded(iter, base, f, names, k) }
  <1>1. ASSUME T # {} PROVE FALSE
    <2>1. PICK k \in T : \A y \in T : k <= y
      BY <1>1, LeastNumber
    <2>2. k \in Nat /\ ~ \E iter : Folded(iter, base, f, names, k)
      OBVIOUS
    <2>3. k # 0
      <3> DEFINE one == [ S \in SUBSET (1 .. 0) |-> base ]
      <3>1. \A S \in SUBSET (1 .. 0) : S = {}
        OBVIOUS
      <3>2. one = [ S \in SUBSET (1 .. 0) |->
                      IF S = {} THEN base
                      ELSE Merge(one[S \ {Max(S)}], f[names[Max(S)]]) ]
        BY <3>1
      <3> HIDE DEF one
      <3>3. Folded(one, base, f, names, 0)
        BY <3>2 DEF Folded
      <3> QED
        BY <2>2, <3>3
    <2>4. k - 1 \in Nat /\ ~ (k - 1 \in T)
      BY <2>1, <2>2, <2>3
    <2>5. PICK g : Folded(g, base, f, names, k - 1)
      BY <2>4
    <2> DEFINE iter == [ S \in SUBSET (1 .. k) |->
                           IF k \notin S THEN g[S] ELSE Merge(g[S \ {k}], f[names[k]]) ]
    <2>6. ASSUME NEW S \in SUBSET (1 .. k), k \notin S
          PROVE  /\ S \in SUBSET (1 .. k - 1) /\ iter[S] = g[S]
      <3>1. S \in SUBSET (1 .. k - 1)
        BY <2>2, <2>6
      <3> QED
        BY <2>6, <3>1
    <2>7. ASSUME NEW S \in SUBSET (1 .. k)
          PROVE  iter[S] = IF S = {} THEN base
                           ELSE Merge(iter[S \ {Max(S)}], f[names[Max(S)]])
      <3>1. CASE k \notin S
        <4>1. S \in SUBSET (1 .. k - 1) /\ iter[S] = g[S]
          BY <2>6, <3>1
        <4>2. g[S] = IF S = {} THEN base ELSE Merge(g[S \ {Max(S)}], f[names[Max(S)]])
          BY <2>5, <4>1 DEF Folded
        <4>3. k \notin S \ {Max(S)} /\ S \ {Max(S)} \in SUBSET (1 .. k)
          BY <3>1
        <4>4. iter[S \ {Max(S)}] = g[S \ {Max(S)}]
          BY <2>6, <4>3
        <4> HIDE DEF iter
        <4> QED
          BY <4>1, <4>2, <4>4
      <3>2. CASE k \in S
        <4>1. Max(S) \in S /\ Max(S) >= k
          BY <2>2, <3>2, MaxIs
        <4>2. Max(S) = k
          <5>1. Max(S) \in 1 .. k
            BY <4>1
          <5> QED
            BY <2>2, <4>1, <5>1
        <4>3. iter[S] = Merge(g[S \ {k}], f[names[k]])
          <5>1. iter[S] = IF k \notin S THEN g[S] ELSE Merge(g[S \ {k}], f[names[k]])
            BY Zenon
          <5> HIDE DEF iter
          <5> QED
            BY <3>2, <5>1
        <4>4. iter[S \ {k}] = g[S \ {k}]
          <5> DEFINE R == S \ {k}
          <5>1. R \in SUBSET (1 .. k) /\ k \notin R
            OBVIOUS
          <5> HIDE DEF iter, R
          <5>2. iter[R] = g[R]
            BY <2>6, <5>1
          <5> QED
            BY <5>2 DEF R
        <4> HIDE DEF iter
        <4> QED
          BY <3>2, <4>2, <4>3, <4>4
      <3> QED
        BY <3>1, <3>2
    <2>8. iter = [ S \in SUBSET (1 .. k) |-> iter[S] ]
      OBVIOUS
    <2> HIDE DEF iter
    <2>9. iter = [ S \in SUBSET (1 .. k) |->
                     IF S = {} THEN base
                     ELSE Merge(iter[S \ {Max(S)}], f[names[Max(S)]]) ]
      BY <2>7, <2>8
    <2>10. Folded(iter, base, f, names, k)
      BY <2>9 DEF Folded
    <2> QED
      BY <2>2, <2>10
  <1> QED
    BY <1>1

MergedAll(base, f, names) ==
    FoldLeft(LAMBDA merged, name : Merge(merged, f[name]), base, names)

(* The loop over the names is that fold, over all of them.                  *)
LEMMA MergedAllIs ==
    ASSUME NEW base, NEW f, NEW names, Sequence(names)
    PROVE  \E iter : /\ Folded(iter, base, f, names, Len(names))
                     /\ MergedAll(base, f, names) = iter[1 .. Len(names)]
  <1>1. Len(names) \in Nat /\ DOMAIN names = 1 .. Len(names)
    BY SequenceDomain
  <1> DEFINE iter == CHOOSE g : Folded(g, base, f, names, Len(names))
  <1>2. Folded(iter, base, f, names, Len(names))
    BY <1>1, FoldedExists
  <1>3. MergedAll(base, f, names) = iter[1 .. Len(names)]
    BY <1>1 DEF MergedAll, FoldLeft, MapThenFoldSet, Folded
  <1> QED
    BY <1>2, <1>3

-----------------------------------------------------------------------------
(* What ConvertsEveryFile looks at: the ids of the messages and the names   *)
(* of the nodes, in their order.                                            *)
IdsOf(list)       == [ i \in DOMAIN list |-> list[i].id ]
NamesIn(list)     == [ i \in DOMAIN list |-> list[i].name ]
AllIds(lists)     == [ i \in DOMAIN lists |-> lists[i].ids ]
AllNodes(lists)   == [ i \in DOMAIN lists |-> lists[i].nodes ]

(* These lists of two parts are those of the one and then of the other.     *)
LEMMA MappedConcat ==
    ASSUME NEW s, Sequence(s), NEW t, Sequence(t)
    PROVE  /\ IdsOf(s \o t) = IdsOf(s) \o IdsOf(t)
           /\ NamesIn(s \o t) = NamesIn(s) \o NamesIn(t)
           /\ AllIds(s \o t) = AllIds(s) \o AllIds(t)
           /\ AllNodes(s \o t) = AllNodes(s) \o AllNodes(t)
  <1> DEFINE u == s \o t
             E == ToSet(s \o t)
  <1>1. ASSUME NEW g
        PROVE  [ i \in DOMAIN u |-> g[u[i]] ]
                 = [ i \in DOMAIN s |-> g[s[i]] ] \o [ i \in DOMAIN t |-> g[t[i]] ]
    <2> DEFINE a == [ i \in DOMAIN s |-> g[s[i]] ]
               b == [ i \in DOMAIN t |-> g[t[i]] ]
               c == [ i \in DOMAIN u |-> g[u[i]] ]
    <2>1. /\ DOMAIN a = DOMAIN s /\ a = [ i \in DOMAIN s |-> a[i] ]
          /\ DOMAIN b = DOMAIN t /\ b = [ i \in DOMAIN t |-> b[i] ]
          /\ DOMAIN c = DOMAIN u /\ c = [ i \in DOMAIN u |-> c[i] ]
          /\ \A i \in DOMAIN a : a[i] = g[s[i]]
          /\ \A i \in DOMAIN b : b[i] = g[t[i]]
          /\ \A i \in DOMAIN c : c[i] = g[u[i]]
      OBVIOUS
    <2> HIDE DEF a, b, c
    <2>2. Sequence(u)
      BY SequenceConcat
    <2>3. /\ Sequence(a) /\ Len(a) = Len(s) /\ Sequence(b) /\ Len(b) = Len(t) /\ Sequence(c)
      <3> HIDE DEF u
      <3> QED
        BY <2>1, <2>2, MadeOf
    <2>4. /\ DOMAIN u = 1 .. Len(s) + Len(t)
          /\ \A i \in DOMAIN s : u[i] = s[i]
          /\ \A i \in DOMAIN u \ DOMAIN s : i - Len(s) \in DOMAIN t /\ u[i] = t[i - Len(s)]
      BY SequenceConcat
    <2> HIDE DEF u
    <2> DEFINE d == a \o b
    <2>5. /\ Sequence(d) /\ DOMAIN d = 1 .. Len(a) + Len(b)
          /\ \A i \in DOMAIN a : d[i] = a[i]
          /\ \A i \in DOMAIN d \ DOMAIN a : i - Len(a) \in DOMAIN b /\ d[i] = b[i - Len(a)]
      BY <2>3, SequenceConcat
    <2> HIDE DEF d
    <2>6. ASSUME NEW i \in DOMAIN c PROVE c[i] = d[i]
      <3>1. CASE i \in DOMAIN s
        BY <2>1, <2>4, <2>5, <3>1
      <3>2. CASE i \notin DOMAIN s
        <4>1. i \in DOMAIN u \ DOMAIN s /\ i \in DOMAIN d \ DOMAIN a
          BY <2>1, <2>3, <2>4, <2>5, <3>2
        <4> DEFINE j == i - Len(s)
        <4>2. j \in DOMAIN t /\ u[i] = t[j] /\ d[i] = b[j]
          BY <2>3, <2>4, <2>5, <4>1
        <4> HIDE DEF j
        <4> QED
          BY <2>1, <4>2
      <3> QED
        BY <3>1, <3>2
    <2>7. DOMAIN c = DOMAIN d
      BY <2>1, <2>3, <2>4, <2>5
    <2>8. c = d
      BY <2>3, <2>5, <2>6, <2>7, SequenceEqual
    <2> QED
      BY <2>8 DEF a, b, c, d
  <1>2. /\ \A i \in DOMAIN u : u[i] \in E
        /\ \A i \in DOMAIN s : s[i] \in E
        /\ \A i \in DOMAIN t : t[i] \in E
    <2>1. E = ToSet(s) \cup ToSet(t)
      BY ConcatToSet
    <2> QED
      BY <2>1 DEF ToSet
  <1> HIDE DEF u, E
  <1>3. IdsOf(u) = IdsOf(s) \o IdsOf(t)
    <2> DEFINE g == [ x \in E |-> x.id ]
    <2>1. /\ IdsOf(u) = [ i \in DOMAIN u |-> g[u[i]] ]
          /\ IdsOf(s) = [ i \in DOMAIN s |-> g[s[i]] ]
          /\ IdsOf(t) = [ i \in DOMAIN t |-> g[t[i]] ]
      BY <1>2 DEF IdsOf
    <2> HIDE DEF g
    <2>2. [ i \in DOMAIN u |-> g[u[i]] ]
            = [ i \in DOMAIN s |-> g[s[i]] ] \o [ i \in DOMAIN t |-> g[t[i]] ]
      BY <1>1
    <2> QED
      BY <2>1, <2>2
  <1>4. NamesIn(u) = NamesIn(s) \o NamesIn(t)
    <2> DEFINE g == [ x \in E |-> x.name ]
    <2>1. /\ NamesIn(u) = [ i \in DOMAIN u |-> g[u[i]] ]
          /\ NamesIn(s) = [ i \in DOMAIN s |-> g[s[i]] ]
          /\ NamesIn(t) = [ i \in DOMAIN t |-> g[t[i]] ]
      BY <1>2 DEF NamesIn
    <2> HIDE DEF g
    <2>2. [ i \in DOMAIN u |-> g[u[i]] ]
            = [ i \in DOMAIN s |-> g[s[i]] ] \o [ i \in DOMAIN t |-> g[t[i]] ]
      BY <1>1
    <2> QED
      BY <2>1, <2>2
  <1>5. AllIds(u) = AllIds(s) \o AllIds(t)
    <2> DEFINE g == [ x \in E |-> x.ids ]
    <2>1. /\ AllIds(u) = [ i \in DOMAIN u |-> g[u[i]] ]
          /\ AllIds(s) = [ i \in DOMAIN s |-> g[s[i]] ]
          /\ AllIds(t) = [ i \in DOMAIN t |-> g[t[i]] ]
      BY <1>2 DEF AllIds
    <2> HIDE DEF g
    <2>2. [ i \in DOMAIN u |-> g[u[i]] ]
            = [ i \in DOMAIN s |-> g[s[i]] ] \o [ i \in DOMAIN t |-> g[t[i]] ]
      BY <1>1
    <2> QED
      BY <2>1, <2>2
  <1>6. AllNodes(u) = AllNodes(s) \o AllNodes(t)
    <2> DEFINE g == [ x \in E |-> x.nodes ]
    <2>1. /\ AllNodes(u) = [ i \in DOMAIN u |-> g[u[i]] ]
          /\ AllNodes(s) = [ i \in DOMAIN s |-> g[s[i]] ]
          /\ AllNodes(t) = [ i \in DOMAIN t |-> g[t[i]] ]
      BY <1>2 DEF AllNodes
    <2> HIDE DEF g
    <2>2. [ i \in DOMAIN u |-> g[u[i]] ]
            = [ i \in DOMAIN s |-> g[s[i]] ] \o [ i \in DOMAIN t |-> g[t[i]] ]
      BY <1>1
    <2> QED
      BY <2>1, <2>2
  <1> QED
    BY <1>3, <1>4, <1>5, <1>6 DEF u

(* They are sequences.                                                      *)
LEMMA MappedIs ==
    ASSUME NEW s, Sequence(s)
    PROVE  /\ Sequence(IdsOf(s)) /\ Sequence(NamesIn(s))
           /\ Sequence(AllIds(s)) /\ Sequence(AllNodes(s))
  <1>1. DOMAIN IdsOf(s) = DOMAIN s /\ IdsOf(s) = [ i \in DOMAIN s |-> IdsOf(s)[i] ]
    BY DEF IdsOf
  <1>2. DOMAIN NamesIn(s) = DOMAIN s /\ NamesIn(s) = [ i \in DOMAIN s |-> NamesIn(s)[i] ]
    BY DEF NamesIn
  <1>3. DOMAIN AllIds(s) = DOMAIN s /\ AllIds(s) = [ i \in DOMAIN s |-> AllIds(s)[i] ]
    BY DEF AllIds
  <1>4. DOMAIN AllNodes(s) = DOMAIN s /\ AllNodes(s) = [ i \in DOMAIN s |-> AllNodes(s)[i] ]
    BY DEF AllNodes
  <1> QED
    BY <1>1, <1>2, <1>3, <1>4, MadeOf

(* The parts of a command line's networks are lists. *)
AreLists(lists) ==
    /\ Sequence(lists)
    /\ \A i \in DOMAIN lists : Sequence(lists[i].ids) /\ Sequence(lists[i].nodes)

(* A network that has the messages and nodes of these lists.                *)
HasAll(made, lists) ==
    /\ IdsOf(made.messages) = FlattenSeq(AllIds(lists))
    /\ NamesIn(made.nodes) = FlattenSeq(AllNodes(lists))

(* The ids and the names of such lists, network by network.                 *)
LEMMA AllSequences ==
    ASSUME NEW lists, AreLists(lists)
    PROVE  Sequences(AllIds(lists)) /\ Sequences(AllNodes(lists))
  <1>1. Sequence(AllIds(lists)) /\ Sequence(AllNodes(lists))
    BY MappedIs DEF AreLists
  <1>2. /\ DOMAIN AllIds(lists) = DOMAIN lists /\ DOMAIN AllNodes(lists) = DOMAIN lists
        /\ \A i \in DOMAIN lists :
              AllIds(lists)[i] = lists[i].ids /\ AllNodes(lists)[i] = lists[i].nodes
    BY DEF AllIds, AllNodes
  <1> QED
    BY <1>1, <1>2 DEF AreLists, Sequences

(* Such lists put one after the other are such lists.                       *)
LEMMA AreListsConcat ==
    ASSUME NEW a, AreLists(a), NEW b, AreLists(b)
    PROVE  AreLists(a \o b)
  <1> DEFINE u == a \o b
  <1>1. Sequence(u) /\ ToSet(u) = ToSet(a) \cup ToSet(b)
    BY SequenceConcat, ConcatToSet DEF AreLists
  <1> HIDE DEF u
  <1>2. /\ \A x \in ToSet(a) : Sequence(x.ids) /\ Sequence(x.nodes)
        /\ \A x \in ToSet(b) : Sequence(x.ids) /\ Sequence(x.nodes)
    BY DEF AreLists, ToSet
  <1>3. \A i \in DOMAIN u : u[i] \in ToSet(u)
    BY DEF ToSet
  <1>4. AreLists(u)
    BY <1>1, <1>2, <1>3 DEF AreLists
  <1> QED
    BY <1>4 DEF u

(* A network to which the messages and nodes of more lists were appended    *)
(* has all.                                                                 *)
LEMMA HasMore ==
    ASSUME NEW made, NEW a, AreLists(a), HasAll(made, a), NEW b, AreLists(b), NEW more,
           IdsOf(more.messages) = IdsOf(made.messages) \o FlattenSeq(AllIds(b)),
           NamesIn(more.nodes) = NamesIn(made.nodes) \o FlattenSeq(AllNodes(b))
    PROVE  HasAll(more, a \o b)
  <1>1. AllIds(a \o b) = AllIds(a) \o AllIds(b) /\ AllNodes(a \o b) = AllNodes(a) \o AllNodes(b)
    BY MappedConcat DEF AreLists
  <1>2. FlattenSeq(AllIds(a) \o AllIds(b)) = FlattenSeq(AllIds(a)) \o FlattenSeq(AllIds(b))
    BY AllSequences, FlattenConcat
  <1>3. FlattenSeq(AllNodes(a) \o AllNodes(b)) = FlattenSeq(AllNodes(a)) \o FlattenSeq(AllNodes(b))
    BY AllSequences, FlattenConcat
  <1> QED
    BY <1>1, <1>2, <1>3 DEF HasAll

(* Merging one network appends its lists. *)
LEMMA MergeAppends ==
    ASSUME NEW self, IsNetwork(self), NEW other, IsNetwork(other)
    PROVE  /\ IsNetwork(Merge(self, other))
           /\ IdsOf(Merge(self, other).messages) = IdsOf(self.messages) \o IdsOf(other.messages)
           /\ NamesIn(Merge(self, other).nodes) = NamesIn(self.nodes) \o NamesIn(other.nodes)
  <1>1. /\ IsNetwork(Merge(self, other))
        /\ Merge(self, other).messages = self.messages \o other.messages
        /\ Merge(self, other).nodes = self.nodes \o other.nodes
    BY MergeIs
  <1>2. /\ Sequence(self.messages) /\ Sequence(other.messages)
        /\ Sequence(self.nodes) /\ Sequence(other.nodes)
    BY DEF IsNetwork
  <1>3. IdsOf(self.messages \o other.messages) = IdsOf(self.messages) \o IdsOf(other.messages)
    BY <1>2, MappedConcat
  <1>4. NamesIn(self.nodes \o other.nodes) = NamesIn(self.nodes) \o NamesIn(other.nodes)
    BY <1>2, MappedConcat
  <1> QED
    BY <1>1, <1>3, <1>4

(* Merging several appends the lists of all of them. *)
LEMMA MergedAllAppends ==
    ASSUME NEW base, IsNetwork(base), NEW f, NEW names, Sequence(names),
           \A i \in DOMAIN names : IsNetwork(f[names[i]]),
           NEW lists, AreLists(lists), DOMAIN lists = DOMAIN names,
           \A i \in DOMAIN names :
              /\ lists[i].ids = IdsOf(f[names[i]].messages)
              /\ lists[i].nodes = NamesIn(f[names[i]].nodes)
    PROVE  /\ IsNetwork(MergedAll(base, f, names))
           /\ IdsOf(MergedAll(base, f, names).messages)
                = IdsOf(base.messages) \o FlattenSeq(AllIds(lists))
           /\ NamesIn(MergedAll(base, f, names).nodes)
                = NamesIn(base.nodes) \o FlattenSeq(AllNodes(lists))
  <1> DEFINE n == Len(names)
             ids == AllIds(lists)
             nods == AllNodes(lists)
  <1>1. PICK iter : /\ Folded(iter, base, f, names, n)
                    /\ MergedAll(base, f, names) = iter[1 .. n]
    BY MergedAllIs
  <1>2. n \in Nat /\ DOMAIN names = 1 .. n
    BY SequenceDomain
  <1>3. /\ Sequences(ids) /\ Sequences(nods) /\ Len(ids) = n /\ Len(nods) = n
        /\ DOMAIN ids = 1 .. n /\ DOMAIN nods = 1 .. n
        /\ \A i \in 1 .. n : ids[i] = lists[i].ids /\ nods[i] = lists[i].nodes
    <2>1. Sequences(ids) /\ Sequences(nods)
      BY AllSequences
    <2>2. /\ DOMAIN ids = 1 .. n /\ DOMAIN nods = 1 .. n
          /\ \A i \in 1 .. n : ids[i] = lists[i].ids /\ nods[i] = lists[i].nodes
      BY <1>2 DEF AllIds, AllNodes
    <2> HIDE DEF ids, nods, n
    <2>3. Len(ids) \in Nat /\ Len(nods) \in Nat /\ 1 .. Len(ids) = 1 .. n /\ 1 .. Len(nods) = 1 .. n
      BY <2>1, <2>2, SequenceDomain DEF Sequences
    <2> QED
      BY <1>2, <2>1, <2>2, <2>3
  <1> DEFINE P(k) ==
        /\ IsNetwork(iter[1 .. k])
        /\ IdsOf(iter[1 .. k].messages) = IdsOf(base.messages) \o FlattenSeq(Prefix(ids, k))
        /\ NamesIn(iter[1 .. k].nodes) = NamesIn(base.nodes) \o FlattenSeq(Prefix(nods, k))
      T == { k \in 0 .. n : ~ P(k) }
  <1> HIDE DEF ids, nods, n
  <1>4. P(0)
    <2>1. 1 .. 0 = {} /\ {} \in SUBSET (1 .. n)
      OBVIOUS
    <2>2. iter[1 .. 0] = base
      <3>1. iter[{}] = base
        BY <1>1, <2>1 DEF Folded
      <3> QED
        BY <2>1, <3>1
    <2>3. /\ Sequence(IdsOf(base.messages)) /\ Sequence(NamesIn(base.nodes))
      BY MappedIs DEF IsNetwork
    <2>4. /\ FlattenSeq(Prefix(ids, 0)) = << >> /\ FlattenSeq(Prefix(nods, 0)) = << >>
      BY PrefixNone
    <2> DEFINE a == IdsOf(base.messages)  b == NamesIn(base.nodes)
    <2> HIDE DEF a, b
    <2>5. a \o << >> = a /\ b \o << >> = b
      BY <2>3, ConcatEmpty DEF a, b
    <2> QED
      BY <2>2, <2>4, <2>5 DEF a, b
  <1>5. ASSUME NEW k \in 1 .. n, P(k - 1)
        PROVE  P(k)
    <2> DEFINE S == 1 .. k
               before == iter[1 .. k - 1]
               one == f[names[k]]
    <2>1. S \in SUBSET (1 .. n) /\ S # {} /\ k \in S
      BY <1>2
    <2>2. Max(S) = k
      <3>1. Max(S) \in S /\ \A y \in S : Max(S) >= y
        <4> HIDE DEF S
        <4> QED
          BY <1>2, <2>1, MaxIs
      <3>2. Max(S) \in 1 .. k /\ Max(S) >= k
        BY <2>1, <3>1
      <3> DEFINE x == Max(S)
      <3> HIDE DEF x
      <3>3. x \in 1 .. k /\ x >= k
        BY <3>2 DEF x
      <3>4. x = k
        BY <3>3, <1>2
      <3> QED
        BY <3>4 DEF x
    <2>3. S \ {k} = 1 .. k - 1
      BY <1>2
    <2>4. iter[S] = Merge(before, one)
      <3>1. iter[S] = Merge(iter[S \ {Max(S)}], f[names[Max(S)]])
        <4> HIDE DEF S
        <4> QED
          BY <1>1, <2>1 DEF Folded
      <3> QED
        BY <2>2, <2>3, <3>1
    <2>5. IsNetwork(before) /\ IsNetwork(one)
      BY <1>2, <1>5
    <2>6. /\ Sequence(ids[k]) /\ Sequence(nods[k])
          /\ ids[k] = IdsOf(one.messages) /\ nods[k] = NamesIn(one.nodes)
      BY <1>2, <1>3 DEF Sequences
    <2>7. /\ FlattenSeq(Prefix(ids, k)) = FlattenSeq(Prefix(ids, k - 1)) \o ids[k]
          /\ FlattenSeq(Prefix(nods, k)) = FlattenSeq(Prefix(nods, k - 1)) \o nods[k]
      <3>1. k \in Nat \ {0}
        BY <1>2
      <3> QED
        BY <2>6, <3>1, FlattenPrefix
    <2>8. /\ Sequence(FlattenSeq(Prefix(ids, k - 1))) /\ Sequence(FlattenSeq(Prefix(nods, k - 1)))
      <3>1. k - 1 \in 0 .. Len(ids) /\ k - 1 \in 0 .. Len(nods)
        BY <1>2, <1>3
      <3> QED
        BY <1>3, <3>1, FlattenLists
    <2>9. /\ Sequence(IdsOf(base.messages)) /\ Sequence(NamesIn(base.nodes))
      BY MappedIs DEF IsNetwork
    <2> DEFINE after == iter[S]
    <2>10. /\ IsNetwork(after)
           /\ IdsOf(after.messages) = IdsOf(before.messages) \o IdsOf(one.messages)
           /\ NamesIn(after.nodes) = NamesIn(before.nodes) \o NamesIn(one.nodes)
      <3> HIDE DEF before, one, S
      <3> QED
        BY <2>4, <2>5, MergeAppends
    <2>11. /\ IdsOf(before.messages) = IdsOf(base.messages) \o FlattenSeq(Prefix(ids, k - 1))
           /\ NamesIn(before.nodes) = NamesIn(base.nodes) \o FlattenSeq(Prefix(nods, k - 1))
      BY <1>5
    <2> HIDE DEF before, one, after
    <2>12. IdsOf(after.messages) = IdsOf(base.messages) \o FlattenSeq(Prefix(ids, k))
      <3> DEFINE a == IdsOf(base.messages)  b == FlattenSeq(Prefix(ids, k - 1))  c == ids[k]
      <3>1. Sequence(a) /\ Sequence(b) /\ Sequence(c)
        BY <2>6, <2>8, <2>9
      <3>2. IdsOf(after.messages) = (a \o b) \o c
        BY <2>6, <2>10, <2>11
      <3>3. FlattenSeq(Prefix(ids, k)) = b \o c
        BY <2>7
      <3> HIDE DEF a, b, c
      <3>4. a \o (b \o c) = (a \o b) \o c
        <4>1. Associates(a, b, c)
          BY <3>1, SequenceAssociative
        <4> QED
          BY <4>1, Zenon DEF Associates
      <3> QED
        BY <3>2, <3>3, <3>4 DEF a
    <2>13. NamesIn(after.nodes) = NamesIn(base.nodes) \o FlattenSeq(Prefix(nods, k))
      <3> DEFINE a == NamesIn(base.nodes)  b == FlattenSeq(Prefix(nods, k - 1))  c == nods[k]
      <3>1. Sequence(a) /\ Sequence(b) /\ Sequence(c)
        BY <2>6, <2>8, <2>9
      <3>2. NamesIn(after.nodes) = (a \o b) \o c
        BY <2>6, <2>10, <2>11
      <3>3. FlattenSeq(Prefix(nods, k)) = b \o c
        BY <2>7
      <3> HIDE DEF a, b, c
      <3>4. a \o (b \o c) = (a \o b) \o c
        <4>1. Associates(a, b, c)
          BY <3>1, SequenceAssociative
        <4> QED
          BY <4>1, Zenon DEF Associates
      <3> QED
        BY <3>2, <3>3, <3>4 DEF a
    <2> QED
      BY <2>10, <2>12, <2>13 DEF after
  <1> HIDE DEF P
  <1>6. ASSUME T # {} PROVE FALSE
    <2>1. T \in SUBSET Nat
      BY <1>2
    <2>2. PICK k \in T : \A y \in T : k <= y
      BY <1>6, <2>1, LeastNumber
    <2>3. k \in 0 .. n /\ ~ P(k)
      OBVIOUS
    <2>4. k \in 1 .. n /\ k - 1 \in 0 .. n /\ ~ (k <= k - 1)
      BY <1>2, <1>4, <2>3
    <2>5. P(k - 1)
      BY <2>2, <2>4
    <2> QED
      BY <1>5, <2>3, <2>4, <2>5
  <1>7. P(n)
    BY <1>2, <1>6
  <1>8. Prefix(ids, n) = ids /\ Prefix(nods, n) = nods
    BY <1>3, PrefixAll DEF Sequences
  <1> QED
    BY <1>1, <1>7, <1>8 DEF P, ids, nods

-----------------------------------------------------------------------------
(* The networks of one file. *)

(* The names in their order are each there once.                            *)
LEMMA AscendingLists ==
    ASSUME NEW S \in SUBSET Nat, IsFiniteSet(S)
    PROVE  Lists(Ascending(S), S)
  <1>1. PICK t : Increasing(t, S)
    BY OrderExists
  <1>2. \E s \in [ 1 .. Cardinality(S) -> S ] : \A a, b \in DOMAIN s : a < b => s[a] < s[b]
    BY <1>1 DEF Increasing
  <1>3. Increasing(Ascending(S), S)
    BY <1>2, Zenon DEF Ascending, Increasing
  <1> QED
    BY <1>3, IncreasingLists

(* The buses of a document by name, and the first of a name. *)
NamesOfBuses(d) == { d.buses[b].name : b \in DOMAIN d.buses }
FirstOfName(d, n) == d.buses[Min({ b \in DOMAIN d.buses : d.buses[b].name = n })]

(* The names of the buses can be put in order, and each has a first bus.    *)
LEMMA BusesOfDoc ==
    ASSUME NEW d \in Document
    PROVE  /\ Lists(Ascending(NamesOfBuses(d)), NamesOfBuses(d))
           /\ \A n \in NamesOfBuses(d) : Sequence(FirstOfName(d, n).messages)
           /\ Sequence(d.nodes)
  <1>1. /\ Sequence(d.nodes) /\ Len(d.buses) \in Nat /\ DOMAIN d.buses = 1 .. Len(d.buses)
    BY DocumentParts, SequenceIs
  <1>2. d.buses \in Seq(BusElement)
    BY DocumentParts
  <1>3. \A b \in DOMAIN d.buses : d.buses[b].name \in Nat
    <2>1. \A b \in DOMAIN d.buses : d.buses[b] \in BusElement
      BY <1>1, <1>2
    <2>2. \A x \in BusElement : x.name \in Nat
      BY DocsAssumption DEF BusElement
    <2> QED
      BY <2>1, <2>2
  <1>4. IsFiniteSet(NamesOfBuses(d))
    <2> DEFINE f == [ b \in DOMAIN d.buses |-> d.buses[b].name ]
    <2>1. f \in Surjection(DOMAIN d.buses, NamesOfBuses(d))
      BY DEF Surjection, NamesOfBuses
    <2>2. IsFiniteSet(DOMAIN d.buses)
      BY <1>1, FS_Interval
    <2> QED
      BY <2>1, <2>2, FS_Surjection
  <1>5. Lists(Ascending(NamesOfBuses(d)), NamesOfBuses(d))
    <2>1. NamesOfBuses(d) \in SUBSET Nat
      BY <1>3 DEF NamesOfBuses
    <2> QED
      BY <1>4, <2>1, AscendingLists
  <1>6. ASSUME NEW n \in NamesOfBuses(d)
        PROVE  Sequence(FirstOfName(d, n).messages)
    <2> DEFINE B == { b \in DOMAIN d.buses : d.buses[b].name = n }
    <2>1. B \in SUBSET Nat /\ B # {}
      BY <1>1 DEF NamesOfBuses
    <2>2. PICK x \in B : \A y \in B : x <= y
      BY <2>1, LeastNumber
    <2>3. Min(B) \in B
      <3> HIDE DEF B
      <3> QED
        BY <2>2, Zenon DEF Min
    <2>4. Min(B) \in 1 .. Len(d.buses)
      BY <1>1, <2>3
    <2>5. d.buses[Min(B)].messages \in Seq(MessageElements)
      <3> HIDE DEF B
      <3> QED
        BY <2>4, DocumentParts
    <2> QED
      BY <2>5, SequenceIs DEF FirstOfName
  <1> QED
    BY <1>1, <1>5, <1>6

(* The lists ConvertsEveryFile says of a document. *)
LEMMA DocLists ==
    ASSUME NEW d \in Document
    PROVE  LET names == Ascending(NamesOfBuses(d))
           IN  /\ AreLists(NetworksOfDoc(d))
               /\ DOMAIN NetworksOfDoc(d) = DOMAIN names
               /\ \A i \in DOMAIN names :
                     /\ NetworksOfDoc(d)[i].ids = IdsOf(FirstOfName(d, names[i]).messages)
                     /\ NetworksOfDoc(d)[i].nodes = NamesIn(d.nodes)
  <1> DEFINE names == Ascending(NamesOfBuses(d))
             lists == NetworksOfDoc(d)
  <1>1. lists = [ i \in DOMAIN names |->
                    [ ids   |-> IdsOf(FirstOfName(d, names[i]).messages),
                      nodes |-> NamesIn(d.nodes) ] ]
    BY DEF NetworksOfDoc, IdsOf, NamesIn, FirstOfName, NamesOfBuses
  <1>2. Lists(names, NamesOfBuses(d))
    BY BusesOfDoc
  <1> HIDE DEF names, lists
  <1>3. /\ DOMAIN lists = DOMAIN names
        /\ \A i \in DOMAIN names :
              /\ lists[i].ids = IdsOf(FirstOfName(d, names[i]).messages)
              /\ lists[i].nodes = NamesIn(d.nodes)
    BY <1>1
  <1>4. Sequence(lists)
    <2>1. lists = [ i \in DOMAIN names |-> lists[i] ]
      BY <1>1
    <2> QED
      BY <1>2, <1>3, <2>1, MadeOf DEF Lists
  <1>5. ASSUME NEW i \in DOMAIN names
        PROVE  Sequence(lists[i].ids) /\ Sequence(lists[i].nodes)
    <2>1. names[i] \in NamesOfBuses(d)
      BY <1>2 DEF Lists
    <2>2. Sequence(FirstOfName(d, names[i]).messages) /\ Sequence(d.nodes)
      BY <2>1, BusesOfDoc
    <2> QED
      BY <1>3, <2>2, MappedIs
  <1>6. AreLists(lists)
    BY <1>3, <1>4, <1>5 DEF AreLists
  <1> QED
    BY <1>3, <1>6 DEF names, lists

(* What is loaded from an accepted DBC file has the messages and nodes it   *)
(* says.                                                                    *)
LEMMA LoadedLists ==
    ASSUME NEW file, AcceptedFile(file), NEW left \in LeftOnStack
    PROVE  LET lists == NetworksOfFile(<< "dbc", file >>)
           IN  /\ AreLists(lists) /\ DOMAIN lists = {1}
               /\ lists[1].ids = IdsOf(Load(file, left).messages)
               /\ lists[1].nodes = NamesIn(Load(file, left).nodes)
  <1> DEFINE of    == Of(file, "BO_")
             names == Head(Values(file, "BU_"))
             ids   == [ k \in DOMAIN of |-> Owner(of[k])[2] ]
             one   == [ ids |-> ids, nodes |-> names ]
             loaded == Load(file, left)
  <1>1. NetworksOfFile(<< "dbc", file >>) = << one >>
    BY DEF NetworksOfFile, AcceptedFile
  <1>2. Sequence(of)
    <2>1. Sequence(file)
      BY AcceptedIs
    <2> QED
      BY <2>1, OfAre
  <1>3. Sequence(names)
    BY NodeNames
  <1>4. /\ loaded.messages = [ i \in DOMAIN of |-> LoadMessage(file, of[i]) ]
        /\ loaded.nodes = [ i \in DOMAIN names |-> LoadNode(file, names[i]) ]
    BY DEF Load
  <1> HIDE DEF of, names, loaded
  <1>5. ids = IdsOf(loaded.messages)
    <2>1. \A i \in DOMAIN of : LoadMessage(file, of[i]).id = Owner(of[i])[2]
      BY DEF LoadMessage
    <2>2. /\ DOMAIN loaded.messages = DOMAIN of
          /\ \A i \in DOMAIN of : loaded.messages[i] = LoadMessage(file, of[i])
      BY <1>4
    <2> QED
      BY <2>1, <2>2 DEF IdsOf
  <1>6. names = NamesIn(loaded.nodes)
    <2>1. \A i \in DOMAIN names : LoadNode(file, names[i]).name = names[i]
      BY DEF LoadNode
    <2>2. /\ DOMAIN loaded.nodes = DOMAIN names
          /\ \A i \in DOMAIN names : loaded.nodes[i] = LoadNode(file, names[i])
      BY <1>4
    <2>3. NamesIn(loaded.nodes) = [ i \in DOMAIN names |-> names[i] ]
      BY <2>1, <2>2 DEF NamesIn
    <2>4. names = [ i \in DOMAIN names |-> names[i] ]
      <3>1. names = [ i \in 1 .. Len(names) |-> names[i] ] /\ DOMAIN names = 1 .. Len(names)
        BY <1>3 DEF Sequence
      <3> QED
        BY <3>1
    <2> QED
      BY <2>3, <2>4
  <1>7. Sequence(ids)
    <2>1. DOMAIN ids = DOMAIN of /\ ids = [ k \in DOMAIN of |-> ids[k] ]
      OBVIOUS
    <2> HIDE DEF ids
    <2> QED
      BY <1>2, <2>1, MadeOf
  <1> HIDE DEF ids
  <1>8. /\ Sequence(<< one >>) /\ DOMAIN << one >> = {1} /\ << one >>[1] = one
    BY SequenceOne
  <1>9. one.ids = ids /\ one.nodes = names
    OBVIOUS
  <1> HIDE DEF one
  <1>10. AreLists(<< one >>)
    BY <1>3, <1>7, <1>8, <1>9 DEF AreLists
  <1> QED
    BY <1>1, <1>5, <1>6, <1>8, <1>9, <1>10 DEF loaded

(* The lists of any file of a command line are lists. *)
LEMMA FileLists ==
    ASSUME NEW c \in Commands, NEW i \in DOMAIN c
    PROVE  /\ AreLists(NetworksOfFile(c[i]))
           /\ c[i][1] = "kcd" => c[i][2] \in Docs /\ c[i][2] \in Document
           /\ c[i][1] = "dbc" => ParsedFile(c[i][2])
  <1>1. c[i] \in ToSet(c)
    BY DEF ToSet
  <1>2. /\ c[i][1] = "kcd" => c[i][2] \in Docs
        /\ c[i][1] = "dbc" => ParsedFile(c[i][2])
    BY <1>1, CommandsAssumption
  <1>3. c[i][1] = "kcd" => c[i][2] \in Document
    BY <1>2, DocsAssumption
  <1>4. CASE c[i][1] = "kcd"
    <2>1. NetworksOfFile(c[i]) = NetworksOfDoc(c[i][2])
      BY <1>4 DEF NetworksOfFile
    <2> QED
      BY <1>2, <1>3, <1>4, <2>1, DocLists
  <1>5. CASE c[i][1] = "dbc" /\ Accepts(c[i][2])
    <2>1. AcceptedFile(c[i][2])
      BY <1>2, <1>5 DEF AcceptedFile
    <2>2. "Data" \in LeftOnStack
      BY DEF LeftOnStack
    <2>3. PICK left \in LeftOnStack : TRUE
      BY <2>2
    <2>4. NetworksOfFile(c[i]) = NetworksOfFile(<< "dbc", c[i][2] >>)
      BY <1>5 DEF NetworksOfFile
    <2>5. AreLists(NetworksOfFile(<< "dbc", c[i][2] >>))
      BY <2>1, <2>3, LoadedLists
    <2> QED
      BY <1>2, <1>5, <2>4, <2>5
  <1>6. CASE c[i][1] # "kcd" /\ ~ (c[i][1] = "dbc" /\ Accepts(c[i][2]))
    <2>1. NetworksOfFile(c[i]) = << >>
      BY <1>6 DEF NetworksOfFile
    <2>2. AreLists(<< >>)
      BY SequenceEmpty DEF AreLists
    <2> QED
      BY <1>2, <1>6, <2>1, <2>2
  <1> QED
    BY <1>4, <1>5, <1>6

-----------------------------------------------------------------------------
(* The conversion runs the loader of KCD files: its steps are steps of the  *)
(* loader or leave it alone, so that what holds of the loader holds here.   *)
CommandTypeOK ==
    /\ command \in Commands
    /\ opened \in 0 .. Len(command)
    /\ pc \in {"open", "kcd", "written", "terminated"}
    /\ pc = "kcd" =>
          /\ opened \in DOMAIN command
          /\ command[opened][1] = "kcd" /\ doc = command[opened][2]

(* A command line is a list of files.                                       *)
LEMMA CommandIs ==
    ASSUME NEW c \in Commands
    PROVE  Sequence(c) /\ Len(c) \in Nat /\ DOMAIN c = 1 .. Len(c)
  BY CommandsAssumption, ListIs, SequenceDomain

(* The file that is opened is the next one.                                 *)
LEMMA OpensIs ==
    ASSUME CommandTypeOK, NEW kind, Opens(kind)
    PROVE  /\ opened + 1 \in DOMAIN command /\ command[opened + 1][1] = kind
           /\ opened' = opened + 1 /\ opened + 1 \in 0 .. Len(command)
           /\ pc = "open" /\ Content = command[opened + 1][2]
  <1>1. Len(command) \in Nat /\ DOMAIN command = 1 .. Len(command)
    BY CommandIs DEF CommandTypeOK
  <1> QED
    BY <1>1 DEF CommandTypeOK, Opens, Content

(* Every step opens files in their order, and is a step of the loader or    *)
(* none.                                                                    *)
LEMMA CommandTypeStep ==
    ASSUME CommandTypeOK, [CommandNext]_command_vars
    PROVE  CommandTypeOK' /\ [Next]_vars
  <1>1. CASE SkipFile \/ LoadDBC
    <2>1. /\ \E kind \in {"unopened", "other", "dbc"} : Opens(kind)
          /\ UNCHANGED << command, pc, vars >>
      BY <1>1 DEF SkipFile, LoadDBC
    <2>2. /\ opened' = opened + 1 /\ opened + 1 \in 0 .. Len(command) /\ pc = "open"
      BY <2>1, OpensIs
    <2> QED
      BY <2>1, <2>2 DEF CommandTypeOK
  <1>2. CASE LoadKCD
    <2>1. /\ opened + 1 \in DOMAIN command /\ command[opened + 1][1] = "kcd"
          /\ opened' = opened + 1 /\ opened + 1 \in 0 .. Len(command)
          /\ Content = command[opened + 1][2]
      BY <1>2, OpensIs DEF LoadKCD
    <2>2. pc' = "kcd" /\ command' = command /\ LoadKCDFromIs(Content)
      BY <1>2 DEF LoadKCD
    <2>3. Content \in Docs
      BY <2>1, FileLists DEF CommandTypeOK
    <2>4. doc' = Content
      BY <2>2 DEF LoadKCDFromIs
    <2>5. Next
      BY <2>2, <2>3 DEF Next
    <2> QED
      BY <2>1, <2>2, <2>4, <2>5 DEF CommandTypeOK
  <1>3. CASE ParseKCD
    <2>1. Parse /\ UNCHANGED << command, opened, pc >>
      BY <1>3 DEF ParseKCD
    <2>2. UNCHANGED doc
      BY <2>1 DEF Parse, parseNetworkDefinition, parseNode, NodesParsed, parseMessage,
                  parseNetwork, NetworksParsed
    <2> QED
      BY <2>1, <2>2 DEF CommandTypeOK, Next
  <1>4. CASE MergeLoaded \/ Terminate \/ WriteDBC
    <2>1. /\ pc' \in {"open", "written", "terminated"}
          /\ UNCHANGED << command, opened, vars >>
      BY <1>4 DEF MergeLoaded, Terminate, WriteDBC
    <2> QED
      BY <2>1 DEF CommandTypeOK
  <1>5. CASE UNCHANGED command_vars
    BY <1>5 DEF command_vars, vars, CommandTypeOK
  <1> QED
    BY <1>1, <1>2, <1>3, <1>4, <1>5 DEF CommandNext

(* The files are opened in their order.                                     *)
LEMMA CommandTypes == CommandSpec => []CommandTypeOK
  <1>1. CommandInit => CommandTypeOK
    <2> SUFFICES ASSUME CommandInit PROVE CommandTypeOK
      OBVIOUS
    <2>1. command \in Commands /\ opened = 0 /\ pc = "open"
      BY DEF CommandInit
    <2>2. Len(command) \in Nat
      BY <2>1, CommandIs
    <2> QED
      BY <2>1, <2>2 DEF CommandTypeOK
  <1>2. CommandTypeOK /\ [CommandNext]_command_vars => CommandTypeOK'
    BY CommandTypeStep
  <1> QED
    BY <1>1, <1>2, PTL DEF CommandSpec

(* dbc2: loading a file of a command line is a behaviour of KCD2Network.    *)
THEOREM CommandRunsLoader == CommandSpec => Spec
  <1>1. CommandInit => Init
    BY DEF CommandInit
  <1>2. CommandTypeOK /\ [CommandNext]_command_vars => [Next]_vars
    BY CommandTypeStep
  <1> QED
    BY CommandTypes, <1>1, <1>2, PTL DEF CommandSpec, Spec

-----------------------------------------------------------------------------
(* The networks of the first files of a command line. *)
FileSeqs(c) == [ i \in DOMAIN c |-> NetworksOfFile(c[i]) ]
Files(c, k) == FlattenSeq(Prefix(FileSeqs(c), k))

(* They are the lists of one file after the other.                          *)
LEMMA FilesAre ==
    ASSUME NEW c \in Commands
    PROVE  /\ Sequences(FileSeqs(c)) /\ Len(FileSeqs(c)) = Len(c)
           /\ \A k \in 0 .. Len(c) : AreLists(Files(c, k))
           /\ Files(c, 0) = << >> /\ Files(c, Len(c)) = FlattenSeq(FileSeqs(c))
           /\ \A k \in DOMAIN c : Files(c, k) = Files(c, k - 1) \o NetworksOfFile(c[k])
  <1> DEFINE seqs == FileSeqs(c)
             E == { x \in UNION { ToSet(seqs[i]) : i \in DOMAIN seqs } :
                      Sequence(x.ids) /\ Sequence(x.nodes) }
  <1>1. Sequence(c) /\ Len(c) \in Nat /\ DOMAIN c = 1 .. Len(c)
    BY CommandIs
  <1>2. /\ DOMAIN seqs = DOMAIN c /\ seqs = [ i \in DOMAIN c |-> seqs[i] ]
        /\ \A i \in DOMAIN c : seqs[i] = NetworksOfFile(c[i])
    BY DEF FileSeqs
  <1>3. \A i \in DOMAIN seqs : AreLists(seqs[i])
    BY <1>2, FileLists
  <1>4. Sequence(seqs) /\ Len(seqs) = Len(c)
    <2> HIDE DEF seqs
    <2> QED
      BY <1>1, <1>2, MadeOf
  <1>5. Sequences(seqs)
    BY <1>3, <1>4 DEF Sequences, AreLists
  <1>6. \A i \in DOMAIN seqs : \A j \in DOMAIN seqs[i] : seqs[i][j] \in E
    BY <1>3 DEF AreLists, ToSet
  <1> HIDE DEF seqs
  <1>7. ASSUME NEW k \in 0 .. Len(c) PROVE AreLists(FlattenSeq(Prefix(seqs, k)))
    <2> DEFINE flat == FlattenSeq(Prefix(seqs, k))
    <2>1. flat \in Seq(E)
      <3> HIDE DEF E
      <3> QED
        BY <1>4, <1>5, <1>6, FlattenElements
    <2> HIDE DEF flat
    <2>2. Sequence(flat) /\ \A i \in DOMAIN flat : flat[i] \in E
      <3> HIDE DEF E
      <3> QED
        BY <2>1, SequenceIs
    <2>3. AreLists(flat)
      BY <2>2 DEF AreLists
    <2> QED
      BY <2>3 DEF flat
  <1>8. FlattenSeq(Prefix(seqs, 0)) = << >>
    BY PrefixNone
  <1>9. Prefix(seqs, Len(c)) = seqs
    BY <1>4, PrefixAll
  <1>10. ASSUME NEW k \in DOMAIN c
         PROVE  FlattenSeq(Prefix(seqs, k))
                  = FlattenSeq(Prefix(seqs, k - 1)) \o NetworksOfFile(c[k])
    <2>1. k \in Nat \ {0} /\ Sequence(seqs[k]) /\ seqs[k] = NetworksOfFile(c[k])
      BY <1>1, <1>2, <1>5 DEF Sequences
    <2> QED
      BY <2>1, FlattenPrefix
  <1> QED
    BY <1>4, <1>5, <1>7, <1>8, <1>9, <1>10 DEF Files, seqs

(* The networks of one file more were merged. *)
LEMMA OneMore ==
    ASSUME NEW c \in Commands, NEW k \in DOMAIN c, NEW made, HasAll(made, Files(c, k - 1)),
           NEW more,
           IdsOf(more.messages)
               = IdsOf(made.messages) \o FlattenSeq(AllIds(NetworksOfFile(c[k]))),
           NamesIn(more.nodes)
               = NamesIn(made.nodes) \o FlattenSeq(AllNodes(NetworksOfFile(c[k])))
    PROVE  HasAll(more, Files(c, k))
  <1> DEFINE a == Files(c, k - 1)
             b == NetworksOfFile(c[k])
  <1>1. k - 1 \in 0 .. Len(c)
    BY CommandIs
  <1>2. AreLists(a) /\ AreLists(b) /\ Files(c, k) = a \o b
    BY <1>1, FilesAre, FileLists
  <1> HIDE DEF a, b
  <1>3. HasAll(more, a \o b)
    BY <1>2, HasMore DEF a, b
  <1> QED
    BY <1>2, <1>3

(* The lists of a file without a network are empty. *)
LEMMA NoLists == FlattenSeq(AllIds(<< >>)) = << >> /\ FlattenSeq(AllNodes(<< >>)) = << >>
  <1>1. Sequence(AllIds(<< >>)) /\ Sequence(AllNodes(<< >>))
    BY SequenceEmpty, MappedIs
  <1>2. DOMAIN AllIds(<< >>) = {} /\ DOMAIN AllNodes(<< >>) = {}
    BY SequenceEmpty DEF AllIds, AllNodes
  <1>3. AllIds(<< >>) = << >> /\ AllNodes(<< >>) = << >>
    BY <1>1, <1>2, NoDomain
  <1> QED
    BY <1>3, FlattenNone

(* Those of a file with one are its own. *)
LEMMA OneList ==
    ASSUME NEW lists, AreLists(lists), DOMAIN lists = {1}
    PROVE  /\ FlattenSeq(AllIds(lists)) = lists[1].ids
           /\ FlattenSeq(AllNodes(lists)) = lists[1].nodes
  <1>1. /\ DOMAIN AllIds(lists) = {1} /\ AllIds(lists)[1] = lists[1].ids
        /\ DOMAIN AllNodes(lists) = {1} /\ AllNodes(lists)[1] = lists[1].nodes
    BY DEF AllIds, AllNodes
  <1>2. Sequences(AllIds(lists)) /\ Sequences(AllNodes(lists))
    BY AllSequences
  <1> DEFINE a == AllIds(lists)
             b == AllNodes(lists)
  <1> HIDE DEF a, b
  <1>3. FlattenSeq(a) = a[1]
    <2>1. 1 \in DOMAIN a /\ \A i \in DOMAIN a : i # 1 => a[i] = << >>
      BY <1>1 DEF a
    <2> QED
      BY <1>2, <2>1, FlattenOnly DEF a
  <1>4. FlattenSeq(b) = b[1]
    <2>1. 1 \in DOMAIN b /\ \A i \in DOMAIN b : i # 1 => b[i] = << >>
      BY <1>1 DEF b
    <2> QED
      BY <1>2, <2>1, FlattenOnly DEF b
  <1> QED
    BY <1>1, <1>3, <1>4 DEF a, b

-----------------------------------------------------------------------------
(* The network merged into is one a DBC file can say, and has what the      *)
(* files merged so far say.                                                 *)
ConvertInv ==
    /\ IsNetwork(net)
    /\ pc = "open" => HasAll(net, Files(command, opened))
    /\ pc = "kcd" => HasAll(net, Files(command, opened - 1))
    /\ pc = "written" =>
          HasAll(net, Files(command, opened)) /\ opened = Len(command) /\ out = Write(net)

(* Before the first file there is the empty network, which has nothing.     *)
LEMMA EmptyIsNetwork == IsNetwork(EmptyNetwork) /\ HasAll(EmptyNetwork, << >>)
  <1> DEFINE e == EmptyNetwork
  <1>1. /\ e = [ version |-> e.version, new_symbols |-> e.new_symbols,
                 bit_timing |-> e.bit_timing, nodes |-> e.nodes,
                 value_tables |-> e.value_tables, messages |-> e.messages,
                 environment_variables |-> e.environment_variables,
                 attribute_definitions |-> e.attribute_definitions,
                 attribute_defaults |-> e.attribute_defaults,
                 attribute_values |-> e.attribute_values, comment |-> e.comment ]
        /\ e.version = "" /\ e.comment = "" /\ e.bit_timing = << 0, 0, 0 >>
        /\ e.nodes = << >> /\ e.messages = << >> /\ e.value_tables = << >>
        /\ e.environment_variables = << >> /\ e.attribute_definitions = << >>
        /\ e.attribute_defaults = << >> /\ e.attribute_values = << >>
    BY DEF EmptyNetwork
  <1>2. << 0, 0, 0 >> \in [ 1 .. 3 -> Nat ]
    OBVIOUS
  <1>3. "" # Unreadable /\ IsAttributes(<< >>, "network")
    BY NoAttributes DEF Unreadable
  <1> HIDE DEF e
  <1>4. IsNetwork(e)
    BY <1>1, <1>2, <1>3, SequenceEmpty DEF IsNetwork
  <1>5. IdsOf(<< >>) = << >> /\ NamesIn(<< >>) = << >>
    <2>1. Sequence(IdsOf(<< >>)) /\ Sequence(NamesIn(<< >>))
      BY SequenceEmpty, MappedIs
    <2>2. DOMAIN IdsOf(<< >>) = {} /\ DOMAIN NamesIn(<< >>) = {}
      BY SequenceEmpty DEF IdsOf, NamesIn
    <2> QED
      BY <2>1, <2>2, NoDomain
  <1>6. HasAll(e, << >>)
    BY <1>1, <1>5, NoLists DEF HasAll
  <1> QED
    BY <1>4, <1>6 DEF e

(* A file that is skipped adds nothing.                                     *)
LEMMA SkipFileConverts ==
    ASSUME CommandTypeOK, ConvertInv, SkipFile
    PROVE  ConvertInv'
  <1> DEFINE k == opened + 1
  <1>1. /\ \/ Opens("unopened")
           \/ Opens("other")
           \/ Opens("dbc") /\ ~ Accepts(Content)
        /\ UNCHANGED << command, pc, net, out >>
    BY DEF SkipFile
  <1>2. /\ k \in DOMAIN command /\ opened' = k /\ pc = "open" /\ k - 1 = opened
        /\ command[k][1] # "kcd"
        /\ ~ (command[k][1] = "dbc" /\ Accepts(command[k][2]))
    BY <1>1, OpensIs DEF CommandTypeOK
  <1> HIDE DEF k
  <1>3. NetworksOfFile(command[k]) = << >>
    BY <1>2 DEF NetworksOfFile
  <1>4. HasAll(net, Files(command, k - 1))
    BY <1>2 DEF ConvertInv
  <1>5. Sequence(IdsOf(net.messages)) /\ Sequence(NamesIn(net.nodes))
    BY MappedIs DEF ConvertInv, IsNetwork
  <1> DEFINE a == IdsOf(net.messages)
             b == NamesIn(net.nodes)
  <1>6. a = a \o << >> /\ b = b \o << >>
    <2> HIDE DEF a, b
    <2> QED
      BY <1>5, ConcatEmpty DEF a, b
  <1>7. HasAll(net, Files(command, k))
    <2>1. a = a \o FlattenSeq(AllIds(NetworksOfFile(command[k])))
      BY <1>3, <1>6, NoLists
    <2>2. b = b \o FlattenSeq(AllNodes(NetworksOfFile(command[k])))
      BY <1>3, <1>6, NoLists
    <2> QED
      BY <1>2, <1>4, <2>1, <2>2, OneMore DEF CommandTypeOK
  <1> QED
    BY <1>1, <1>2, <1>7 DEF ConvertInv

(* A DBC file adds the messages and nodes it says.                          *)
LEMMA LoadDBCConverts ==
    ASSUME CommandTypeOK, ConvertInv, LoadDBC
    PROVE  ConvertInv'
  <1> DEFINE k == opened + 1
             file == command[k][2]
             lists == NetworksOfFile(command[k])
  <1>1. PICK left \in LeftOnStack : net' = Merge(net, Load(Content, left))
    BY DEF LoadDBC
  <1>2. /\ k \in DOMAIN command /\ opened' = k /\ pc = "open" /\ k - 1 = opened
        /\ command[k][1] = "dbc" /\ Content = file /\ Accepts(file)
        /\ UNCHANGED << command, pc, out >>
    BY OpensIs DEF CommandTypeOK, LoadDBC
  <1>3. AcceptedFile(file)
    BY <1>2, FileLists DEF CommandTypeOK, AcceptedFile
  <1>4. lists = NetworksOfFile(<< "dbc", file >>)
    BY <1>2 DEF NetworksOfFile
  <1> DEFINE loaded == Load(file, left)
  <1>5. IsNetwork(loaded)
    BY <1>3, LoadIsNetwork
  <1>6. /\ AreLists(lists) /\ DOMAIN lists = {1}
        /\ lists[1].ids = IdsOf(loaded.messages)
        /\ lists[1].nodes = NamesIn(loaded.nodes)
    BY <1>3, <1>4, LoadedLists
  <1>7. net' = Merge(net, loaded)
    BY <1>1, <1>2
  <1> HIDE DEF loaded, lists, file, k
  <1>8. /\ IsNetwork(net')
        /\ IdsOf(net'.messages) = IdsOf(net.messages) \o IdsOf(loaded.messages)
        /\ NamesIn(net'.nodes) = NamesIn(net.nodes) \o NamesIn(loaded.nodes)
    BY <1>5, <1>7, MergeAppends DEF ConvertInv
  <1>9. FlattenSeq(AllIds(lists)) = lists[1].ids /\ FlattenSeq(AllNodes(lists)) = lists[1].nodes
    BY <1>6, OneList
  <1>10. HasAll(net, Files(command, k - 1))
    BY <1>2 DEF ConvertInv
  <1>11. HasAll(net', Files(command, k))
    <2>1. IdsOf(net'.messages) = IdsOf(net.messages) \o FlattenSeq(AllIds(NetworksOfFile(command[k])))
      BY <1>6, <1>8, <1>9 DEF lists
    <2>2. NamesIn(net'.nodes)
             = NamesIn(net.nodes) \o FlattenSeq(AllNodes(NetworksOfFile(command[k])))
      BY <1>6, <1>8, <1>9 DEF lists
    <2> QED
      BY <1>2, <1>10, <2>1, <2>2, OneMore DEF CommandTypeOK
  <1> QED
    BY <1>2, <1>8, <1>11 DEF ConvertInv

(* The networks made of a document are those that are said of it.           *)
LEMMA MergeLoadedConverts ==
    ASSUME CommandTypeOK, ConvertInv, KcdInv, KcdNetworksInv, NetworksAreBuses, MergeLoaded
    PROVE  ConvertInv'
  <1> DEFINE names == Ascending(DOMAIN networks)
             lists == NetworksOfFile(command[opened])
  <1>1. /\ pc = "kcd" /\ phase = "done" /\ pc' = "open"
        /\ UNCHANGED << command, opened, out >>
        /\ net' = MergedAll(net, networks, names)
    BY DEF MergeLoaded, MergedAll
  <1>2. /\ opened \in DOMAIN command /\ command[opened][1] = "kcd"
        /\ doc = command[opened][2] /\ command \in Commands
    BY <1>1 DEF CommandTypeOK
  <1>3. doc \in Document
    BY DEF KcdInv, TypeOK
  <1>4. DOMAIN networks = NamesOfBuses(doc)
    BY <1>1 DEF NetworksAreBuses, NamesOfBuses
  <1>5. Lists(names, DOMAIN networks)
    BY <1>3, <1>4, BusesOfDoc
  <1>6. lists = NetworksOfDoc(doc)
    BY <1>2 DEF NetworksOfFile
  <1>7. /\ AreLists(lists) /\ DOMAIN lists = DOMAIN names
        /\ \A i \in DOMAIN names :
              /\ lists[i].ids = IdsOf(FirstOfName(doc, names[i]).messages)
              /\ lists[i].nodes = NamesIn(doc.nodes)
    BY <1>3, <1>4, <1>6, DocLists
  <1> HIDE DEF names, lists
  <1>8. ASSUME NEW n \in DOMAIN networks
        PROVE  /\ IdsOf(FirstOfName(doc, n).messages) = IdsOf(networks[n].messages)
               /\ NamesIn(doc.nodes) = NamesIn(networks[n].nodes)
    <2> DEFINE a == FirstOfName(doc, n).messages
               b == networks[n].messages
               c == doc.nodes
               d == networks[n].nodes
    <2>1. FirstBus(n) = FirstOfName(doc, n)
      BY DEF FirstBus, FirstOfName
    <2>2. /\ Len(b) = Len(a) /\ (\A i \in DOMAIN a : b[i].id = a[i].id)
          /\ Len(d) = Len(c) /\ (\A i \in DOMAIN c : d[i].name = c[i].name)
      BY <2>1 DEF NetworksAreBuses
    <2>3. Sequence(a) /\ Sequence(c)
      BY <1>3, <1>4, BusesOfDoc
    <2>4. Sequence(b) /\ Sequence(d)
      BY DEF KcdNetworksInv, IsNetwork
    <2> HIDE DEF a, b, c, d
    <2>5. DOMAIN a = DOMAIN b /\ DOMAIN c = DOMAIN d
      BY <2>2, <2>3, <2>4, SequenceDomain
    <2>6. IdsOf(a) = IdsOf(b) /\ NamesIn(c) = NamesIn(d)
      BY <2>2, <2>5 DEF IdsOf, NamesIn
    <2> QED
      BY <2>6 DEF a, b, c, d
  <1>9. \A i \in DOMAIN names :
           /\ lists[i].ids = IdsOf(networks[names[i]].messages)
           /\ lists[i].nodes = NamesIn(networks[names[i]].nodes)
    BY <1>5, <1>7, <1>8 DEF Lists
  <1>10. \A i \in DOMAIN names : IsNetwork(networks[names[i]])
    BY <1>5 DEF Lists, KcdNetworksInv
  <1>11. /\ IsNetwork(MergedAll(net, networks, names))
         /\ IdsOf(MergedAll(net, networks, names).messages)
              = IdsOf(net.messages) \o FlattenSeq(AllIds(lists))
         /\ NamesIn(MergedAll(net, networks, names).nodes)
              = NamesIn(net.nodes) \o FlattenSeq(AllNodes(lists))
    <2>1. IsNetwork(net) /\ Sequence(names)
      BY <1>5 DEF ConvertInv, Lists
    <2> QED
      BY <1>7, <1>9, <1>10, <2>1, MergedAllAppends
  <1>12. HasAll(net, Files(command, opened - 1))
    BY <1>1 DEF ConvertInv
  <1>13. HasAll(net', Files(command, opened))
    <2>1. IdsOf(net'.messages)
            = IdsOf(net.messages) \o FlattenSeq(AllIds(NetworksOfFile(command[opened])))
      BY <1>1, <1>11 DEF lists
    <2>2. NamesIn(net'.nodes)
            = NamesIn(net.nodes) \o FlattenSeq(AllNodes(NetworksOfFile(command[opened])))
      BY <1>1, <1>11 DEF lists
    <2> QED
      BY <1>2, <1>12, <2>1, <2>2, OneMore
  <1> QED
    BY <1>1, <1>11, <1>13 DEF ConvertInv

(* Every step keeps what is known of the merged network.                    *)
LEMMA ConvertStep ==
    ASSUME CommandTypeOK, ConvertInv, KcdInv, KcdNetworksInv, NetworksAreBuses,
           [CommandNext]_command_vars
    PROVE  ConvertInv'
  <1>1. CASE SkipFile
    BY <1>1, SkipFileConverts
  <1>2. CASE LoadDBC
    BY <1>2, LoadDBCConverts
  <1>3. CASE LoadKCD
    <2>1. /\ pc = "open" /\ pc' = "kcd" /\ opened' = opened + 1 /\ opened \in Int
          /\ UNCHANGED << command, net, out >>
      BY <1>3, OpensIs DEF LoadKCD, CommandTypeOK
    <2>2. opened' - 1 = opened
      BY <2>1
    <2> QED
      BY <2>1, <2>2 DEF ConvertInv
  <1>4. CASE ParseKCD
    <2>1. UNCHANGED << command, opened, pc, net, out >>
      BY <1>4 DEF ParseKCD
    <2> QED
      BY <2>1 DEF ConvertInv
  <1>5. CASE MergeLoaded
    BY <1>5, MergeLoadedConverts
  <1>6. CASE Terminate
    BY <1>6 DEF Terminate, ConvertInv
  <1>7. CASE WriteDBC
    BY <1>7 DEF WriteDBC, ConvertInv
  <1>8. CASE UNCHANGED command_vars
    BY <1>8 DEF command_vars, ConvertInv
  <1> QED
    BY <1>1, <1>2, <1>3, <1>4, <1>5, <1>6, <1>7, <1>8 DEF CommandNext

(* The two invariants and those of the loader hold in every state.          *)
THEOREM CommandInvariant == CommandSpec => [](CommandTypeOK /\ ConvertInv)
  <1>1. CommandInit => ConvertInv
    <2> SUFFICES ASSUME CommandInit PROVE ConvertInv
      OBVIOUS
    <2>1. /\ command \in Commands /\ opened = 0 /\ pc = "open" /\ net = EmptyNetwork
      BY DEF CommandInit
    <2>2. Files(command, 0) = << >>
      BY <2>1, FilesAre
    <2> QED
      BY <2>1, <2>2, EmptyIsNetwork DEF ConvertInv
  <1>2. CommandTypeOK /\ ConvertInv /\ KcdInv /\ KcdNetworksInv /\ NetworksAreBuses
            /\ [CommandNext]_command_vars => ConvertInv'
    BY ConvertStep
  <1>3. CommandSpec => [](KcdInv /\ KcdNetworksInv /\ NetworksAreBuses)
    BY CommandRunsLoader, Invariance, KcdNetworks, NetworksAreBusesAlways, PTL
  <1> QED
    BY CommandTypes, <1>1, <1>2, <1>3, PTL DEF CommandSpec

(* dbc2: for every command line, what is written is a DBC file exactly when *)
(* the merged network is Writable, and is then read back as that network,   *)
(* whether it came from DBC files, from KCD files or from both.             *)
THEOREM ConvertedReadsBackAlways == CommandSpec => []ConvertedReadsBack
  <1>1. ConvertInv => ConvertedReadsBack
    <2> SUFFICES ASSUME ConvertInv, pc = "written"
                 PROVE  /\ Accepts(out) <=> Writable(net)
                        /\ Representable(net) =>
                              \A left \in LeftOnStack : Load(out, left) = Pooled(net)
      BY DEF ConvertedReadsBack
    <2>1. IsNetwork(net) /\ out = Write(net)
      BY DEF ConvertInv
    <2>2. Accepts(Write(net)) <=> Writable(net)
      BY <2>1, WriteAccepted
    <2>3. ASSUME Representable(net), NEW left \in LeftOnStack
          PROVE  Load(Write(net), left) = Pooled(net)
      BY <2>1, <2>3, RepresentableReloads
    <2> QED
      BY <2>1, <2>2, <2>3
  <1> QED
    BY CommandInvariant, <1>1, PTL

(* dbc2: for every command line, the network written has the messages and   *)
(* the nodes of all files, in their order, and no other.                    *)
THEOREM ConvertsEveryFileAlways == CommandSpec => []ConvertsEveryFile
  <1>1. CommandTypeOK /\ ConvertInv => ConvertsEveryFile
    <2> SUFFICES ASSUME CommandTypeOK, ConvertInv, pc = "written" PROVE ConvertsEveryFile
      BY DEF ConvertsEveryFile
    <2> DEFINE all == FlattenSeq([ i \in DOMAIN command |-> NetworksOfFile(command[i]) ])
    <2>1. HasAll(net, Files(command, Len(command)))
      BY DEF ConvertInv
    <2>2. Files(command, Len(command)) = all
      BY FilesAre DEF CommandTypeOK, FileSeqs
    <2>3. /\ [ i \in DOMAIN net.messages |-> net.messages[i].id ]
               = FlattenSeq([ i \in DOMAIN all |-> all[i].ids ])
          /\ [ i \in DOMAIN net.nodes |-> net.nodes[i].name ]
               = FlattenSeq([ i \in DOMAIN all |-> all[i].nodes ])
      <3> HIDE DEF all
      <3> QED
        BY <2>1, <2>2 DEF HasAll, IdsOf, NamesIn, AllIds, AllNodes
    <2> QED
      BY <2>3 DEF ConvertsEveryFile
  <1> QED
    BY CommandInvariant, <1>1, PTL

-----------------------------------------------------------------------------
(* Where dbc2 stops. *)

(* A file that does not end the command. *)
Loads(file) == file[1] = "kcd" => Resolvable(file[2])

(* dbc2, KCD: the command is terminated by the first of its KCD files that  *)
(* cannot be resolved, and one that writes its network has none.            *)
CommandEndsRight ==
    /\ pc = "written" => \A k \in DOMAIN command : Loads(command[k])
    /\ pc = "terminated" => /\ opened \in DOMAIN command
                            /\ ~ Loads(command[opened])
                            /\ \A k \in 1 .. opened - 1 : Loads(command[k])

(* The files opened before the one that is loaded did not end the command.  *)
OpenedInv ==
    /\ pc \in {"open", "written"} => \A k \in 1 .. opened : Loads(command[k])
    /\ pc \in {"kcd", "terminated"} => \A k \in 1 .. opened - 1 : Loads(command[k])
    /\ pc = "written" => opened = Len(command)
    /\ pc = "terminated" => opened \in DOMAIN command /\ ~ Loads(command[opened])

(* A file is left behind only when it was loaded.                           *)
LEMMA OpenedStep ==
    ASSUME CommandTypeOK, KcdInv, OpenedInv, [CommandNext]_command_vars
    PROVE  OpenedInv'
  <1>1. /\ opened \in Nat /\ Len(command) \in Nat /\ DOMAIN command = 1 .. Len(command)
    BY CommandIs DEF CommandTypeOK
  <1>2. \A n \in Nat : \A k \in 1 .. n + 1 : k \in 1 .. n \/ k = n + 1
    OBVIOUS
  <1>3. CASE SkipFile \/ LoadDBC
    <2>1. /\ \E kind \in {"unopened", "other", "dbc"} : Opens(kind)
          /\ command' = command /\ pc' = pc
      BY <1>3 DEF SkipFile, LoadDBC
    <2>2. /\ opened' = opened + 1 /\ pc = "open" /\ command[opened + 1][1] # "kcd"
      BY <2>1, OpensIs
    <2>3. Loads(command[opened + 1])
      BY <2>2 DEF Loads
    <2>4. \A k \in 1 .. opened + 1 : Loads(command[k])
      BY <1>1, <1>2, <2>2, <2>3 DEF OpenedInv
    <2> QED
      BY <2>1, <2>2, <2>4 DEF OpenedInv
  <1>4. CASE LoadKCD
    <2>1. /\ pc = "open" /\ pc' = "kcd" /\ opened' = opened + 1 /\ command' = command
      BY <1>4, OpensIs DEF LoadKCD
    <2>2. opened' - 1 = opened
      BY <1>1, <2>1
    <2> QED
      BY <2>1, <2>2 DEF OpenedInv
  <1>5. CASE ParseKCD
    <2>1. UNCHANGED << command, opened, pc >>
      BY <1>5 DEF ParseKCD
    <2> QED
      BY <2>1 DEF OpenedInv
  <1>6. CASE MergeLoaded
    <2>1. /\ pc = "kcd" /\ phase = "done" /\ pc' = "open"
          /\ command' = command /\ opened' = opened
      BY <1>6 DEF MergeLoaded
    <2>2. Loads(command[opened])
      BY <2>1 DEF Loads, CommandTypeOK, KcdInv, LoadsIffResolvable
    <2>3. \A k \in 1 .. opened : k \in 1 .. opened - 1 \/ k = opened
      BY <1>1
    <2>4. \A k \in 1 .. opened : Loads(command[k])
      BY <2>1, <2>2, <2>3 DEF OpenedInv
    <2> QED
      BY <2>1, <2>4 DEF OpenedInv
  <1>7. CASE Terminate
    <2>1. /\ pc = "kcd" /\ phase \in {"thrown", "undefined"} /\ pc' = "terminated"
          /\ command' = command /\ opened' = opened
      BY <1>7 DEF Terminate
    <2>2. opened \in DOMAIN command /\ ~ Loads(command[opened])
      BY <2>1 DEF Loads, CommandTypeOK, KcdInv, LoadsIffResolvable
    <2> QED
      BY <2>1, <2>2 DEF OpenedInv
  <1>8. CASE WriteDBC
    <2>1. /\ pc = "open" /\ opened = Len(command) /\ pc' = "written"
          /\ command' = command /\ opened' = opened
      BY <1>8 DEF WriteDBC
    <2> QED
      BY <2>1 DEF OpenedInv
  <1>9. CASE UNCHANGED command_vars
    BY <1>9 DEF command_vars, OpenedInv
  <1> QED
    BY <1>3, <1>4, <1>5, <1>6, <1>7, <1>8, <1>9 DEF CommandNext

(* dbc2: the half of CommandEnds that says how it ends, for every command   *)
(* line.                                                                    *)
THEOREM CommandEndsRightAlways == CommandSpec => []CommandEndsRight
  <1>1. CommandInit => OpenedInv
    <2> SUFFICES ASSUME CommandInit PROVE OpenedInv
      OBVIOUS
    <2>1. pc = "open" /\ opened = 0
      BY DEF CommandInit
    <2> QED
      BY <2>1 DEF OpenedInv
  <1>2. CommandTypeOK /\ KcdInv /\ OpenedInv /\ [CommandNext]_command_vars => OpenedInv'
    BY OpenedStep
  <1>3. CommandTypeOK /\ OpenedInv => CommandEndsRight
    BY CommandIs DEF CommandTypeOK, OpenedInv, CommandEndsRight
  <1> QED
    BY CommandTypes, CommandRunsLoader, Invariance, <1>1, <1>2, <1>3, PTL DEF CommandSpec

-----------------------------------------------------------------------------
(* That dbc2 stops. Fairness is not needed for this half of CommandEnds:    *)
(* each step leads down in a well-founded order.                            *)

(* What is still to be done: files, the loading and merging of one, its     *)
(* phases, nodes, buses, and messages of a bus.                             *)
BusesLeft  == Len(doc.buses) + 1 - bus
Parsing(p) == pc = "kcd" /\ phase = p
CommandLeft ==
    << Len(command) - opened,
       IF pc = "kcd" THEN 2 ELSE IF pc = "open" THEN 1 ELSE 0,
       IF Parsing("root") THEN 3
         ELSE IF Parsing("nodes") THEN 2 ELSE IF Parsing("networks") THEN 1 ELSE 0,
       IF Parsing("nodes") THEN Len(doc.nodes) - Len(nodes) ELSE 0,
       IF Parsing("networks") THEN BusesLeft ELSE 0,
       IF Parsing("networks") /\ bus <= Len(doc.buses)
         THEN Len(doc.buses[bus].messages) - Len(messages) ELSE 0 >>
CommandRanks == [ 1 .. 6 -> Nat ]
Below6 == LexProductOrdering(OpToRel(<, Nat), Nat, 6)

(* dbc2, KCD: every step leads down.                                        *)
CommandStepsDown == [][(<< CommandLeft', CommandLeft >> \in Below6)]_command_vars

(* There is no infinite way down.                                           *)
LEMMA Below6WellFounded == IsWellFoundedOn(Below6, CommandRanks)
  BY NatLessThanWellFounded, WFLexProductOrdering DEF Below6, CommandRanks

(* Down at the first place where two ranks differ.                          *)
LEMMA DownAt ==
    ASSUME NEW a \in CommandRanks, NEW b \in CommandRanks, NEW k \in 1 .. 6,
           a[k] < b[k], \A j \in 1 .. k - 1 : a[j] = b[j]
    PROVE  << a, b >> \in Below6
  <1>1. << a[k], b[k] >> \in OpToRel(<, Nat)
    BY DEF OpToRel, CommandRanks
  <1> QED
    BY <1>1 DEF Below6, LexProductOrdering, CommandRanks

(* Six numbers are a rank.                                                  *)
LEMMA SixNumbers ==
    ASSUME NEW a \in Nat, NEW b \in Nat, NEW c \in Nat, NEW d \in Nat,
           NEW e \in Nat, NEW f \in Nat
    PROVE  << a, b, c, d, e, f >> \in CommandRanks
  BY DEF CommandRanks

(* What is to be done is counted in numbers.                                *)
LEMMA CommandLeftIs ==
    ASSUME CommandTypeOK, KcdInv
    PROVE  CommandLeft \in CommandRanks
  <1>1. Len(command) - opened \in Nat
    <2>1. Len(command) \in Nat /\ opened \in 0 .. Len(command)
      BY CommandIs DEF CommandTypeOK
    <2> QED
      BY <2>1
  <1>2. (IF pc = "kcd" THEN 2 ELSE IF pc = "open" THEN 1 ELSE 0) \in Nat
    OBVIOUS
  <1>3. (IF Parsing("root") THEN 3
           ELSE IF Parsing("nodes") THEN 2 ELSE IF Parsing("networks") THEN 1 ELSE 0) \in Nat
    OBVIOUS
  <1>4. Len(doc.nodes) - Len(nodes) \in Nat
    <2>1. Len(doc.nodes) \in Nat /\ Len(nodes) \in Nat /\ Len(nodes) <= Len(doc.nodes)
      BY DocumentParts DEF KcdInv, TypeOK, NodesInv
    <2> QED
      BY <2>1
  <1>5. ASSUME phase = "networks"
        PROVE  /\ Len(doc.buses) + 1 - bus \in Nat
               /\ bus <= Len(doc.buses) =>
                     Len(doc.buses[bus].messages) - Len(messages) \in Nat
    <2>1. /\ Len(doc.buses) \in Nat /\ bus \in Nat \ {0} /\ bus <= Len(doc.buses) + 1
          /\ Len(messages) \in Nat
      BY <1>5, DocumentParts DEF KcdInv, TypeOK, BusesInv
    <2>2. ASSUME bus <= Len(doc.buses)
          PROVE  /\ Len(doc.buses[bus].messages) \in Nat
                 /\ Len(messages) <= Len(doc.buses[bus].messages)
      BY <1>5, <2>1, <2>2, DocumentParts DEF KcdInv, TypeOK, BusesInv
    <2> QED
      BY <2>1, <2>2
  <1>6. (IF Parsing("nodes") THEN Len(doc.nodes) - Len(nodes) ELSE 0) \in Nat
    BY <1>4
  <1>7. /\ (IF Parsing("networks") THEN BusesLeft ELSE 0) \in Nat
        /\ (IF Parsing("networks") /\ bus <= Len(doc.buses)
              THEN Len(doc.buses[bus].messages) - Len(messages) ELSE 0) \in Nat
    BY <1>5 DEF Parsing, BusesLeft
  <1> QED
    BY <1>1, <1>2, <1>3, <1>6, <1>7, SixNumbers, Zenon DEF CommandLeft

(* One more of a number leaves less.                                        *)
LEMMA OneLess ==
    ASSUME NEW n \in Int, NEW k \in Int
    PROVE  n - (k + 1) < n - k
  OBVIOUS

(* The same after the last one.                                             *)
LEMMA OneBusLess ==
    ASSUME NEW n \in Int, NEW a \in Int, NEW b, b = a + 1
    PROVE  n + 1 - b < n + 1 - a
  OBVIOUS

(* A document is parsed to its end.                                         *)
LEMMA ParseStepsDown ==
    ASSUME KcdInv, ParseKCD
    PROVE  \E k \in 1 .. 6 : /\ CommandLeft'[k] < CommandLeft[k]
                             /\ \A j \in 1 .. k - 1 : CommandLeft'[j] = CommandLeft[j]
  <1>1. /\ pc = "kcd" /\ Parse /\ UNCHANGED << command, opened, pc >>
    BY DEF ParseKCD
  <1>2. doc' = doc
    BY <1>1 DEF Parse, parseNetworkDefinition, parseNode, NodesParsed, parseMessage,
                parseNetwork, NetworksParsed
  <1>3. CommandLeft'[2] = CommandLeft[2] /\ CommandLeft'[1] = CommandLeft[1]
    BY <1>1 DEF CommandLeft
  <1>4. CASE \/ phase = "root" /\ phase' \in {"nodes", "thrown"}
             \/ phase = "nodes" /\ phase' \in {"networks", "thrown"}
             \/ phase = "networks" /\ phase' \in {"done", "thrown", "undefined"}
    <2>1. CommandLeft'[3] < CommandLeft[3]
      BY <1>1, <1>4 DEF CommandLeft, Parsing
    <2> QED
      BY <1>3, <2>1
  <1>5. CASE phase = "nodes" /\ phase' = phase /\ Len(nodes') = Len(nodes) + 1
    <2>1. CommandLeft'[3] = CommandLeft[3]
      BY <1>1, <1>5 DEF CommandLeft, Parsing
    <2>2. CommandLeft'[4] < CommandLeft[4]
      <3> DEFINE n == Len(doc.nodes)
                 k == Len(nodes)
      <3>1. n \in Int /\ k \in Int
        BY DocumentParts DEF KcdInv, TypeOK
      <3>2. CommandLeft'[4] = n - (k + 1) /\ CommandLeft[4] = n - k
        BY <1>1, <1>2, <1>5 DEF CommandLeft, Parsing
      <3> HIDE DEF n, k
      <3> QED
        BY <3>1, <3>2, OneLess
    <2> QED
      BY <1>3, <2>1, <2>2
  <1>6. ASSUME phase = "networks", phase' = phase
        PROVE  CommandLeft'[4] = CommandLeft[4] /\ CommandLeft'[3] = CommandLeft[3]
    BY <1>1, <1>6 DEF CommandLeft, Parsing
  <1>7. CASE phase = "networks" /\ phase' = phase /\ bus' = bus + 1
    <2>1. CommandLeft'[5] < CommandLeft[5]
      <3>1. Len(doc.buses) \in Int /\ bus \in Int
        BY DocumentParts DEF KcdInv, TypeOK
      <3>2. BusesLeft' < BusesLeft
        <4> DEFINE n == Len(doc.buses)
        <4>1. n \in Int
          BY <3>1
        <4>2. BusesLeft = n + 1 - bus
          BY Zenon DEF BusesLeft
        <4>3. BusesLeft' = n + 1 - bus'
          BY <1>2, Zenon DEF BusesLeft
        <4> HIDE DEF n
        <4>4. bus \in Int /\ bus' = bus + 1
          BY <1>7, <3>1
        <4>5. n + 1 - bus' < n + 1 - bus
          BY ONLY <4>1, <4>4, OneBusLess, Zenon
        <4> QED
          BY <4>2, <4>3, <4>5, Zenon
      <3>3. CommandLeft'[5] = BusesLeft' /\ CommandLeft[5] = BusesLeft
        BY <1>1, <1>7 DEF CommandLeft, Parsing
      <3> QED
        BY <3>2, <3>3
    <2> QED
      BY <1>3, <1>6, <1>7, <2>1
  <1>8. CASE /\ phase = "networks" /\ phase' = phase /\ bus' = bus
             /\ bus <= Len(doc.buses) /\ Len(messages') = Len(messages) + 1
    <2>1. CommandLeft'[5] = CommandLeft[5]
      BY <1>1, <1>2, <1>8 DEF CommandLeft, Parsing, BusesLeft
    <2>2. CommandLeft'[6] < CommandLeft[6]
      <3> DEFINE n == Len(doc.buses[bus].messages)
                 k == Len(messages)
      <3>1. n \in Int /\ k \in Int
        BY <1>8, DocumentParts DEF KcdInv, TypeOK
      <3>2. CommandLeft'[6] = n - (k + 1) /\ CommandLeft[6] = n - k
        BY <1>1, <1>2, <1>8 DEF CommandLeft, Parsing
      <3> HIDE DEF n, k
      <3> QED
        BY <3>1, <3>2, OneLess
    <2> QED
      BY <1>3, <1>6, <1>8, <2>1, <2>2
  <1>9. CASE parseNetworkDefinition \/ NodesParsed \/ NetworksParsed
    BY <1>4, <1>9 DEF parseNetworkDefinition, NodesParsed, NetworksParsed
  <1>10. CASE parseNode
    <2>1. phase = "nodes"
      BY <1>10 DEF parseNode
    <2>2. CASE phase' = "thrown"
      BY <1>4, <2>1, <2>2
    <2>3. CASE phase' = phase
      <3>1. \E node : nodes' = Append(nodes, node)
        BY <1>10, <2>1, <2>3 DEF parseNode
      <3>2. nodes \in Seq(NodeRecord)
        BY DEF KcdInv, TypeOK
      <3>3. Len(nodes') = Len(nodes) + 1
        BY <3>1, <3>2
      <3> QED
        BY <1>5, <2>1, <2>3, <3>3
    <2> QED
      BY <1>10, <2>2, <2>3 DEF parseNode
  <1>11. CASE parseMessage
    <2>1. phase = "networks" /\ bus' = bus /\ bus <= Len(doc.buses)
      BY <1>11 DEF parseMessage
    <2>2. CASE phase' \in {"thrown", "undefined"}
      BY <1>4, <2>1, <2>2
    <2>3. CASE phase' = phase
      <3>1. \E message : messages' = Append(messages, message)
        BY <1>11, <2>1, <2>3 DEF parseMessage
      <3>2. messages \in Seq(Made)
        BY DEF KcdInv, TypeOK
      <3>3. Len(messages') = Len(messages) + 1
        BY <3>1, <3>2
      <3> QED
        BY <1>8, <2>1, <2>3, <3>3
    <2> QED
      BY <1>11, <2>2, <2>3 DEF parseMessage
  <1>12. CASE parseNetwork
    BY <1>7, <1>12 DEF parseNetwork
  <1> QED
    BY <1>1, <1>9, <1>10, <1>11, <1>12 DEF Parse

(* A file that was opened is done with, and then the command.               *)
LEMMA CommandDown ==
    ASSUME CommandTypeOK, KcdInv, CommandNext
    PROVE  \E k \in 1 .. 6 : /\ CommandLeft'[k] < CommandLeft[k]
                             /\ \A j \in 1 .. k - 1 : CommandLeft'[j] = CommandLeft[j]
  <1>1. CASE SkipFile \/ LoadDBC \/ LoadKCD
    <2>1. /\ \E kind \in {"unopened", "other", "dbc", "kcd"} : Opens(kind)
          /\ command' = command
      BY <1>1 DEF SkipFile, LoadDBC, LoadKCD
    <2>2. opened' = opened + 1
      BY <2>1, OpensIs
    <2>3. CommandLeft'[1] < CommandLeft[1]
      <3> DEFINE n == Len(command)
      <3>1. n \in Int /\ opened \in Int
        BY CommandIs DEF CommandTypeOK
      <3>2. CommandLeft'[1] = n - (opened + 1) /\ CommandLeft[1] = n - opened
        BY <2>1, <2>2 DEF CommandLeft
      <3> HIDE DEF n
      <3> QED
        BY <3>1, <3>2, OneLess
    <2> QED
      BY <2>3
  <1>2. CASE ParseKCD
    BY <1>2, ParseStepsDown
  <1>3. CASE MergeLoaded \/ Terminate \/ WriteDBC
    <2>1. /\ command' = command /\ opened' = opened
          /\ \/ pc = "kcd" /\ pc' \in {"open", "terminated"}
             \/ pc = "open" /\ pc' = "written"
      BY <1>3 DEF MergeLoaded, Terminate, WriteDBC
    <2>2. CommandLeft'[2] < CommandLeft[2] /\ CommandLeft'[1] = CommandLeft[1]
      BY <2>1 DEF CommandLeft
    <2> QED
      BY <2>2
  <1> QED
    BY <1>1, <1>2, <1>3 DEF CommandNext

(* dbc2 stops for every command line and all documents: what is left to do  *)
(* goes down in a well-founded order with every step.                       *)
THEOREM CommandStepsDownAlways ==
    /\ IsWellFoundedOn(Below6, CommandRanks)
    /\ CommandSpec => [](CommandLeft \in CommandRanks) /\ CommandStepsDown
  <1>1. CommandTypeOK /\ KcdInv => CommandLeft \in CommandRanks
    BY CommandLeftIs
  <1>2. ASSUME CommandTypeOK, KcdInv, CommandLeft \in CommandRanks,
               (CommandLeft \in CommandRanks)', [CommandNext]_command_vars
        PROVE  [(<< CommandLeft', CommandLeft >> \in Below6)]_command_vars
    <2> SUFFICES ASSUME CommandNext PROVE << CommandLeft', CommandLeft >> \in Below6
      BY <1>2
    <2>1. \E k \in 1 .. 6 : /\ CommandLeft'[k] < CommandLeft[k]
                            /\ \A j \in 1 .. k - 1 : CommandLeft'[j] = CommandLeft[j]
      BY <1>2, CommandDown
    <2> HIDE DEF CommandLeft
    <2> QED
      BY <1>2, <2>1, DownAt
  <1>3. CommandSpec => [](CommandLeft \in CommandRanks) /\ CommandStepsDown
    BY CommandTypes, CommandRunsLoader, Invariance, <1>1, <1>2, PTL
    DEF CommandSpec, CommandStepsDown
  <1> QED
    BY <1>3, Below6WellFounded
=============================================================================
