# A verification of dbcppp

dbcppp is a C++ library that loads descriptions of CAN networks (DBC and KCD files), keeps them as
objects, decodes and encodes the signals of CAN frames, and writes the networks as DBC, C or text.
It is a sequential library: no threads, no I/O beyond the streams it is given, no state but the
objects it hands out. What is hard about it is arithmetic at the edges of words and frames, the order
in which things in a file find their owner, what a round trip through a file keeps, and which object
owns which.

## The parts of the system

| part | state | operations | talks to | what makes it correct |
| --- | --- | --- | --- | --- |
| signal codec, `src/src/SignalImpl.cpp` | the geometry of a signal and, derived once by the constructor, an error flag, byte position, shifts, masks and the decoder chosen; the user's frame buffer | `ISignal::Create`, `Decode`, `Encode`, `RawToPhys`, `PhysToRaw`, `Error` | the user's buffer, shared by all signals of a message | the optimised decoder is the bit walk of the layout; a size error is raised exactly when a bit is outside; encoding touches its own bits only and reads back |
| DBC loader, `DBCAST2Network.cpp` | the parsed file, caches keyed by owner | `LoadDBCFromIs` | the parser, the `Create` functions | every object gets the entries that name it, and no others |
| DBC parser, `DBCX3.cpp`, `DBCX3.h` | none | `ParseFromMemory` | | accepts what the writer writes |
| DBC writer, `Network2DBC.cpp` | none | `operator<<` | | what is written is loaded again as the same network |
| networks, `NetworkImpl.cpp`, `MessageImpl.cpp`, ... | lists of nodes, messages, ... by value | `Create`, `Clone`, `Merge`, `operator==`, `ParentMessage` | | copies are equal to what they are copied from; merging loses nothing |
| decode tool, `src/tools/dbcppp/main.cpp` | the networks of the buses, an 8-byte buffer reused for all lines | `dbcppp decode` | loader, codec | prints for a frame the signals its multiplexers select, from its own bytes |
| convert tool, same file | a network | `dbcppp dbc2` | both loaders, `Merge`, the printers | what is written has what is in the files, of all of them, and is a file that loads again |
| KCD loader, `KCD2Network.cpp` (option `ENABLE_KCD`) | a map of nodes and a map of networks, filled while the tree is walked | `LoadKCDFromIs` | the `Create` functions, `dbc2` | a document loads exactly if its references can be resolved, and then every one of them names a node of its network |
| C API, `CApi.cpp` | none; the handles the user holds | `dbcppp_*Create`, `*Free`, `*_Get`; no `Clone`, no `Merge` | all of the above | every object is freed once, and not used afterwards |
| C generator, `Network2C.cpp` | none | `operator<<` | fields of `SignalImpl` | the generated decoder is the library's |
| text printer, `Network2Human.cpp` | a cursor that walks the bits of a message | `operator<<` | `dbc2` | a bit is drawn as that of the signal it belongs to, every signal is labelled and is in the tree, for every message |

## Modules

### The signal codec (modelled, checked and proved)

* `BitWords`: `uint64_t` words and byte buffers as sets of bit positions. `&`, `|` are set operations;
  shifts, byte swaps and loads rename positions, so that a shift loses what it shifts out.
* `SignalImpl`: the constructor (`Errors`, `Alignment`, `BytePos`, `FixedStartBit0`, `Mask`, ...), each
  operator one computed member; `Decode` with the variants of `template_decode`; `WalkStart`,
  `WalkNext`, `PutBit`, the parts of the loop of `encode`; and `EasyDecode`, the decoder of
  `tests/DecodingTest.cpp`, as reference.
* `SignalFrame`: the signals of a message and the buffer they share as a state machine. `EncodeCall`,
  `EncodeBit` and `EncodeReturn` are `encode` iteration by iteration; `CreateSignal` is
  `ISignal::Create`; `ReceiveFrame` is the user copying a frame into the buffer. The history variable
  `written` remembers what each signal was last encoded with.
* `MessageRegisters`: the abstract promise: every signal is a register; a store changes what it and
  those sharing bits with it read as, and nothing else. `SignalFrame` implements it under the refinement
  mapping `Registers` (a register is readable when `written` says so, its value is what `Decode`
  returns).

### Loading, keeping and writing networks

* `DbcAst`: the owners statements name. `DbcLoader`: the three cache loops of `DBCAST2Network`, one action per
  iteration, and the assembly of the declared objects. Caches hold indices into the parsed
  file where the code holds pointers.
* `DbcFile`: a file as a sequence of statements; `Accepts` is the grammar's sections and lists, `Load` all
  get functions of `DBCAST2Network`. `DbcWriter`: `Write`, every loop of `Network2DBC`'s `operator<<`
  in its order. `NetworkImpl`: `Clone`, `Merge` and the `operator==` of all classes.
* `DbcRoundTrip`: what comes back from a file. `Writable` says which networks are written as a DBC file at all, `Named`
  and `ReadAsWritten` which of them keep their names and their texts in it, `Representable` which come back as `Pooled`:
  the network itself, except that objects of one name share what was written for all of them. `DbcFile!LeftOnStack` is
  what an uninitialised `var_type` may be.
* `DbcSession`: a user who loads files, clones, merges, writes and loads again.
* `KcdLoader`: class `KCD`. `LoadKCDFromIs` and `parseDefinition` begin, then there is one action for each node,
  each message and each bus (`ParseNode`, `ParseMessage`, `ParseNetwork`), in the order of the document; a reference that
  is looked up with `at` ends in `"thrown"`, one that is dereferenced without a test in `"undefined"`. A
  document is what libxmlmm finds in the file.
* `DbcConvert`: `dbcppp dbc2` over the two loaders: `LoadNetworkFromFile` for each file of the command line, with
  the steps of `KcdLoader`, which it extends, for those named `.kcd`, the merging and the writing.

What the conversions copy without looking into (a number, a geometry, the limits of a variable) is one opaque
value. Texts and names are opaque, too, except for what happens to them in a file, which is given by three constants:

* `QuotedTexts`: the parser undoes escapes (`quoted_string`, `DBCX3.cpp:142`), the writer makes none. A text with a quotation
  mark in it, or a backslash at its end, does not end where it should, and the file is refused. All the texts between quotation
  marks are followed: the version, comments, descriptions, units of signals and variables (`Network2DBC.cpp:520`,
  `:232`), names and values of attributes (`:40`, `:26`), names and `ENUM` values of attribute definitions (`:207`, `:181-184`).
* `Misread`: of a text with another escape in it (two backslashes in a row) one character is lost with each reload.
* `FreeNames`: where the grammar wants a name it takes a C identifier (`DBCX3.cpp:143`), with any blanks before it, but the name
  of a message or a node in a KCD file is any text. The nodes `Motor ACME` and `Brake alternative supplier` of
  `tests/test_files/kcd/the_homer.kcd:33-37` and of `Test.kcd` are written raw into `BU_:`, which is read back as
  the nodes `Motor`, `ACME`, ...; where one of them is the sender of a message, its transmitter or the receiver of a
  signal, the file is refused.

Three things are left out. A text made to pass for the rest of its line (a description `x" 2 "y` is read as two) and a name with
`//` in it, the beginning of a comment, are excluded by the comment on the assumptions of `DbcFile`. The names of
*signals* in a KCD file are taken to be identifiers (`TextsAssumption` of `DbcConvert`), as they are in the repository's files: one of
two words would be read back as a name and a multiplexer indicator.

No `SGTYPE_` line is ever written: the loop over the signal types writes the value table again
(`Network2DBC.cpp:324-330`), in a place where the grammar has no tables. A network with a table that has both a signal type and a
description is not `Writable` for this, unless nothing stands between the two places; the signal type is lost in
any case.

### Objects and their owners

* `ObjectHeap`: memory as blocks of cells. An object handed out is alone in its block; the members of a
  list are in a buffer named by the object, the list and how often `Merge` reallocated it, so that the
  address of an object is a block and an index. `Transfer` is the move of the passed objects into a
  list, `MuxSignal` the pointer the constructor of `MessageImpl` sets, `CopiedMux` what its copy
  constructor does to it, `Reach` what a destructor takes along.
* `NetworkObjects`: the caller of the C interface. One action for each `dbcppp_*Create` and `Free`,
  `Clone` and `Merge`, which only C++ offers, and `ParentMessage`. The caller passes a handle once and releases
  only what it holds; the `unique_ptr`s of the arguments null the handles it passed, except those taken by value,
  which it forgets itself. Whether `Merge` reallocates a list is a choice made for each list.
* `ObjectTrees`: the abstract promise: a caller holds trees of objects; creating joins the trees passed,
  freeing takes one away, and no tree is in two hands. `NetworkObjects` implements it.

### The C generator

* `Network2C`: the function generated for a signal: the macros of the generated file, the case analysis of the
  generator (its own conditions on the members of `SignalImpl`, not the `alignment` the constructor
  chose) and the two forms of the body. `SignalFrame_proofs` compares it with `Decode`.

### The decode tool

* `DecodeTool`: `dbcppp decode` from the command line to the last line of input: `AddBus` and
  `Insert` for the `--bus` options, `ReadLine` and `SkipLine` for a line, `Filled` for the buffer that is
  not cleared between lines, `PrintSignal` for the loop over the signals and `BeginCheck`, `Check` and
  `Recurse` for `check_signal_multiplexer_values` with its recursion. A signal is one byte of the frame;
  `SignalFrame` is about the others. `Selected`, what the file says is in a frame, is the least set of
  signals closed under the rules of the file.

### The text printer

* `Network2Human`: the layout of each message, cell by cell (`PrintCell`) and label by label (`PrintLabel`), with the
  cursor `i_bit` as the unsigned number it is, wrapping around at `WordSize`; `find_cur_sig`, `bit_is_inbetween`
  and the filter of what was printed; and `SignalTree`, the recursion over the switches. What is printed is a
  history of cells and labels, which the properties compare with the bits of the signals.

## Runs

| run | what it explores | bounds, and why they are enough |
| --- | --- | --- |
| `signal_geometry` | one signal in a 13-byte message: `DecodeIsBitWalk`, `ErrorIffOutsideFrame`, `ShiftsDefined`, and `GeneratedDecodesAlike` for the generated C function | every start bit, the sizes around each multiple of 8 that changes the alignment, both byte orders, all value types; eight frames that give every bit of the buffer a distinct pattern, so that a bit taken from elsewhere shows; memory behind the buffer all 0 and all 1 |
| `signal_frame` | two signals in a 9-byte frame: `TypeOK`, `EncodedValueReadsBack`, `EncodeInBounds`, `EncodeKeepsOtherBits`, `ImplementsRegisters`, `EncodeReturns` | five geometries: two over nine bytes, one adjacent, one inside, one outside the frame; two complementary values |
| `dbc_loader` | `TypeOK`, `NetworkIsOwnerScan` | up to two entries in each of the lists: enough for two entries of one owner, in either order, and for entries of different ones |
| `dbc_session` | one network or two: `SavedReloads`, `SavedParsesIffWritable`, `SavingSettles`, `CopiesCompareEqual` | three more statements of thirty-four for one file, so that an attribute, its object and a third thing meet, two for a pair of files that share all names or none; clone and merge in any order before saving, two saves; one file has no message, since a value table that has a signal type is in its place when nothing stands between the two places it is written at; quotation marks in units, a comment, a description, the name of an attribute and the name and an `ENUM` value of an attribute definition, backslashes in the value of an attribute |
| `decode_tool` | `TypeOK`, `PrintedOnlySelected`, `AllSelectedPrinted`, `EveryLineAnswered` | two lines, so that one leaves its bytes for the next; two buses, three options; switches nested two deep, ranges, a cycle |
| `dbc2` | `ReferencesDeclared`, `LoadsIffResolvable`, `NetworksAreBuses`, `AutoSizeHoldsSignals`, `ConvertedReadsBack`, `ConvertsEveryFile`, `CommandEnds` | command lines of up to two files, so that the second meets what the first left behind; documents with two buses of one name, two nodes of one id and none, undeclared senders and receivers, automatic sizes, a multiplexor; names of nodes and messages that are empty, of two words, with a blank before them, or no identifier at all, texts with quotation marks and backslashes; files that are missing, of no kind, or with an error |
| `human` | `CursorAligned`, `LayoutShowsSignals`, `TreeIsComplete`, `PrintEnds` | messages of up to three bytes, so that a row has one before and one after it, and two-byte ones with every pair of twenty signals; a word of 16 bits for the cursor, which only has to be longer than a message |
| `object_owners` | the caller of the C interface: `TypeOK`, `HandlesAreLive`, `OneOwner`, `ImplementsTrees` | five objects of any of the eleven kinds: a network needs a bit timing, so that a signal in a message in a network is the longest nesting, with one more object to be in the way; arrays of up to two, so that the second of them shows a swapped or forgotten one |
| `object_addresses` | `MuxSignalIsOwn`, `ParentMessageFinds`, `PartsStayPut`, `KeepsTrees` | either five objects built from signals of every multiplexer indicator, or two loaded networks, of five objects each, that are cloned up to twice, merged in any direction, with and without reallocation, and released |
| `object_places`, `generated_compiles`, `human_big_endian` | expected violations | see Findings |

Deadlock is not checked in `dbc_*`, `object_*`, `decode_tool`, `dbc2` and `human*`: a load ends, a session ends, a bounded
caller has made its last object, and the tool stops at the end of its input, its command line or its network.

Every property has a mutant, a definition beside the one it replaces (`Merge_OtherFirst`,
`EncodeBit_ContinuesEarly`, ...), under which its run finds it violated.

### Fairness

`SignalFrame!FairSpec` has weak fairness of `EncodeBit` and `EncodeReturn`: a call of a function, once
entered, is executed by its thread. Nothing obliges the user to make a call. `DecodeTool` likewise has weak
fairness of the steps of the program between reading a line and being done with it; nothing obliges input to
arrive. `EveryLineAnswered` is conditional on the file having no cycle of switches: with one,
`check_signal_multiplexer_values` recurses for ever, as the code does. `DbcConvert!FairSpec` and the specification of
`Network2Human` have weak fairness of all steps: a command without input to wait for is one thread that is
not held up.

## Findings

* `object_places`: `dbcppp_NetworkCreate` moves the attribute values it is passed into the list of the
  attribute defaults; the network created has no values, and defaults nobody declared.
* `generated_compiles`: for a little endian signal over nine bytes the generator writes
  `data |= data1;)`, which no compiler accepts.
* `human_big_endian`: the printer walks a big endian signal in the direction opposite to the codec's, so that one
  over two bytes is shown at bits it is not decoded from.

Observations without a run of their own, which are in the models as the code has them: against `Signal.h:104`, the
decoder loads 8 bytes from the byte a signal starts in, in a frame longer than 8 bytes past its end (what it reads there
does not matter, which `DecodeIsBitWalk` shows); a text with a quotation mark is written unescaped and not
read back, one with two backslashes is read back with one; a node of a KCD file whose name has blanks is read back as several nodes; no `SGTYPE_` line
is written; a bit timing with a zero is not written; attributes of two messages of one id are given to both;
a KCD message without a producer is undefined behaviour; `operator==` is not symmetric; the test of a range of switch values is right for ranges of one
value only.

## Proofs

`tlapm` checks every proof; nothing is assumed beyond the ASSUMEs of the modules, which TLC evaluates in the
runs.

* `SequenceLemmas`: what the others need of sequences. The prover has no induction over data that can be used for
  a given operator; a set of numbers that is not empty has a least element (`LeastNumber`), though, and a least counterexample
  has none before it. With that `FlattenSeq` is shown to be what its recursive equations say (`FlattenSeqIs`), of the type
  of the parts (`FlattenSeqType`), and to list each thing once if the parts do and are apart (`ListsFlattened`).
  Every element of a part has its place in the whole and the other way round (`FlattenPlaces`), from which follow
  that flattening commutes with mapping and selecting; lists chosen from, joined and nested are the lists of `DbcWriter`.
* `SignalFrame_proofs`, the arithmetic. Positions in big endian are turned around by `FromTop`, an involution that
  is also what the byte swap does; `WindowLE` and `WindowBE` show that the loaded word holds the
  signal for each alignment, `OneWord*` and `Split*` that shifting and masking leave its bits, and
  `DecodeCorrect` puts them together with sign extension. `ErrorExact` is the size check, `WalkNextAddress` one
  iteration of the encoder.
* `SignalFrame_proofs`, the state machine: `IInv` strengthens `TypeOK` by what the loop has done so far: the bits of the signal it has
  passed have the value's bits, all others are those of the buffer it was entered with, and for every signal of
  `written` the frame holds the value. `Invariance` shows it inductive, one lemma per action. From it follow
  `TypeOK`, `EncodeInBounds`, `EncodedValueReadsBack`, `DecodeIsBitWalk`, `ErrorIffOutsideFrame`,
  `ShiftsDefined`, the action property `EncodeKeepsOtherBits`, and `RegistersImplemented`, the refinement of
  `MessageRegisters`. All hold for every set of geometries of 1 to 64 bits, every message size and any number of
  signals.
* `SignalFrame_proofs`, the generated decoder: `GeneratedDecodesAlike` for every geometry and buffer. The conditions of the generator are
  shown to be those of the constructor, the nested swap macros to reverse the bytes of a word; the rest is the
  same masks and shifts. A float may have other bits above its 32, which the generated function does not
  cut off: `GeneratedFloatProlonged` says that it returns the signal prolonged to the end of the word loaded, and so the
  value of the library exactly if the bits of that word after the signal are 0.
* `DbcLoader_proofs`: `IInv` says of each cache that it holds what a scan of the entries handled so far gives
  (`NamingUpTo`, `IsLastUpTo`), and that the loops that are over have handled all. `TypeOK` and
  `NetworkIsOwnerScan` follow for every file.
* `DbcWriter_proofs` and, for what is read back and for sessions, `DbcSession_proofs`: `IsNetwork` says what every network has that
  the loader builds (`LoadIsNetwork`) and that `Merge` and `Clone` keep (`MergeIs`, `CloneIs`): a non-data variable has no size, an attribute is of the type of its owner, a
  signal has a switch value only if it is switched. The file written for one is a parsed file (`WriteParsed`). Its
  sections, loops over objects with loops over their parts, are turned into lines, each of a named object with what it says
  (`Said`, `ObjectLines`); then what a file has about a name is what the objects of that name, its twins, say one
  after the other (`AboutObjects`, `AboutNested`). From there: the grammar accepts the file exactly if the network is
  `Writable` (`WriteAccepted`); what is read from it is `Reloaded` (`LoadWritten`), which for a `Representable` network
  is `Pooled` (`RepresentableReloads`); and `Reloaded` is written as the same file if names are unique (`WritingSettles`). The
  inductive invariant `SessionInv` says that files are parsed ones, that every slot holds such a network and that `saved`
  was written for `origin`, another one. `SavedParsesIffWritable`, `SavedReloads`, `SavingSettles` and `CopiesCompareEqual`
  follow for every set of files and statements, any number of slots and of saves. Of the constants only `FilesAssumption`
  (files and statements are what the parser returns) and the assumptions on `QuotedTexts`, `Misread` and `FreeNames` are
  used: the empty text is read back as it is, what is read instead of a text or a name is one, and the words of a free
  name are no free names. That names are identifiers is not part of `IsNetwork`, since those of a KCD file need not be: `WriteAccepted`
  holds for these, too; `LoadWritten` needs `Named` and that no text has an escape, both of which `Representable` implies.
  Of `operator==` as a relation `EqualsIsPreorder` says that it is reflexive and transitive; symmetric it is not, since its
  loops look for what the right side has: `CloneComparesBack` and `MergeComparesBack` say exactly when a clone, and the network
  before a merge, are equal to the original and to the network after it the other way round than
  `CopiesCompareEqual`. An earlier `Writable` said that no value table with a description has a signal type; the attempt to prove
  it showed that such a table is written and accepted if there is neither a message nor a variable, since the two places
  it is written at are adjacent then.
* `DbcSession_proofs`, the loader of KCD files: `KcdInv` describes the pass: what the nodes parsed so far have put into the map (`NodesInv`),
  which messages and buses are done and that their references were resolved (`MessagesInv`, `BusesInv`,
  `NetworksInv`), and that a pass that goes on has met nothing that cannot be resolved. `ReferencesDeclared` and
  `LoadsIffResolvable` follow for every document; `NetworksAreBuses` needs `FirstBusInv` on top of it: the network
  of a name is that of the first bus. `AutoSizeHoldsSignals` follows from `NetworksAreBuses` and `MadeHoldsDirect`: the size
  is the greatest end of the elements found, rounded up to bytes. A direct signal of the message is among them; those
  in a multiplexor need not be, as in the code.
* `DbcSession_proofs`, the conversion: every behaviour of `DbcConvert` is one of `KcdLoader` (`CommandRunsLoader`), so that
  the theorems about the loader hold while `dbc2` runs. The networks made from a document are such as a DBC file can
  declare (`MadeNetwork`, `KcdNetworks`), which is what the theorems above need to know of a network to say
  what is read back from the file written for it. `ConvertInv` says that the network merged into is one of these, too, and
  that its lists of messages and nodes are those of the files so far (`HasAll`); `SkipFileConverts`,
  `LoadDBCConverts` and `MergeLoadedConverts` are the steps. A map of networks is merged in the order of its names: the fold
  over them is unrolled one name at a time (`MergedAllIs`, `MergedAllAppends`). `ConvertedReadsBack` and
  `ConvertsEveryFile` follow for command lines of every length and any files. Assumed are `CommandsAssumption` (a command line
  is a list of files, with the contents the loaders are about) and `TextsAssumption` (no text of a document is the
  value that stands for one that does not end, and the names of signals are identifiers). The names are put in order by
  `Ascending`, since `SortSeq` is a primitive of TLC that the prover knows nothing of.
* `NetworkObjects_proofs`: `IInv` says that memory is well-formed: the parts of an object are of a lower
  kind (`ObjectsInv`), which is why following them ends; a number is given to one object (`NumbersInv`); every
  block is owned by a handle or by one list of one object (`OwnedInv`), is named after its owner (`BlocksInv`), and a handle
  owns a block of its own (`HandlesInv`); the `_mux_signal` of a message is the last switch of its own list (`MessagesInv`).
  Each of these is needed to show the others kept: a clone is fresh because numbers are, a list that `Merge` reallocates
  keeps its objects because no other list shares the block. `CreateKeeps`, `FreeKeeps`, `CloneKeeps` and `MergeKeeps`
  are the steps. `HandlesAreLive`, `OneOwner`, `MuxSignalIsOwn`, `ParentMessageFinds` and `PartsStayPut` follow for
  any number of objects, and `ImplementsTrees`: the tree of a handle is followed down its ranks, and `CreateMakes`,
  `FreeReleases`, `CloneDuplicates` and `MergeAbsorbs` show the steps to be those of `ObjectTrees`. `StepsKeepTrees` says the
  same of the steps from any well-formed memory.
* `Network2Human_proofs`: the cursor is unsigned and lies below 0 at the left of every first row, so that `IInv`
  speaks of its value up to a multiple of `WordSize`; `CursorAligned` holds for messages of every size.
  `TreeIsComplete`: `SignalTree` lists what it is given, each once (`SignalTreeLists`), by going down the
  values of a switch in ascending order (`BelowValuesLists`). `LayoutShowsSignals`: `LayoutInv` divides the
  passes over a message into finished ones, the current one and those to come. Of the finished ones and of the finished
  rows of the current one it says what the property says; of a row begun that the bits passed have a cell, that
  `depth` is the number of signals whose start was passed, and which of them have their label by now. `CellShown`,
  `RowShown`, `LabelPassed`, `ColumnPassed` and `LineShown` are the steps. `LayoutShowsSignals` is about signals that do not
  overlap. Of all others `LayoutShowsFirst` says that each bit of the message has one cell, which shows the first
  signal drawn there, and `LabelsBelowStarts` that no label names a signal of another value or, if it is little endian,
  stands anywhere but below its start bit; which labels are missing then is not stated. `PrintEndsRight` says that printing
  crashes at the first message with values and no switch, and nowhere else.
* `DecodeTool_proofs`: `IInv` relates the buses to the first option of each name, the buffer to the line, and
  the signal being checked to the one the loop is at: the former is selected only if the latter is, and with entries of
  one value if and only if. `WalkUp` and `WalkDown` show that one call of `check_signal_multiplexer_values` keeps
  this, since `Selected` is a fixed point (`SelectedFixed`). `TypeOK`, `PrintedOnlySelected` and `AllSelectedPrinted`
  follow for every file, with cycles of switches and without.

Every invariant, action property and refinement that a passing run checks is a theorem.

### Liveness

The liveness properties (`EncodeReturns`, `EveryLineAnswered`, `CommandEnds`, `PrintEnds`) as they stand are
only model-checked: that a fair step is possible until the end is a statement about `ENABLED`, which the prover does not
know. The rest of each is proved: that no behaviour, fair or not, goes on for ever.

| property | what leads down with each step | theorem |
| --- | --- | --- |
| `EncodeReturns` | the iterations left, a number | `EncodeStepsDownAlways` |
| `EveryLineAnswered` | the signals left of the message, then the place of the walk along the switches; `WalkWellFounded` derives from `Acyclic` that there is no infinite walk | `LineStepsDownAlways` |
| `CommandEnds` | files, loading and merging of one, phases of the loader, nodes, buses, messages | `CommandStepsDownAlways`; `CommandEndsRight` says which end it is |
| `PrintEnds` | messages, stages of one, values, rows, lines of a row, columns | `PrintStepsDownAlways`; `PrintEndsRight` says which end it is |

The orders are lexicographic, and well-founded by the theorems of the library `WellFoundedInduction`.

## Not modelled

* Floating point (`RawToPhys`, `PhysToRaw`, the physical part of a generated decoder), the digits of numbers in files and
  the conversion of attribute values between `int64_t` and `double`: TLA+ has no theory of them.
* Signals of 0 or more than 64 bits, start bits near 2^64, lines of more than 8 bytes: what the code does with them is
  undefined behaviour, and the assumptions of the modules exclude them. The `M` of an extended indicator
  such as `m3M`, which the loader drops.
* XML: what libxmlmm throws for a missing attribute, and the conversion of text to numbers. A KCD document of the
  model has the attributes the loader requires; nodes and references may be missing, ids and names of buses may occur twice.
* Undefined behaviour met by the KCD loader and the printer (a null pointer) is an outcome of its own that
  nothing follows.
* Signal groups and multiplexer values as objects in memory (C cannot create them), the accessors and iterators, and
  the text around a layout.

## Plan

Done, in this order: the signal codec, the DBC loader and the round trip, the decode tool, the objects and the C interface,
`Network2C`, `KcdLoader` with `dbc2`, `Network2Human`, the proofs about each of them, `operator==` as a relation, floats in
generated code, the layout of signals that overlap, and that loops end. Left: which labels of overlapping signals are
missing, and what is listed above as not modelled.
