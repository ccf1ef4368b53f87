-------------------------------- MODULE Gsdtool --------------------------------
(* The commands of gsdtool/src/main.rs that work with a device's description: *)
(* the configuration wizard, whose output a program hands to its peripheral,  *)
(* and the interpretation of the diagnostics that the peripheral reports.     *)
(* A description is read statement by statement.  The prompts are choices of  *)
(* the user among those the tool offers or accepts.                           *)
EXTENDS GsdParser, ExtDiagnostics

CONSTANTS
    Preambles,              \* sequences of statements a file may begin with
    Statements,             \* the statements that may follow
    DiagnosticsStatements,  \* those that may follow in a file read for diagnostics
    MaxStatements,          \* how many may follow
    Inputs,                 \* the numbers the user may type
    Buffers,                \* sizes of a peripheral's diagnostics buffer, 0: none
    Reports                 \* extended diagnostics a device may report

ASSUME GsdtoolAssumption ==
    /\ DiagnosticsStatements \subseteq Statements
    /\ MaxStatements \in Nat
    /\ Inputs \subseteq Int
    /\ Buffers \subseteq Nat
    /\ Reports \subseteq Seq(0..255)

IsSeq(q) == q \in Seq(Range(q))
AllStatements == Statements \cup UNION {Range(preamble) : preamble \in Preambles}

\* What the grammar (gsd.pest) yields for a statement: its rule, and lists
\* where the rule repeats something.
WellFormed(s) ==
    /\ s.rule \in {"prm_text", "ext_user_prm_data", "unit_diag_area", "module",
                   "slot_definition", "modular_station", "max_module",
                   "ext_user_prm_data_setting", "max_user_prm_data_len",
                   "user_prm_data_len", "user_prm_data", "unit_diag_bit",
                   "unit_diag_not_bit"}
    /\ s.rule = "ext_user_prm_data" =>
          CASE s.type.kind = "Bit" -> s.type.bit \in 0..255
            [] s.type.kind = "BitArea" -> s.type.first \in 0..255 /\ s.type.last \in 0..255
            [] OTHER -> TRUE
    /\ s.rule = "module" =>
          IsSeq(s.settings) /\ \A t \in Range(s.settings) : t.key \in {"len", "ref", "const"}
    /\ s.rule = "slot_definition" =>
          IsSeq(s.slots) /\ \A slot \in Range(s.slots) : IsSeq(slot.allowed)
    /\ s.rule = "ext_user_prm_data_setting" => s.key \in {"ref", "const"}
    /\ s.rule = "user_prm_data_len" => s.length \in Nat
    /\ s.rule = "user_prm_data" => IsSeq(s.values)

ASSUME DescriptionAssumption ==
    /\ \A preamble \in Preambles : IsSeq(preamble)
    /\ \A s \in AllStatements : WellFormed(s)

VARIABLES
    stage,     \* what the program or the tool is doing
    parser,    \* the parser of the description
    read,      \* how many statements have followed the preamble
    job,       \* the wizard's answers and output so far
    ext_diag,  \* the peripheral's extended diagnostics
    iterator   \* the program's iterator over them

vars == <<stage, parser, read, job, ext_diag, iterator>>

\* prm and next: the builder in use, and the parameter to be asked for.
\* selected: the modules, as shown to the user and as taken.
NewJob == [prm |-> <<>>, next |-> 1, user_prm |-> <<>>, selected |-> <<>>, chosen |-> {},
           inputs |-> 0, outputs |-> 0]

Init ==
    /\ stage = "Idle"
    /\ parser = NewParser
    /\ read = 0
    /\ job = NewJob
    /\ \E size \in Buffers : ext_diag = NewDiag(size)
    /\ iterator = NewIterator(<<>>)

-----------------------------------------------------------------------------
(* The program and its peripheral. *)

\* handle_diagnostics_response(): without the flag the buffer is left alone.
Report ==
    /\ stage = "Idle"
    /\ iterator.state = "Going" /\ iterator.cursor = 0
    /\ ext_diag' \in {ext_diag} \cup {Fill(ext_diag, bytes) : bytes \in Reports}
    /\ iterator' = NewIterator(ext_diag'.data)
    /\ UNCHANGED <<stage, parser, read, job>>

\* Without a buffer the first call of next() unwraps None.
NextDiagBlock ==
    /\ stage = "Idle"
    /\ iterator.state = "Going"
    /\ iterator' = IF IsAvailable(ext_diag) THEN NextBlock(iterator)
                   ELSE [iterator EXCEPT !.state = "Panicked"]
    /\ UNCHANGED <<stage, parser, read, job, ext_diag>>

-----------------------------------------------------------------------------
(* The tool reads a description. *)

Gsd == parser.gsd

ReadStatement(p, s) == IF p.outcome = "Reading" THEN ParseStatement(p, s) ELSE p

RunConfigWizard ==
    /\ stage = "Idle"
    /\ iterator = NewIterator(<<>>)
    /\ stage' = "Wizard"
    /\ \E preamble \in Preambles : parser' = FoldLeft(ReadStatement, NewParser, preamble)
    /\ UNCHANGED <<read, job, ext_diag, iterator>>

\* The user copies a device block out of the program's log.
DeviceBlocks == {b \in Range(iterator.blocks) : b.kind = "Device"}

RunDiagnostics ==
    /\ stage = "Idle"
    /\ iterator.state \in {"Ended", "CutOff"}
    /\ DeviceBlocks # {}
    /\ stage' = "Diagnostics"
    /\ UNCHANGED <<parser, read, job, ext_diag, iterator>>

Read ==
    /\ stage \in {"Wizard", "Diagnostics"}
    /\ parser.outcome = "Reading"
    /\ read < MaxStatements
    /\ \E s \in IF stage = "Wizard" THEN Statements ELSE DiagnosticsStatements :
          parser' = ParseStatement(parser, s)
    /\ read' = read + 1
    /\ UNCHANGED <<stage, job, ext_diag, iterator>>

\* parse_from_file() panics with the error, which is how the tool refuses a file.
Refuse ==
    /\ stage \in {"Wizard", "Diagnostics"}
    /\ parser.outcome \in {"Err", "Panic"}
    /\ stage' = IF parser.outcome = "Err" THEN "Refused" ELSE "ParserPanicked"
    /\ UNCHANGED <<parser, read, job, ext_diag, iterator>>

Panic == stage' = "Panicked" /\ UNCHANGED job

\* A builder's result is expect()ed to be Ok; a debug build does not get as far
\* as a result when the arithmetic overflows.
MayPanic(result) == ~result.ok \/ result.overflow

-----------------------------------------------------------------------------
(* The configuration wizard. *)

AskParameters(data) ==
    LET builder == NewBuilder(data) IN
    \/ MayPanic(builder) /\ Panic
    \/ /\ builder.ok
       /\ stage' = "Parameters"
       /\ job' = [job EXCEPT !.prm = builder.prm, !.next = 1]

Finish ==
    /\ stage = "Wizard"
    /\ parser.outcome = "Reading"
    /\ parser' = EndOfFile(parser)
    /\ AskParameters(parser'.gsd.user_prm_data)
    /\ UNCHANGED <<read, ext_diag, iterator>>

\* The parameters asked for are the device's, then those of each module.
CurrentData == IF job.selected = <<>> THEN Gsd.user_prm_data ELSE Last(job.selected).taken.prm
CurrentDef == CurrentData.data_ref[job.next].def

Asked(def) == def.visible /\ def.changeable

\* The result of set_prm() or set_prm_from_text().
Set(result, value) ==
    \/ MayPanic(result) /\ Panic
    \/ /\ result.ok
       /\ job' = [job EXCEPT !.prm = result.prm, !.next = @ + 1,
                    !.chosen = @ \cup {<<Len(job.selected), job.next, value>>}]
       /\ UNCHANGED stage

\* The default is looked up among the texts or values, and unwrapped.
ChooseText(def) ==
    IF def.default \notin Range(def.texts) THEN Panic
    ELSE \E text \in DOMAIN def.texts :
            Set(SetPrmFromText(CurrentData, job.prm, def.name, text), def.texts[text])

ChooseValue(def) ==
    IF def.default \notin def.constraint.values THEN Panic
    ELSE \E value \in def.constraint.values :
            Set(SetPrm(CurrentData, job.prm, def.name, value), value)

TypeValue(def) ==
    \E value \in Inputs \cup {def.default} :
        /\ Valid(def.constraint, value)
        /\ Set(SetPrm(CurrentData, job.prm, def.name, value), value)

AskParameter ==
    /\ stage = "Parameters"
    /\ job.next \in DOMAIN CurrentData.data_ref
    /\ IF ~Asked(CurrentDef) THEN job' = [job EXCEPT !.next = @ + 1] /\ UNCHANGED stage
       ELSE IF CurrentDef.texts # NoTexts THEN ChooseText(CurrentDef)
       ELSE IF CurrentDef.constraint.kind = "Enum" THEN ChooseValue(CurrentDef)
       ELSE TypeValue(CurrentDef)
    /\ UNCHANGED <<parser, read, ext_diag, iterator>>

ParametersDone ==
    /\ stage = "Parameters"
    /\ job.next \notin DOMAIN CurrentData.data_ref
    /\ stage' = "Modules"
    /\ job' = [job EXCEPT !.user_prm = @ \o job.prm]
    /\ UNCHANGED <<parser, read, ext_diag, iterator>>

SlotNumber == Len(job.selected) + 1
MaxModules == IF Gsd.modular_station THEN Gsd.max_modules ELSE 1
SlotIndex == SelectInSeq(Gsd.slots, LAMBDA s : s.number = SlotNumber)
AllowedModules ==
    IF SlotIndex = 0 THEN Gsd.available_modules ELSE Gsd.slots[SlotIndex].allowed_modules

AutoSelects == ~Gsd.modular_station /\ Len(AllowedModules) = 1

\* The slot's default is looked up by its name among the allowed modules.
DefaultIsMissing ==
    /\ ~AutoSelects
    /\ SlotIndex # 0
    /\ Gsd.slots[SlotIndex].default.name \notin {m.name : m \in Range(AllowedModules)}

\* The module is the first one that has the selected one's name.
TakenModule(shown) ==
    AllowedModules[SelectInSeq(AllowedModules, LAMBDA m : m.name = shown.name)]

SelectModule ==
    /\ stage = "Modules"
    /\ SlotNumber <= MaxModules
    /\ IF DefaultIsMissing THEN Panic
       ELSE \E shown \in Range(AllowedModules) :
              LET builder == NewBuilder(TakenModule(shown).prm) IN
              \/ MayPanic(builder) /\ Panic
              \/ /\ builder.ok
                 /\ stage' = "Parameters"
                 /\ job' = [job EXCEPT !.prm = builder.prm, !.next = 1,
                              !.selected = Append(@, [shown |-> shown,
                                                      taken |-> TakenModule(shown)])]
    /\ UNCHANGED <<parser, read, ext_diag, iterator>>

\* config_inputs/outputs: the lengths of the process images, in a u8 each; a
\* special identifier format gives up on both.
CfgLength(byte) == ((byte % 16) + 1) * (IF HasBit(byte, 6) THEN 2 ELSE 1)
Special(byte) == byte # 0 /\ ~HasBit(byte, 5) /\ ~HasBit(byte, 4)

ModuleConfig == FoldLeft(LAMBDA c, s : c \o s.taken.config, <<>>, job.selected)

IoLengths(config) ==
    LET Add(io, byte) ==
            IF io.special THEN io
            ELSE [inputs |-> io.inputs + (IF HasBit(byte, 4) THEN CfgLength(byte) ELSE 0),
                  outputs |-> io.outputs + (IF HasBit(byte, 5) THEN CfgLength(byte) ELSE 0),
                  special |-> Special(byte)]
    IN FoldLeft(Add, [inputs |-> 0, outputs |-> 0, special |-> FALSE], config)

Overflows(io) == io.inputs > 255 \/ io.outputs > 255

\* ESC, or no slot left.  A sum that overflows panics in a debug build and
\* wraps around in a release build.
PrintConfiguration ==
    /\ stage = "Modules"
    /\ SlotNumber > MaxModules \/ (~AutoSelects /\ ~DefaultIsMissing)
    /\ LET io == IoLengths(ModuleConfig) IN
       \/ Overflows(io) /\ Panic
       \/ /\ stage' = "Printed"
          /\ job' = [job EXCEPT !.inputs = IF io.special THEN 0 ELSE io.inputs % 256,
                                !.outputs = IF io.special THEN 0 ELSE io.outputs % 256]
    /\ UNCHANGED <<parser, read, ext_diag, iterator>>

-----------------------------------------------------------------------------
(* The interpretation of diagnostics. *)

\* Bits and areas are taken from the block without a look at its length, and
\* an area is copied into 16 bits.
Interpretable(diag, bytes) ==
    LET bits == 8 * Len(bytes) IN
    /\ \A bit \in diag.bits \cup diag.not_bits : bit < bits
    /\ \A area \in Range(diag.areas) :
          area.first <= area.last /\ area.last < bits /\ area.last - area.first < 16

Interpret ==
    /\ stage = "Diagnostics"
    /\ parser.outcome = "Reading"
    /\ parser' = EndOfFile(parser)
    /\ \E block \in DeviceBlocks :
          stage' = IF Interpretable(parser'.gsd.unit_diag, block.bytes)
                   THEN "Printed" ELSE "Panicked"
    /\ UNCHANGED <<read, job, ext_diag, iterator>>

Next ==
    \/ Report \/ NextDiagBlock
    \/ RunConfigWizard \/ RunDiagnostics \/ Read \/ Refuse
    \/ Finish \/ AskParameter \/ ParametersDone \/ SelectModule \/ PrintConfiguration
    \/ Interpret

Spec == Init /\ [][Next]_vars

-----------------------------------------------------------------------------
(* Properties. *)

LegacyValues == {s.values : s \in {t \in Statements : t.rule = "user_prm_data"}}

\* No constant of the station looks like legacy data.
ToldApart ==
    \A s \in AllStatements :
        s.rule = "ext_user_prm_data_setting" /\ s.key = "const" => s.values \notin LegacyValues

\* The description either has the station's extended parameters, and nothing
\* of the legacy data whatever the order of the statements, or legacy data
\* that fits into its declared length, whichever of the two came first.
UserPrmDataIsConsistent ==
    parser.outcome = "Ok" =>
        LET data == Gsd.user_prm_data IN
        IF parser.legacy = <<>>
        THEN data.length = 0 /\ \A c \in Range(data.data_const) : c.values \notin LegacyValues
        ELSE data.data_ref = <<>> /\ (data.length # 0 => DataEnd(data) <= data.length)

\* The numbers that a type stands for, if its bits lie within a byte.  (A Signed16
\* is written only if it is not negative.)
Holds(type, value) ==
    \/ type.kind = "Unsigned8" /\ value \in Unsigned(8)
    \/ type.kind = "Signed8" /\ value \in Signed(8)
    \/ type.kind = "Unsigned16" /\ value \in Unsigned(16)
    \/ type.kind = "Signed16" /\ value \in Signed(16) \cap Unsigned(16)
    \/ type.kind = "Unsigned32" /\ value \div 2^16 \in Unsigned(16)
    \/ type.kind = "Signed32" /\ value \div 2^16 \in Signed(16)
    \/ type.kind = "Bit" /\ type.bit \in 0..7 /\ value \in {0, 1}
    \/ /\ type.kind = "BitArea" /\ type.first \in 0..7 /\ type.last \in type.first..7
       /\ value \in Unsigned(8) \cap Unsigned(type.last - type.first + 1)

\* Parameters a device can tell apart: names are unique, and only bits, each
\* another one, share bytes.
Distinct(data) ==
    \A i, j \in DOMAIN data.data_ref : i # j =>
        LET a == data.data_ref[i]
            b == data.data_ref[j]
            bytes(r) == r.offset..(r.offset + TypeSize(r.def.type) - 1)
        IN  /\ a.def.name # b.def.name
            /\ \/ bytes(a) \cap bytes(b) = {}
               \/ a.def.type.kind = "Bit" /\ b.def.type.kind = "Bit" /\ a.def.type # b.def.type

\* The data of the device and then of the modules the user selected.
Parts == <<Gsd.user_prm_data>>
         \o [k \in DOMAIN job.selected |-> job.selected[k].shown.prm]
PartLength(data) == IF data.length # 0 THEN data.length ELSE Len(NewBuilder(data).prm)
PartStart(k) == FoldLeft(LAMBDA sum, data : sum + PartLength(data), 0, SubSeq(Parts, 1, k - 1))

Expected(k, i) ==
    LET values == {c[3] : c \in {d \in job.chosen : d[1] = k - 1 /\ d[2] = i}} IN
    IF values = {} THEN Parts[k].data_ref[i].def.default ELSE CHOOSE v \in values : TRUE

\* A bit that is set by a constant or by default cannot be cleared.
Clearable(k, i) ==
    LET ref == Parts[k].data_ref[i] IN
    ref.def.type.kind = "Bit" /\ Expected(k, i) = 0 =>
        ReadValue(ref.def.type, NewBuilder(Parts[k]).prm, ref.offset) = 0

\* The device, which knows its own description, splits the parameters that the
\* tool prints into its own and those of each module the user selected, and
\* reads every parameter as it was chosen, or else its default.  This needs
\* modules with names of their own, whose declared lengths are those of their
\* parameters, and parameters that can be told apart and have values of their types.
DeviceReadsWhatWasChosen ==
    /\ stage = "Printed" /\ iterator.blocks = <<>>
    /\ \A m, n \in Range(Gsd.available_modules) : m.name = n.name => m = n
    /\ \A k \in DOMAIN Parts :
          /\ Distinct(Parts[k]) /\ PartLength(Parts[k]) = Len(NewBuilder(Parts[k]).prm)
          /\ \A i \in DOMAIN Parts[k].data_ref :
                Holds(Parts[k].data_ref[i].def.type, Expected(k, i))
    => \A k \in DOMAIN Parts : \A i \in DOMAIN Parts[k].data_ref :
          LET ref == Parts[k].data_ref[i] IN
          Clearable(k, i) =>
            ReadValue(ref.def.type, job.user_prm, PartStart(k) + ref.offset) = Expected(k, i)

\* A definition the prompts can work with: its type holds the default, and every
\* value that is offered or accepted.
SoundDefinition(def) ==
    /\ Holds(def.type, def.default)
    /\ Asked(def) =>
        IF def.texts # NoTexts
        THEN /\ def.default \in Range(def.texts)
             /\ \A v \in Range(def.texts) : Valid(def.constraint, v) /\ Holds(def.type, v)
        ELSE /\ def.constraint.kind = "Enum" => def.default \in def.constraint.values
             /\ \A v \in Inputs \cup {def.default} \cup
                          (IF def.constraint.kind = "Enum" THEN def.constraint.values ELSE {}) :
                   Valid(def.constraint, v) => Holds(def.type, v)

SoundData(data) ==
    /\ \A ref \in Range(data.data_ref) : SoundDefinition(ref.def)
    /\ \A i, j \in DOMAIN data.data_ref :
          data.data_ref[i].def.name = data.data_ref[j].def.name => i = j

\* The wizard gets to its end with every file that the parser did not warn
\* about and whose definitions are sound, with every answer its prompts accept,
\* unless more than 255 bytes of inputs or outputs are configured.
SoundFilesConfigure ==
    stage = "Panicked" /\ iterator.blocks = <<>> =>
        \/ parser.warned
        \/ ~SoundData(Gsd.user_prm_data)
        \/ \E m \in Range(Gsd.available_modules) : ~SoundData(m.prm)
        \/ Overflows(IoLengths(ModuleConfig))

\* The bytes a block stands for.
Encoded(block) ==
    CASE block.kind = "Device" -> <<Len(block.bytes) + 1>> \o block.bytes
      [] block.kind = "Identifier" -> <<64 + Len(block.bytes) + 1>> \o block.bytes
      [] block.kind = "Channel" ->
            <<128 + block.module,
              block.channel + (IF block.input THEN 64 ELSE 0) + (IF block.output THEN 128 ELSE 0),
              DataTypeToByte(block.dtype) + ErrorToByte(block.error)>>

\* The blocks a program sees are the report of the device, whole and in order,
\* up to its end or to a block that is cut off or reserved; the iteration
\* panics only without a buffer or at a block of length 0.  (A channel of an
\* invalid data type does not say which of two it was.)
BlocksAreTheReport ==
    LET typed == \A b \in Range(iterator.blocks) : b.kind = "Channel" => b.dtype # "Invalid"
        seen == FoldLeft(LAMBDA b, block : b \o Encoded(block), <<>>, iterator.blocks)
        rest == SubSeq(ext_diag.data, Len(seen) + 1, Len(ext_diag.data))
    IN  typed =>
        /\ IsPrefix(seen, ext_diag.data)
        /\ iterator.state = "Ended" => rest = <<>>
        /\ iterator.state = "CutOff" =>
              rest # <<>> /\ (HeaderKind(rest[1]) = "Reserved" \/ ~FitsInto(rest))
        /\ iterator.state = "Panicked" =>
              ~IsAvailable(ext_diag) \/ (rest # <<>> /\ BlockLength(rest[1]) = 0)
=============================================================================
