------------------------------ MODULE MCGsdtool ------------------------------
(* A description with a text, parameters of every kind of prompt, and two     *)
(* modules, of which the statements may come in any order.                    *)
EXTENDS Gsdtool

Type(kind) == [kind |-> kind]
Bit(b) == [kind |-> "Bit", bit |-> b]
Between(min, max) == [kind |-> "MinMax", min |-> min, max |-> max]
OneOf(values) == [kind |-> "Enum", values |-> values]
Anything == [kind |-> "Unconstrained"]

Text(id, texts) == [rule |-> "prm_text", id |-> id, texts |-> texts]
Prm(id, name, type, default, constraint, text) ==
    [rule |-> "ext_user_prm_data", id |-> id, name |-> name, type |-> type, default |-> default,
     constraint |-> constraint, text_ref |-> text, changeable |-> TRUE, visible |-> TRUE]
Ref(offset, id) == [key |-> "ref", offset |-> offset, id |-> id]
Const(offset, values) == [key |-> "const", offset |-> offset, values |-> values]
Length(n) == [key |-> "len", length |-> n]
Station(setting) == [rule |-> "ext_user_prm_data_setting"] @@ setting
Module(name, reference, config, settings) ==
    [rule |-> "module", name |-> name, reference |-> reference, config |-> config,
     settings |-> settings]
Slot(number, default, allowed) ==
    [rule |-> "slot_definition",
     slots |-> <<[number |-> number, default |-> default, allowed |-> allowed]>>]
Setting(rule, value) == [rule |-> rule, value |-> value]

OnOff == Text(1, ("off" :> 0) @@ ("on" :> 1))
FilterBit == Prm(1, "filter", Bit(0), 1, Anything, 1)
AlarmBit == Prm(2, "alarm", Bit(3), 0, OneOf({0, 1}), 0)
Range16 == Prm(3, "range", Type("Signed16"), 1, Between(-1, 300), 0)
Mode == Prm(4, "mode", [kind |-> "BitArea", first |-> 1, last |-> 2], 2, Between(0, 3), 0)
Offset == [Prm(5, "offset", Type("Signed8"), -1, Between(-1, 2), 0) EXCEPT !.changeable = FALSE]

Definitions == <<OnOff, FilterBit, AlarmBit, Mode, Offset>>
Modular == Definitions \o <<Setting("modular_station", TRUE), Setting("max_module", 2)>>

\* Definitions whose bits do not lie within a byte.
WideBit == Prm(2, "alarm", Bit(9), 0, OneOf({0, 1}), 0)
InvertedArea == Prm(4, "mode", [kind |-> "BitArea", first |-> 2, last |-> 1], 0, Between(0, 3), 0)

MCPreambles == {<<>>, Definitions, Modular}

Area == [rule |-> "unit_diag_area", first |-> 4, last |-> 7]
DiagBits == {[rule |-> "unit_diag_bit", bit |-> 3], [rule |-> "unit_diag_not_bit", bit |-> 9]}
MCDiagnosticsStatements == DiagBits \cup {Area}

MCStatements == MCDiagnosticsStatements \cup {
    OnOff, FilterBit, Range16, WideBit, InvertedArea,
    Station(Ref(1, 1)), Station(Ref(1, 2)), Station(Ref(0, 3)), Station(Const(0, <<8>>)),
    Setting("max_module", 3),
    Module("in", 1, <<19, 0>>, <<Ref(0, 4), Ref(1, 5)>>),
    Module("out", 2, <<111, 111, 111, 111>>, <<Length(2), Const(0, <<9, 9>>), Ref(1, 2)>>),
    Module("in", 3, <<4>>, <<>>),
    Slot(1, 1, <<1, 2>>), Slot(2, 1, <<2>>),
    [rule |-> "max_user_prm_data_len"],
    [rule |-> "user_prm_data_len", length |-> 2],
    [rule |-> "user_prm_data", values |-> <<5, 6, 7>>],
    [rule |-> "user_prm_data", values |-> <<5>>]}

MCInputs == {-1, 0, 1, 3, 300}

Bytes == {0, 2, 66, 105, 129, 192}
MCReports == UNION {[1..n -> Bytes] : n \in 0..4} \cup {<<5, 0, 0, 0, 2>>}

\* The legacy data of this description is told from its constants.
ASSUME MCToldApart == ToldApart
=============================================================================
