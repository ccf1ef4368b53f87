------------------------------ MODULE GsdParser ------------------------------
(* parse_inner() of gsd-parser/src/parser.rs: the statements of a GSD file,  *)
(* already split by the grammar, applied one after the other.  A statement   *)
(* is a record with the grammar's rule; numbers are within their types.      *)
EXTENDS PrmBuilder, TLC

NoDiagInfo == [bits |-> {}, not_bits |-> {}, areas |-> <<>>]

\* GenericStationDescription: the parts that other statements, or gsdtool's
\* decisions, depend on.
EmptyGsd == [modular_station |-> FALSE, max_modules |-> 0,
             available_modules |-> <<>>, slots |-> <<>>,
             user_prm_data |-> NoPrmData, unit_diag |-> NoDiagInfo]

\* legacy_prm: a sequence of at most one, None once it is to be ignored.
NewParser == [gsd |-> EmptyGsd, prm_texts |-> NoTexts, definitions |-> NoTexts,
              legacy |-> <<NoPrmData>>, max_modules_set |-> FALSE,
              warned |-> FALSE, outcome |-> "Reading"]

Ends(p, outcome) == [p EXCEPT !.outcome = outcome]
Bind(key, value, map) == (key :> value) @@ map

\* A text is looked up, and cloned, when the parameter is defined.
ParseExtUserPrmData(p, s) ==
    IF s.text_ref # 0 /\ s.text_ref \notin DOMAIN p.prm_texts THEN Ends(p, "Err")
    ELSE [p EXCEPT !.definitions = Bind(s.id,
             [name |-> s.name, type |-> s.type, default |-> s.default,
              constraint |-> s.constraint, changeable |-> s.changeable, visible |-> s.visible,
              texts |-> IF s.text_ref = 0 THEN NoTexts ELSE p.prm_texts[s.text_ref]], @)]

ParseUnitDiagArea(p, s) ==
    [p EXCEPT !.gsd.unit_diag.areas = Append(@, [first |-> s.first, last |-> s.last])]

KnowsRefs(p, settings) ==
    \A s \in Range(settings) : s.key = "ref" => s.id \in DOMAIN p.definitions

\* The settings of user parameters, of a module or of the station.
AddPrmSetting(p, data, s) ==
    CASE s.key = "len" -> [data EXCEPT !.length = s.length]
      [] s.key = "ref" -> [data EXCEPT !.data_ref =
                             Append(@, [offset |-> s.offset, def |-> p.definitions[s.id]])]
      [] s.key = "const" -> [data EXCEPT !.data_const =
                             Append(@, [offset |-> s.offset, values |-> s.values])]

\* A reference to a parameter that is not defined yet is expect()ed away.
ParseModule(p, s) ==
    IF ~KnowsRefs(p, s.settings) THEN Ends(p, "Panic")
    ELSE [p EXCEPT !.gsd.available_modules = Append(@,
             [name |-> s.name, config |-> s.config, reference |-> s.reference,
              prm |-> FoldLeft(LAMBDA data, setting : AddPrmSetting(p, data, setting),
                               NoPrmData, s.settings)])]

FindModules(p, reference) ==
    LET found == SelectInSeq(p.gsd.available_modules, LAMBDA m : m.reference = reference)
    IN IF found = 0 THEN <<>> ELSE <<p.gsd.available_modules[found]>>

\* Mutant: the default is not compared with the allowed modules.
SlotIsDoubtfulIfMissing(slot, default, allowed) == Len(allowed) < Len(slot.allowed)

SlotIsDoubtful(slot, default, allowed) ==
    Len(allowed) < Len(slot.allowed) \/ default \notin Range(allowed)

\* Missing allowed modules are warned about, a missing default is an error, and
\* a default that is not allowed is warned about again.
ParseSlot(p, slot) ==
    LET allowed == FoldLeft(LAMBDA ms, r : ms \o FindModules(p, r), <<>>, slot.allowed)
        default == FindModules(p, slot.default)
    IN  IF p.outcome # "Reading" THEN p
        ELSE IF default = <<>> THEN Ends(p, "Err")
        ELSE [p EXCEPT
                !.warned = @ \/ SlotIsDoubtful(slot, default[1], allowed),
                !.gsd.slots = Append(@, [number |-> slot.number, default |-> default[1],
                                         allowed_modules |-> allowed])]

ParseSlotDefinition(p, s) == FoldLeft(ParseSlot, p, s.slots)

\* Ext_User_Prm_Data_Ref and _Const: the legacy data is ignored from here on.
ParseExtPrmSetting(p, s) ==
    IF ~KnowsRefs(p, <<s>>) THEN Ends(p, "Panic")
    ELSE [p EXCEPT !.gsd.user_prm_data = AddPrmSetting(p, @, s), !.legacy = <<>>]

DataEnd(data) ==
    Max({0} \cup {c.offset + Len(c.values) : c \in Range(data.data_const)})

ParseUserPrmDataLen(p, s) ==
    IF p.legacy = <<>> THEN p
    ELSE IF s.length < DataEnd(p.legacy[1]) THEN Ends(p, "Err")
    ELSE [p EXCEPT !.legacy[1].length = s.length]

\* Mutant: the length is not looked at when it comes first.
ParseUserPrmDataUnchecked(p, s) ==
    IF p.legacy = <<>> THEN p
    ELSE [p EXCEPT !.legacy[1].data_const = Append(@, [offset |-> 0, values |-> s.values])]

\* A length of 0 counts as one that is not set yet.
ParseUserPrmData(p, s) ==
    IF p.legacy = <<>> THEN p
    ELSE IF p.legacy[1].length # 0 /\ p.legacy[1].length < Len(s.values) THEN Ends(p, "Err")
    ELSE [p EXCEPT !.legacy[1].data_const = Append(@, [offset |-> 0, values |-> s.values])]

ParseStatement(p, s) ==
    CASE s.rule = "prm_text" -> [p EXCEPT !.prm_texts = Bind(s.id, s.texts, @)]
      [] s.rule = "ext_user_prm_data" -> ParseExtUserPrmData(p, s)
      [] s.rule = "unit_diag_area" -> ParseUnitDiagArea(p, s)
      [] s.rule = "module" -> ParseModule(p, s)
      [] s.rule = "slot_definition" -> ParseSlotDefinition(p, s)
      [] s.rule = "modular_station" -> [p EXCEPT !.gsd.modular_station = s.value]
      [] s.rule = "max_module" ->
            [p EXCEPT !.gsd.max_modules = s.value, !.max_modules_set = TRUE]
      [] s.rule = "ext_user_prm_data_setting" -> ParseExtPrmSetting(p, s)
      [] s.rule = "max_user_prm_data_len" -> [p EXCEPT !.legacy = <<>>]
      [] s.rule = "user_prm_data_len" -> ParseUserPrmDataLen(p, s)
      [] s.rule = "user_prm_data" -> ParseUserPrmData(p, s)
      [] s.rule = "unit_diag_bit" -> [p EXCEPT !.gsd.unit_diag.bits = @ \cup {s.bit}]
      [] s.rule = "unit_diag_not_bit" -> [p EXCEPT !.gsd.unit_diag.not_bits = @ \cup {s.bit}]

\* After the last statement: legacy data is committed, a compact station has
\* one module.
EndOfFile(p) ==
    LET max == IF p.max_modules_set THEN p.gsd.max_modules ELSE 1 IN
    [p EXCEPT
        !.outcome = "Ok",
        !.gsd.user_prm_data = IF p.legacy = <<>> THEN @ ELSE p.legacy[1],
        !.gsd.max_modules = IF p.gsd.modular_station THEN max ELSE 1,
        !.warned = \/ @
                   \/ /\ ~p.gsd.modular_station
                      /\ (max # 1 \/ Len(p.gsd.available_modules) # 1)]
=============================================================================
