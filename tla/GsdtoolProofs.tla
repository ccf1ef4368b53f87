---------------------------- MODULE GsdtoolProofs ----------------------------
(***************************************************************************)
(* The three properties of Gsdtool that hold for every description, every  *)
(* answer and every report.  The loops of the parser, of the builder and   *)
(* of the iterator run over sequences of any length: each of them is an    *)
(* instance of FoldInduction, whose lemmas are the induction.  Everything  *)
(* assumed of a description is what the grammar yields: the parts that a   *)
(* statement has, not what they say.                                       *)
(***************************************************************************)
EXTENDS Gsdtool, SequenceTheorems, FiniteSetTheorems, TLAPS

-----------------------------------------------------------------------------
(* The parser: the operators of its loops, and what they keep. *)

\* The settings of a module, folded into its user parameters.
AddSetting(p, data, s) == AddPrmSetting(p, data, s)

\* User parameters have three parts, of which two are lists.
IsData(d) == d = [length |-> d.length, data_const |-> d.data_const, data_ref |-> d.data_ref]

DataOK(d) == IsData(d) /\ IsSeq(d.data_const) /\ IsSeq(d.data_ref)
PrmOK(p, d) == DataOK(d)

SettingsFold == INSTANCE FoldInduction WITH Op <- AddSetting, Inv <- PrmOK

\* The references of a slot, folded into the modules it allows.
AddAllowed(p, ms, r) == ms \o FindModules(p, r)
AllowedOK(p, ms) == IsSeq(ms) /\ Range(ms) \subseteq Range(p.gsd.available_modules)
AllowedFold == INSTANCE FoldInduction WITH Op <- AddAllowed, Inv <- AllowedOK

-----------------------------------------------------------------------------
(* Sequences. *)

\* A sequence of its own elements stays one when an element is appended.
LEMMA AppendSeq ==
  ASSUME NEW q, IsSeq(q), NEW x
  PROVE  IsSeq(Append(q, x)) /\ Range(Append(q, x)) = Range(q) \cup {x} /\ Len(Append(q, x)) = Len(q) + 1
<1> DEFINE S == Range(q) \cup {x}
<1>1. q \in Seq(S) /\ x \in S
  BY DEF IsSeq
<1> HIDE DEF S
<1>2. /\ Append(q, x) \in Seq(S) /\ Len(Append(q, x)) = Len(q) + 1
      /\ \A i \in 1 .. Len(q) : Append(q, x)[i] = q[i]
      /\ Append(q, x)[Len(q) + 1] = x
  BY <1>1, AppendProperties
<1>3. DOMAIN q = 1 .. Len(q) /\ Len(q) \in Nat /\ DOMAIN Append(q, x) = 1 .. Len(q) + 1
  BY <1>1, <1>2
<1>4. Range(Append(q, x)) = Range(q) \cup {x}
  <2> DEFINE r == Append(q, x)
  <2>1. DOMAIN r = 1 .. Len(q) + 1 /\ (\A i \in 1 .. Len(q) : r[i] = q[i]) /\ r[Len(q) + 1] = x
    BY <1>2, <1>3
  <2> HIDE DEF r
  <2>2. \A y \in Range(r) : y \in Range(q) \cup {x}
    BY <1>3, <2>1 DEF Range
  <2>3. \A y \in Range(q) : y \in Range(r)
    BY <1>3, <2>1 DEF Range
  <2>4. x \in Range(r)
    BY <1>3, <2>1 DEF Range
  <2> QED  BY <2>2, <2>3, <2>4 DEF r
<1> QED  BY <1>2, <1>4 DEF IsSeq, S

\* It stays one when another is appended.
LEMMA ConcatSeq ==
  ASSUME NEW q, IsSeq(q), NEW r, IsSeq(r)
  PROVE  IsSeq(q \o r) /\ Range(q \o r) = Range(q) \cup Range(r)
<1> DEFINE S == Range(q) \cup Range(r)
<1>1. q \in Seq(S) /\ r \in Seq(S)
  BY DEF IsSeq
<1>2. Range(q \o r) = S
  BY <1>1, RangeConcatenation
<1>3. q \o r \in Seq(S)
  BY <1>1
<1> QED  BY <1>2, <1>3 DEF IsSeq

\* Its indices are those from 1 to its length.
LEMMA SeqDomain ==
  ASSUME NEW q, IsSeq(q)
  PROVE  /\ Len(q) \in Nat /\ DOMAIN q = 1 .. Len(q)
         /\ \A i \in 1 .. Len(q) : q[i] \in Range(q)
<1>1. q \in Seq(Range(q))
  BY DEF IsSeq
<1> QED  BY <1>1

\* The empty sequence is one, without elements.
LEMMA EmptySeqs == IsSeq(<<>>) /\ Range(<<>>) = {}
  BY DEF IsSeq, Range

\* The least of some indices is one of them: what SelectInSeq returns.
LEMMA FirstIndex ==
  ASSUME NEW n \in Nat, NEW I \in SUBSET (1 .. n), I # {}
  PROVE  Min(I) \in I
<1>1. PICK m \in I : \A x \in I : m <= x
  <2>1. I \in SUBSET Nat
    OBVIOUS
  <2> QED  BY <2>1, SettingsFold!Least
<1> QED  BY <1>1 DEF Min

-----------------------------------------------------------------------------
(* The statements of a description. *)

\* AddPrmSetting() keeps the three parts of user parameters.
LEMMA SettingKeeps ==
  ASSUME NEW p, NEW d, PrmOK(p, d), NEW s, s.key \in {"len", "ref", "const"}
  PROVE  PrmOK(p, AddSetting(p, d, s))
<1> DEFINE e == AddSetting(p, d, s)
<1>1. CASE s.key = "len"
  <2>1. e = [d EXCEPT !.length = s.length]
    BY <1>1 DEF AddSetting, AddPrmSetting
  <2> QED  BY <2>1 DEF PrmOK, DataOK, IsData
<1>2. CASE s.key = "ref"
  <2>1. e = [d EXCEPT !.data_ref = Append(@, [offset |-> s.offset, def |-> p.definitions[s.id]])]
    BY <1>2 DEF AddSetting, AddPrmSetting
  <2> DEFINE ref == [offset |-> s.offset, def |-> p.definitions[s.id]]
  <2> HIDE DEF ref, e
  <2>2. e = [length |-> d.length, data_const |-> d.data_const, data_ref |-> Append(d.data_ref, ref)]
    BY <2>1 DEF PrmOK, DataOK, IsData, ref
  <2>3. IsSeq(Append(d.data_ref, ref))
    BY AppendSeq DEF PrmOK, DataOK
  <2> QED  BY <2>2, <2>3 DEF PrmOK, DataOK, IsData, e
<1>3. CASE s.key = "const"
  <2>1. e = [d EXCEPT !.data_const = Append(@, [offset |-> s.offset, values |-> s.values])]
    BY <1>3 DEF AddSetting, AddPrmSetting
  <2> DEFINE const == [offset |-> s.offset, values |-> s.values]
  <2> HIDE DEF const, e
  <2>2. e = [length |-> d.length, data_const |-> Append(d.data_const, const), data_ref |-> d.data_ref]
    BY <2>1 DEF PrmOK, DataOK, IsData, const
  <2>3. IsSeq(Append(d.data_const, const))
    BY AppendSeq DEF PrmOK, DataOK
  <2> QED  BY <2>2, <2>3 DEF PrmOK, DataOK, IsData, e
<1> QED  BY <1>1, <1>2, <1>3

\* UserPrmData::default() has them.
LEMMA NoPrmOK == ASSUME NEW p PROVE PrmOK(p, NoPrmData)
  BY EmptySeqs DEF PrmOK, DataOK, NoPrmData, IsData

\* So have the parameters that a module's settings make up.
LEMMA SettingsKeep ==
  ASSUME NEW p, NEW settings, IsSeq(settings), \A t \in Range(settings) : t.key \in {"len", "ref", "const"}
  PROVE  PrmOK(p, SettingsFold!Fold(p, NoPrmData, settings))
<1>2. Len(settings) \in Nat /\ DOMAIN settings = 1 .. Len(settings)
      /\ \A i \in 1 .. Len(settings) : settings[i].key \in {"len", "ref", "const"}
  BY SeqDomain
<1>3. ASSUME NEW d, NEW i \in 1 .. Len(settings), PrmOK(p, d) PROVE PrmOK(p, AddSetting(p, d, settings[i]))
  BY <1>2, <1>3, SettingKeeps
<1> QED  BY <1>2, <1>3, NoPrmOK, SettingsFold!FoldKeeps

\* The modules found by a reference are among those of the file.
LEMMA FoundModules ==
  ASSUME NEW p, IsSeq(p.gsd.available_modules), NEW r
  PROVE  /\ IsSeq(FindModules(p, r)) /\ Range(FindModules(p, r)) \subseteq Range(p.gsd.available_modules)
         /\ FindModules(p, r) # <<>> => FindModules(p, r)[1] \in Range(p.gsd.available_modules)
<1> DEFINE ms == p.gsd.available_modules
           I == {i \in 1 .. Len(ms) : ms[i].reference = r}
<1>1. FindModules(p, r) = IF I # {} THEN <<ms[Min(I)]>> ELSE <<>>
  <2>1. I # {} => Min(I) # 0
    <3>1. Len(ms) \in Nat /\ I \in SUBSET (1 .. Len(ms))
      BY SeqDomain
    <3> HIDE DEF I, ms
    <3>2. I # {} => Min(I) \in 1 .. Len(ms)
      BY <3>1, FirstIndex
    <3> QED  BY <3>1, <3>2
  <2>2. FindModules(p, r) = IF (IF I # {} THEN Min(I) ELSE 0) = 0 THEN <<>>
                            ELSE <<ms[IF I # {} THEN Min(I) ELSE 0]>>
    BY DEF FindModules, SelectInSeq
  <2> HIDE DEF I, ms
  <2> QED  BY <2>1, <2>2
<1>2. CASE I = {}
  BY <1>1, <1>2, EmptySeqs
<1>3. CASE I # {}
  <2>1. Min(I) \in 1 .. Len(ms)
    BY <1>3, SeqDomain, FirstIndex
  <2>2. ms[Min(I)] \in Range(ms)
    BY <2>1, SeqDomain
  <2> DEFINE m == ms[Min(I)]
  <2>3. FindModules(p, r) = <<m>>
    BY <1>1, <1>3
  <2> HIDE DEF m
  <2>4. Range(<<m>>) = {m} /\ IsSeq(<<m>>) /\ <<m>>[1] = m
    BY DEF Range, IsSeq
  <2> QED  BY <2>2, <2>3, <2>4 DEF m
<1> QED  BY <1>2, <1>3

\* So are the allowed modules of a slot, however many its statement lists.
LEMMA AllowedKeep ==
  ASSUME NEW p, IsSeq(p.gsd.available_modules), NEW refs, IsSeq(refs)
  PROVE  AllowedOK(p, AllowedFold!Fold(p, <<>>, refs))
<1>2. Len(refs) \in Nat /\ DOMAIN refs = 1 .. Len(refs)
  BY SeqDomain
<1>3. ASSUME NEW ms, NEW i \in 1 .. Len(refs), AllowedOK(p, ms)
      PROVE  AllowedOK(p, AddAllowed(p, ms, refs[i]))
  BY <1>3, FoundModules, ConcatSeq DEF AllowedOK, AddAllowed
<1>4. AllowedOK(p, <<>>)
  BY EmptySeqs DEF AllowedOK
<1> QED  BY <1>2, <1>3, <1>4, AllowedFold!FoldKeeps

\* The fields that a description, and a parser, have.
IsGsd(g) ==
  g = [modular_station |-> g.modular_station, max_modules |-> g.max_modules,
       available_modules |-> g.available_modules, slots |-> g.slots,
       user_prm_data |-> g.user_prm_data, unit_diag |-> g.unit_diag]

IsParser(p) ==
  p = [gsd |-> p.gsd, prm_texts |-> p.prm_texts, definitions |-> p.definitions,
       legacy |-> p.legacy, max_modules_set |-> p.max_modules_set,
       warned |-> p.warned, outcome |-> p.outcome]

\* What the wizard relies on in the modules and in the slots.
ModulesOK(modules) == IsSeq(modules) /\ \A m \in Range(modules) : DataOK(m.prm)

SlotOK(slot, modules, warned) ==
  /\ IsSeq(slot.allowed_modules) /\ Range(slot.allowed_modules) \subseteq Range(modules)
  /\ ~warned => slot.default \in Range(slot.allowed_modules)

SlotsOK(slots, modules, warned) ==
  IsSeq(slots) /\ \A slot \in Range(slots) : SlotOK(slot, modules, warned)

\* Legacy data fits into its length, and extended data has nothing of it.
LegacyOK(d) ==
  /\ DataOK(d) /\ d.data_ref = <<>> /\ d.length \in Nat
  /\ \A c \in Range(d.data_const) : c.offset = 0 /\ Len(c.values) \in Nat
  /\ \E u \in Nat : \A c \in Range(d.data_const) : Len(c.values) <= u
  /\ d.length # 0 => \A c \in Range(d.data_const) : Len(c.values) <= d.length

StationOK(d) ==
  /\ DataOK(d) /\ d.length = 0
  /\ ToldApart => \A c \in Range(d.data_const) : c.values \notin LegacyValues

\* The parser keeps the legacy data apart until the end of the file, and has none
\* of it, or no parameter of the other kind, then.
ParserOK(c, p) ==
  /\ IsParser(p) /\ IsGsd(p.gsd)
  /\ p.outcome \in {"Reading", "Err", "Panic", "Ok"}
  /\ ModulesOK(p.gsd.available_modules)
  /\ SlotsOK(p.gsd.slots, p.gsd.available_modules, p.warned)
  /\ p.legacy # <<>> => p.legacy = <<p.legacy[1]>> /\ LegacyOK(p.legacy[1])
  /\ IF p.outcome = "Ok" /\ p.legacy # <<>> THEN p.gsd.user_prm_data = p.legacy[1]
                                           ELSE StationOK(p.gsd.user_prm_data)

\* Before the end of the file.
OpenOK(c, p) == ParserOK(c, p) /\ p.outcome # "Ok"

\* The statements of a file, and the slots of a statement, one after the other.
ParseOne(c, p, s) == ReadStatement(p, s)
FileFold == INSTANCE FoldInduction WITH Op <- ParseOne, Inv <- OpenOK
AddSlot(c, p, slot) == ParseSlot(p, slot)
SlotFold == INSTANCE FoldInduction WITH Op <- AddSlot, Inv <- OpenOK

\* The parser starts in a state that satisfies the invariant.
LEMMA NewParserOK == ASSUME NEW c PROVE ParserOK(c, NewParser)
<1> DEFINE p == NewParser
<1>1. /\ p.gsd = EmptyGsd /\ p.outcome = "Reading" /\ p.legacy = <<NoPrmData>> /\ IsParser(p)
  BY DEF NewParser, IsParser
<1> HIDE DEF p
<1>2. /\ IsGsd(p.gsd) /\ p.gsd.available_modules = <<>> /\ p.gsd.slots = <<>>
      /\ p.gsd.user_prm_data = NoPrmData
  BY <1>1 DEF EmptyGsd, IsGsd
<1>3. DataOK(NoPrmData)
  BY NoPrmOK DEF PrmOK
<1>4. LegacyOK(NoPrmData) /\ StationOK(NoPrmData)
  <2>1. NoPrmData.data_ref = <<>> /\ NoPrmData.data_const = <<>> /\ NoPrmData.length = 0
    BY DEF NoPrmData
  <2> QED  BY <1>3, <2>1, EmptySeqs DEF LegacyOK, StationOK
<1>5. p.legacy[1] = NoPrmData
  BY <1>1
<1> QED  BY <1>1, <1>2, <1>4, <1>5, EmptySeqs DEF ParserOK, ModulesOK, SlotsOK, p

\* A change of anything else than what the invariant mentions keeps it.
LEMMA Frame ==
  ASSUME NEW c, NEW p, ParserOK(c, p), p.outcome # "Ok",
         NEW q, IsParser(q), IsGsd(q.gsd), q.outcome \in {"Reading", "Err", "Panic"},
         q.gsd.available_modules = p.gsd.available_modules, q.gsd.slots = p.gsd.slots,
         q.gsd.user_prm_data = p.gsd.user_prm_data, q.legacy = p.legacy, q.warned = p.warned
  PROVE  ParserOK(c, q)
  BY DEF ParserOK

\* An error, or a panic, of the parser keeps the invariant.
LEMMA EndsKeeps ==
  ASSUME NEW c, NEW p, ParserOK(c, p), p.outcome # "Ok", NEW outcome \in {"Err", "Panic"}
  PROVE  ParserOK(c, Ends(p, outcome))
<1> DEFINE q == Ends(p, outcome)
<1>1. /\ IsParser(q) /\ q.gsd = p.gsd /\ q.outcome = outcome /\ q.legacy = p.legacy /\ q.warned = p.warned
  BY DEF Ends, ParserOK, IsParser
<1> HIDE DEF q
<1>2. IsGsd(q.gsd)
  BY <1>1 DEF ParserOK
<1> QED  BY <1>1, <1>2, Frame DEF q

\* So does a module, with the settings it has.
LEMMA ModuleKeeps ==
  ASSUME NEW c, NEW p, ParserOK(c, p), p.outcome # "Ok", NEW s, WellFormed(s), s.rule = "module"
  PROVE  ParserOK(c, ParseModule(p, s))
<1>1. CASE ~KnowsRefs(p, s.settings)
  BY <1>1, EndsKeeps DEF ParseModule
<1>2. CASE KnowsRefs(p, s.settings)
  <2> DEFINE q == ParseModule(p, s)
             m == [name |-> s.name, config |-> s.config, reference |-> s.reference,
                   prm |-> FoldLeft(LAMBDA data, setting : AddPrmSetting(p, data, setting),
                                    NoPrmData, s.settings)]
             modules == p.gsd.available_modules
  <2>1. q = [p EXCEPT !.gsd.available_modules = Append(@, m)]
    BY <1>2 DEF ParseModule
  <2>2. DataOK(m.prm)
    <3>1. m.prm = SettingsFold!Fold(p, NoPrmData, s.settings)
      BY DEF SettingsFold!Fold, AddSetting, SettingsFold!FoldLeft, FoldLeft,
             SettingsFold!MapThenFoldSet, MapThenFoldSet, SettingsFold!Max, Max
    <3> HIDE DEF m
    <3> QED  BY <3>1, SettingsKeep DEF PrmOK, WellFormed
  <2> HIDE DEF q, m
  <2>3. /\ IsParser(q) /\ IsGsd(q.gsd) /\ q.outcome = p.outcome /\ q.gsd.slots = p.gsd.slots
        /\ q.gsd.available_modules = Append(modules, m) /\ q.legacy = p.legacy /\ q.warned = p.warned
        /\ q.gsd.user_prm_data = p.gsd.user_prm_data
    BY <2>1 DEF ParserOK, IsParser, IsGsd
  <2>4. IsSeq(Append(modules, m)) /\ Range(Append(modules, m)) = Range(modules) \cup {m}
    BY AppendSeq DEF ParserOK, ModulesOK
  <2>5. ModulesOK(q.gsd.available_modules)
    BY <2>2, <2>3, <2>4 DEF ParserOK, ModulesOK
  <2>6. SlotsOK(q.gsd.slots, q.gsd.available_modules, q.warned)
    BY <2>3, <2>4 DEF ParserOK, SlotsOK, SlotOK
  <2> QED  BY <2>3, <2>5, <2>6 DEF ParserOK, q
<1> QED  BY <1>1, <1>2

\* So does one slot: without a warning its default is one of the allowed modules.
LEMMA SlotKeeps ==
  ASSUME NEW c, NEW p, ParserOK(c, p), p.outcome # "Ok", NEW slot, IsSeq(slot.allowed)
  PROVE  ParserOK(c, ParseSlot(p, slot)) /\ ParseSlot(p, slot).outcome # "Ok"
<1> DEFINE allowed == FoldLeft(LAMBDA ms, r : ms \o FindModules(p, r), <<>>, slot.allowed)
           default == FindModules(p, slot.default)
           warned == p.warned \/ SlotIsDoubtful(slot, default[1], allowed)
           new == [number |-> slot.number, default |-> default[1], allowed_modules |-> allowed]
           q == ParseSlot(p, slot)
<1>1. IsSeq(p.gsd.available_modules)
  BY DEF ParserOK, ModulesOK
<1>2. AllowedOK(p, allowed)
  <2>1. allowed = AllowedFold!Fold(p, <<>>, slot.allowed)
    BY DEF AllowedFold!Fold, AddAllowed, AllowedFold!FoldLeft, FoldLeft,
           AllowedFold!MapThenFoldSet, MapThenFoldSet, AllowedFold!Max, Max
  <2> HIDE DEF allowed
  <2> QED  BY <1>1, <2>1, AllowedKeep
<1>3. q = IF p.outcome # "Reading" THEN p
          ELSE IF default = <<>> THEN Ends(p, "Err")
          ELSE [p EXCEPT !.warned = @ \/ SlotIsDoubtful(slot, default[1], allowed), !.gsd.slots = Append(@, new)]
  BY DEF ParseSlot
<1> HIDE DEF allowed, default, q
<1>4. CASE p.outcome # "Reading"
  BY <1>3, <1>4 DEF q
<1>5. CASE p.outcome = "Reading" /\ default = <<>>
  <2>1. Ends(p, "Err").outcome = "Err"
    BY DEF Ends, ParserOK, IsParser
  <2> QED  BY <1>3, <1>5, <2>1, EndsKeeps DEF q
<1>6. CASE p.outcome = "Reading" /\ default # <<>>
  <2>1. q = [p EXCEPT !.warned = @ \/ SlotIsDoubtful(slot, default[1], allowed), !.gsd.slots = Append(@, new)]
    BY <1>3, <1>6
  <2> DEFINE slots == Append(p.gsd.slots, new)
  <2> HIDE DEF new
  <2>2. /\ IsParser(q) /\ IsGsd(q.gsd) /\ q.outcome = p.outcome /\ q.gsd.slots = slots
        /\ q.gsd.available_modules = p.gsd.available_modules /\ q.legacy = p.legacy
        /\ q.gsd.user_prm_data = p.gsd.user_prm_data
        /\ q.warned = (p.warned \/ SlotIsDoubtful(slot, default[1], allowed))
    BY <2>1 DEF ParserOK, IsParser, IsGsd
  <2>3. IsSeq(slots) /\ Range(slots) = Range(p.gsd.slots) \cup {new}
    BY AppendSeq DEF ParserOK, SlotsOK
  <2>4. SlotOK(new, p.gsd.available_modules, q.warned)
    <3>1. new.allowed_modules = allowed /\ new.default = default[1]
      BY DEF new
    <3> QED  BY <1>2, <2>2, <3>1 DEF SlotOK, AllowedOK, SlotIsDoubtful
  <2>5. \A x \in Range(p.gsd.slots) : SlotOK(x, p.gsd.available_modules, q.warned)
    BY <2>2 DEF ParserOK, SlotsOK, SlotOK
  <2>6. SlotsOK(q.gsd.slots, q.gsd.available_modules, q.warned)
    BY <2>2, <2>3, <2>4, <2>5 DEF SlotsOK
  <2> QED  BY <1>6, <2>2, <2>6 DEF ParserOK, q
<1> QED  BY <1>4, <1>5, <1>6

\* So does a definition of several slots.
LEMMA SlotsKeep ==
  ASSUME NEW c, NEW p, OpenOK(c, p), NEW s, WellFormed(s), s.rule = "slot_definition"
  PROVE  OpenOK(c, ParseSlotDefinition(p, s))
<1>1. ParseSlotDefinition(p, s) = SlotFold!Fold(c, p, s.slots)
  BY DEF ParseSlotDefinition, SlotFold!Fold, AddSlot, SlotFold!FoldLeft, FoldLeft,
         SlotFold!MapThenFoldSet, MapThenFoldSet, SlotFold!Max, Max
<1>2. /\ Len(s.slots) \in Nat /\ DOMAIN s.slots = 1 .. Len(s.slots)
      /\ \A i \in 1 .. Len(s.slots) : IsSeq(s.slots[i].allowed)
  BY SeqDomain DEF WellFormed
<1>3. ASSUME NEW q, NEW i \in 1 .. Len(s.slots), OpenOK(c, q) PROVE OpenOK(c, AddSlot(c, q, s.slots[i]))
  BY <1>2, <1>3, SlotKeeps DEF OpenOK, AddSlot
<1>4. OpenOK(c, SlotFold!Fold(c, p, s.slots))
  BY <1>2, <1>3, SlotFold!FoldKeeps
<1> QED  BY <1>1, <1>4

\* So does one of the station's extended parameters, which drops the legacy data.
LEMMA SettingOfStationKeeps ==
  ASSUME NEW c, NEW p, OpenOK(c, p), NEW s \in AllStatements, WellFormed(s),
         s.rule = "ext_user_prm_data_setting"
  PROVE  OpenOK(c, ParseExtPrmSetting(p, s))
<1>1. CASE ~KnowsRefs(p, <<s>>)
  <2>1. Ends(p, "Panic").outcome = "Panic"
    BY DEF Ends, OpenOK, ParserOK, IsParser
  <2> QED  BY <1>1, <2>1, EndsKeeps DEF ParseExtPrmSetting, OpenOK
<1>2. CASE KnowsRefs(p, <<s>>)
  <2> DEFINE q == ParseExtPrmSetting(p, s)
             old == p.gsd.user_prm_data
             data == AddPrmSetting(p, old, s)
  <2>1. q = [p EXCEPT !.gsd.user_prm_data = AddPrmSetting(p, @, s), !.legacy = <<>>]
    BY <1>2 DEF ParseExtPrmSetting
  <2>2. StationOK(old) /\ s.key \in {"ref", "const"}
    BY DEF OpenOK, ParserOK, WellFormed
  <2>3. StationOK(data)
    <3>1. DataOK(data)
      BY <2>2, SettingKeeps DEF StationOK, AddSetting, PrmOK
    <3>2. CASE s.key = "ref"
      <4>1. data.length = old.length /\ data.data_const = old.data_const
        BY <2>2, <3>2 DEF StationOK, DataOK, IsData, AddPrmSetting
      <4> QED  BY <2>2, <3>1, <4>1 DEF StationOK
    <3>3. CASE s.key = "const"
      <4> DEFINE const == [offset |-> s.offset, values |-> s.values]
      <4> HIDE DEF const
      <4>1. data.length = old.length /\ data.data_const = Append(old.data_const, const)
        BY <2>2, <3>3 DEF StationOK, DataOK, IsData, AddPrmSetting, const
      <4>2. Range(data.data_const) = Range(old.data_const) \cup {const}
        BY <2>2, <4>1, AppendSeq DEF StationOK, DataOK
      <4>3. const.values = s.values
        BY DEF const
      <4>4. ToldApart => const.values \notin LegacyValues
        BY <3>3, <4>3 DEF ToldApart
      <4> HIDE DEF data
      <4> QED  BY <2>2, <3>1, <4>1, <4>2, <4>4 DEF StationOK
    <3> QED  BY <2>2, <3>2, <3>3
  <2> HIDE DEF q, data
  <2>4. /\ IsParser(q) /\ IsGsd(q.gsd) /\ q.outcome = p.outcome /\ q.gsd.slots = p.gsd.slots
        /\ q.gsd.available_modules = p.gsd.available_modules /\ q.legacy = <<>> /\ q.warned = p.warned
        /\ q.gsd.user_prm_data = data
    BY <2>1 DEF OpenOK, ParserOK, IsParser, IsGsd, data
  <2>5. ParserOK(c, p) /\ p.outcome # "Ok"
    BY DEF OpenOK
  <2>6. ModulesOK(q.gsd.available_modules) /\ SlotsOK(q.gsd.slots, q.gsd.available_modules, q.warned)
    BY <2>4, <2>5 DEF ParserOK
  <2>7. ParserOK(c, q)
    BY <2>3, <2>4, <2>5, <2>6, Zenon DEF ParserOK
  <2> QED  BY <2>4, <2>7 DEF OpenOK, q
<1> QED  BY <1>1, <1>2

\* So does a change of the legacy data that keeps what is required of it.
LEMMA LegacyKeeps ==
  ASSUME NEW c, NEW p, OpenOK(c, p), NEW q, IsParser(q), q.gsd = p.gsd,
         q.outcome = p.outcome, q.warned = p.warned,
         q.legacy = <<>> \/ (\E d : q.legacy = <<d>> /\ LegacyOK(d))
  PROVE  OpenOK(c, q)
<1>1. q.legacy # <<>> => q.legacy = <<q.legacy[1]>> /\ LegacyOK(q.legacy[1])
  <2>1. CASE q.legacy = <<>>
    BY <2>1, Zenon
  <2>2. ASSUME NEW d, q.legacy = <<d>>, LegacyOK(d)
        PROVE  q.legacy = <<q.legacy[1]>> /\ LegacyOK(q.legacy[1])
    <3>1. q.legacy[1] = d
      BY <2>2
    <3> QED  BY <2>2, <3>1
  <2> QED  BY <2>1, <2>2
<1> QED  BY <1>1 DEF OpenOK, ParserOK

\* DataEnd() is the least bound of the lengths of the legacy data.
LEMMA EndIsBound ==
  ASSUME NEW d, LegacyOK(d)
  PROVE  /\ DataEnd(d) \in Nat
         /\ \A c \in Range(d.data_const) : Len(c.values) <= DataEnd(d)
         /\ \A u \in Nat : (\A c \in Range(d.data_const) : Len(c.values) <= u) => DataEnd(d) <= u
<1> DEFINE S == {c.offset + Len(c.values) : c \in Range(d.data_const)}
           T == {0} \cup S
           U == {u \in Nat : \A x \in T : x <= u}
<1>1. /\ \A c \in Range(d.data_const) : Len(c.values) \in Nat /\ c.offset + Len(c.values) = Len(c.values)
      /\ T \in SUBSET Nat
  BY DEF LegacyOK
<1>2. S = {Len(c.values) : c \in Range(d.data_const)}
  BY <1>1
<1>3. DataEnd(d) = Max(T)
  BY DEF DataEnd
<1>4. U # {} /\ U \in SUBSET Nat
  <2>1. PICK u \in Nat : \A c \in Range(d.data_const) : Len(c.values) <= u
    BY DEF LegacyOK
  <2>2. \A x \in S : x <= u
    BY <1>2, <2>1
  <2> HIDE DEF S
  <2>3. \A x \in T : x <= u
    BY <2>1, <2>2
  <2> QED  BY <2>1, <2>3
<1> HIDE DEF S, U
<1>5. PICK m \in U : \A u \in U : m <= u
  BY <1>4, SettingsFold!Least
<1>6. m \in T
  <2>1. SUFFICES ASSUME m \notin T PROVE FALSE
    OBVIOUS
  <2>2. m \in Nat /\ m # 0
    BY <1>4, <2>1
  <2>3. \A x \in T : x <= m - 1
    BY <1>1, <2>1, <2>2 DEF U
  <2>4. m - 1 \in U
    BY <2>2, <2>3 DEF U
  <2>5. m <= m - 1
    BY <1>5, <2>4
  <2> QED  BY <2>2, <2>5
<1>7. m \in Nat /\ \A x \in T : x <= m
  BY <1>4 DEF U
<1>8. Max(T) = m
  BY <1>1, <1>6, <1>7 DEF Max
<1>9. \A x : x \in T <=> x = 0 \/ \E c \in Range(d.data_const) : x = Len(c.values)
  BY <1>2
<1> HIDE DEF T
<1>10. DataEnd(d) = m
  BY <1>3, <1>8
<1>11. \A c \in Range(d.data_const) : Len(c.values) <= m
  BY <1>7, <1>9
<1>12. ASSUME NEW u \in Nat, \A c \in Range(d.data_const) : Len(c.values) <= u
       PROVE  m <= u
  BY <1>6, <1>9, <1>12
<1> QED  BY <1>7, <1>10, <1>11, <1>12

\* So does User_Prm_Data_Len: data that came before it fits, or is refused.
LEMMA LengthKeeps ==
  ASSUME NEW c, NEW p, OpenOK(c, p), NEW s, WellFormed(s), s.rule = "user_prm_data_len"
  PROVE  OpenOK(c, ParseUserPrmDataLen(p, s))
<1>1. CASE p.legacy = <<>>
  <2>1. ParseUserPrmDataLen(p, s) = p
    BY <1>1, Zenon DEF ParseUserPrmDataLen
  <2> QED  BY <2>1
<1>2. CASE p.legacy # <<>>
  <2> DEFINE d == p.legacy[1]
             q == ParseUserPrmDataLen(p, s)
  <2>1. p.legacy = <<d>> /\ LegacyOK(d)
    BY <1>2 DEF OpenOK, ParserOK
  <2>2. s.length \in Nat /\ DataEnd(d) \in Nat
    BY <2>1, EndIsBound DEF WellFormed
  <2>3. CASE s.length < DataEnd(d)
    <3>1. ParseUserPrmDataLen(p, s) = Ends(p, "Err") /\ Ends(p, "Err").outcome = "Err"
      BY <1>2, <2>3 DEF ParseUserPrmDataLen, Ends, OpenOK, ParserOK, IsParser
    <3> QED  BY <3>1, EndsKeeps DEF OpenOK
  <2>4. CASE ~(s.length < DataEnd(d))
    <3> DEFINE e == [d EXCEPT !.length = s.length]
    <3>1. q = [p EXCEPT !.legacy[1].length = s.length]
      BY <1>2, <2>4 DEF ParseUserPrmDataLen
    <3>2. e = [length |-> s.length, data_const |-> d.data_const, data_ref |-> d.data_ref]
      BY <2>1 DEF LegacyOK, DataOK, IsData
    <3>3. LegacyOK(e)
      <4>1. \A k \in Range(d.data_const) : Len(k.values) <= s.length
        <5>1. DataEnd(d) <= s.length
          BY <2>2, <2>4
        <5>2. \A k \in Range(d.data_const) : Len(k.values) \in Nat /\ Len(k.values) <= DataEnd(d)
          BY <2>1, EndIsBound DEF LegacyOK
        <5> QED  BY <2>2, <5>1, <5>2
      <4> HIDE DEF d, e
      <4> QED  BY <2>1, <2>2, <3>2, <4>1 DEF LegacyOK, DataOK, IsData
    <3>4. q.legacy = <<e>>
      <4>1. q.legacy = [p.legacy EXCEPT ![1] = [@ EXCEPT !.length = s.length]]
        BY <3>1 DEF OpenOK, ParserOK, IsParser
      <4>2. [<<d>> EXCEPT ![1] = e] = <<e>>
        <5> HIDE DEF d, e
        <5> QED  OBVIOUS
      <4>3. q.legacy = [p.legacy EXCEPT ![1] = e]
        BY <4>1
      <4> HIDE DEF e
      <4> QED  BY <2>1, <4>2, <4>3, Zenon
    <3>5. IsParser(q) /\ q.gsd = p.gsd /\ q.outcome = p.outcome /\ q.warned = p.warned
      BY <3>1 DEF OpenOK, ParserOK, IsParser
    <3> HIDE DEF q, e
    <3> QED  BY <3>3, <3>4, <3>5, LegacyKeeps DEF q
  <2> QED  BY <2>3, <2>4
<1> QED  BY <1>1, <1>2

\* So does User_Prm_Data: it fits into a length that came before, or is refused.
LEMMA ValuesKeep ==
  ASSUME NEW c, NEW p, OpenOK(c, p), NEW s, WellFormed(s), s.rule = "user_prm_data"
  PROVE  OpenOK(c, ParseUserPrmData(p, s))
<1>1. CASE p.legacy = <<>>
  <2>1. ParseUserPrmData(p, s) = p
    BY <1>1, Zenon DEF ParseUserPrmData
  <2> QED  BY <2>1
<1>2. CASE p.legacy # <<>>
  <2> DEFINE d == p.legacy[1]
             q == ParseUserPrmData(p, s)
             const == [offset |-> 0, values |-> s.values]
  <2>1. p.legacy = <<d>> /\ LegacyOK(d)
    BY <1>2 DEF OpenOK, ParserOK
  <2>2. Len(s.values) \in Nat /\ d.length \in Nat
    BY <2>1, SeqDomain DEF WellFormed, LegacyOK
  <2>3. CASE d.length # 0 /\ d.length < Len(s.values)
    <3>1. ParseUserPrmData(p, s) = Ends(p, "Err") /\ Ends(p, "Err").outcome = "Err"
      BY <1>2, <2>3 DEF ParseUserPrmData, Ends, OpenOK, ParserOK, IsParser
    <3> QED  BY <3>1, EndsKeeps DEF OpenOK
  <2>4. CASE ~(d.length # 0 /\ d.length < Len(s.values))
    <3> DEFINE more == Append(d.data_const, const)
               e == [d EXCEPT !.data_const = more]
    <3>1. q = [p EXCEPT !.legacy = [@ EXCEPT ![1] = e]]
      BY <1>2, <2>4 DEF ParseUserPrmData
    <3>2. const.offset = 0 /\ const.values = s.values
      OBVIOUS
    <3> HIDE DEF const, more
    <3>3. e = [length |-> d.length, data_const |-> more, data_ref |-> d.data_ref]
      BY <2>1 DEF LegacyOK, DataOK, IsData
    <3>4. LegacyOK(e)
      <4>1. IsSeq(more) /\ Range(more) = Range(d.data_const) \cup {const}
        BY <2>1, AppendSeq DEF LegacyOK, DataOK, more
      <4>2. PICK u \in Nat : \A k \in Range(d.data_const) : Len(k.values) <= u
        BY <2>1 DEF LegacyOK
      <4>3. \A k \in Range(d.data_const) : Len(k.values) \in Nat /\ Len(k.values) <= u + Len(s.values)
        BY <2>1, <2>2, <4>2 DEF LegacyOK
      <4>4. u + Len(s.values) \in Nat /\ Len(s.values) <= u + Len(s.values)
        BY <2>2
      <4>5. d.length # 0 => Len(s.values) <= d.length
        BY <2>2, <2>4
      <4> HIDE DEF d, e
      <4> QED  BY <2>1, <2>2, <3>2, <3>3, <4>1, <4>3, <4>4, <4>5 DEF LegacyOK, DataOK, IsData
    <3>5. q.legacy = <<e>>
      <4>1. q.legacy = [p.legacy EXCEPT ![1] = e]
        <5> HIDE DEF e
        <5> QED  BY <3>1 DEF OpenOK, ParserOK, IsParser
      <4>2. [<<d>> EXCEPT ![1] = e] = <<e>>
        <5> HIDE DEF d, e
        <5> QED  OBVIOUS
      <4> HIDE DEF e
      <4> QED  BY <2>1, <4>1, <4>2, Zenon
    <3>6. IsParser(q) /\ q.gsd = p.gsd /\ q.outcome = p.outcome /\ q.warned = p.warned
      BY <3>1 DEF OpenOK, ParserOK, IsParser
    <3> HIDE DEF q, e
    <3> QED  BY <3>4, <3>5, <3>6, LegacyKeeps DEF q
  <2> QED  BY <2>3, <2>4
<1> QED  BY <1>1, <1>2

\* Frame, for a parser that has not come to the end of the file.
LEMMA OpenFrame ==
  ASSUME NEW c, NEW p, OpenOK(c, p), NEW q, IsParser(q), IsGsd(q.gsd), q.outcome \in {"Reading", "Err", "Panic"},
         q.gsd.available_modules = p.gsd.available_modules, q.gsd.slots = p.gsd.slots,
         q.gsd.user_prm_data = p.gsd.user_prm_data, q.legacy = p.legacy, q.warned = p.warned
  PROVE  OpenOK(c, q)
  BY Frame DEF OpenOK

\* Every statement of a description keeps the invariant.
LEMMA StatementKeeps ==
  ASSUME NEW c, NEW p, OpenOK(c, p), NEW s \in AllStatements
  PROVE  OpenOK(c, ParseStatement(p, s))
<1> DEFINE q == ParseStatement(p, s)
<1>0. WellFormed(s)
  BY DescriptionAssumption DEF AllStatements
<1>1. /\ IsParser(p) /\ IsGsd(p.gsd) /\ p.outcome \in {"Reading", "Err", "Panic"}
  BY DEF OpenOK, ParserOK
<1>2. CASE s.rule = "prm_text"
  <2>1. q = [p EXCEPT !.prm_texts = Bind(s.id, s.texts, @)]
    BY <1>2 DEF ParseStatement
  <2> DEFINE new == Bind(s.id, s.texts, p.prm_texts)
  <2>2. q = [p EXCEPT !.prm_texts = new]
    BY <2>1
  <2> HIDE DEF q, new
  <2>3. IsParser(q) /\ q.gsd = p.gsd /\ q.outcome = p.outcome /\ q.legacy = p.legacy /\ q.warned = p.warned
    BY <1>1, <2>2 DEF IsParser
  <2> QED  BY <1>1, <2>3, OpenFrame DEF q
<1>3. CASE s.rule = "ext_user_prm_data"
  <2>1. q = ParseExtUserPrmData(p, s)
    BY <1>3 DEF ParseStatement
  <2>2. CASE s.text_ref # 0 /\ s.text_ref \notin DOMAIN p.prm_texts
    <3>1. q = Ends(p, "Err") /\ Ends(p, "Err").outcome = "Err"
      BY <1>1, <2>1, <2>2 DEF ParseExtUserPrmData, Ends, IsParser
    <3> QED  BY <3>1, EndsKeeps DEF OpenOK
  <2>3. CASE ~(s.text_ref # 0 /\ s.text_ref \notin DOMAIN p.prm_texts)
    <3> DEFINE new == Bind(s.id,
             [name |-> s.name, type |-> s.type, default |-> s.default,
              constraint |-> s.constraint, changeable |-> s.changeable, visible |-> s.visible,
              texts |-> IF s.text_ref = 0 THEN NoTexts ELSE p.prm_texts[s.text_ref]], p.definitions)
    <3>1. q = [p EXCEPT !.definitions = new]
      BY <2>1, <2>3 DEF ParseExtUserPrmData
    <3> HIDE DEF q, new
    <3>2. IsParser(q) /\ q.gsd = p.gsd /\ q.outcome = p.outcome /\ q.legacy = p.legacy /\ q.warned = p.warned
      BY <1>1, <3>1 DEF IsParser
    <3> QED  BY <1>1, <3>2, OpenFrame DEF q
  <2> QED  BY <2>2, <2>3
<1>4. CASE s.rule \in {"unit_diag_area", "unit_diag_bit", "unit_diag_not_bit"}
  <2> DEFINE u == p.gsd.unit_diag
             area == [first |-> s.first, last |-> s.last]
             areas == Append(u.areas, area)
             new == CASE s.rule = "unit_diag_area" -> [u EXCEPT !.areas = areas]
                      [] s.rule = "unit_diag_bit" -> [u EXCEPT !.bits = @ \cup {s.bit}]
                      [] s.rule = "unit_diag_not_bit" -> [u EXCEPT !.not_bits = @ \cup {s.bit}]
  <2>1. q = [p EXCEPT !.gsd = [@ EXCEPT !.unit_diag = new]]
    <3>1. CASE s.rule = "unit_diag_area"
      BY <3>1 DEF ParseStatement, ParseUnitDiagArea
    <3>2. CASE s.rule = "unit_diag_bit"
      BY <3>2 DEF ParseStatement
    <3>3. CASE s.rule = "unit_diag_not_bit"
      BY <3>3 DEF ParseStatement
    <3> QED  BY <1>4, <3>1, <3>2, <3>3
  <2> HIDE DEF new, q
  <2>2. /\ IsParser(q) /\ IsGsd(q.gsd) /\ q.outcome = p.outcome /\ q.legacy = p.legacy /\ q.warned = p.warned
        /\ q.gsd.available_modules = p.gsd.available_modules /\ q.gsd.slots = p.gsd.slots
        /\ q.gsd.user_prm_data = p.gsd.user_prm_data
    BY <1>1, <2>1 DEF IsParser, IsGsd
  <2> QED  BY <1>1, <2>2, OpenFrame DEF q
<1>5. CASE s.rule = "module"
  <2>1. q = ParseModule(p, s)
    BY <1>5 DEF ParseStatement
  <2>2. ParseModule(p, s).outcome # "Ok"
    <3>1. CASE ~KnowsRefs(p, s.settings)
      BY <1>1, <3>1 DEF ParseModule, Ends, IsParser
    <3>2. CASE KnowsRefs(p, s.settings)
      BY <1>1, <3>2 DEF ParseModule, IsParser
    <3> QED  BY <3>1, <3>2
  <2> HIDE DEF q
  <2>3. ParserOK(c, p) /\ p.outcome # "Ok"
    BY DEF OpenOK
  <2>4. ParserOK(c, ParseModule(p, s))
    BY <1>0, <1>5, <2>3, ModuleKeeps
  <2> QED  BY <2>1, <2>2, <2>4 DEF OpenOK, q
<1>6. CASE s.rule = "slot_definition"
  <2>1. q = ParseSlotDefinition(p, s)
    BY <1>6 DEF ParseStatement
  <2> QED  BY <1>0, <1>6, <2>1, SlotsKeep
<1>7. CASE s.rule = "modular_station"
  <2>1. q = [p EXCEPT !.gsd.modular_station = s.value]
    BY <1>7 DEF ParseStatement
  <2> HIDE DEF q
  <2>2. /\ IsParser(q) /\ IsGsd(q.gsd) /\ q.outcome = p.outcome /\ q.legacy = p.legacy /\ q.warned = p.warned
        /\ q.gsd.available_modules = p.gsd.available_modules /\ q.gsd.slots = p.gsd.slots
        /\ q.gsd.user_prm_data = p.gsd.user_prm_data
    BY <1>1, <2>1 DEF IsParser, IsGsd
  <2> QED  BY <1>1, <2>2, OpenFrame DEF q
<1>8. CASE s.rule = "max_module"
  <2>1. q = [p EXCEPT !.gsd.max_modules = s.value, !.max_modules_set = TRUE]
    BY <1>8 DEF ParseStatement
  <2> HIDE DEF q
  <2>2. /\ IsParser(q) /\ IsGsd(q.gsd) /\ q.outcome = p.outcome /\ q.legacy = p.legacy /\ q.warned = p.warned
        /\ q.gsd.available_modules = p.gsd.available_modules /\ q.gsd.slots = p.gsd.slots
        /\ q.gsd.user_prm_data = p.gsd.user_prm_data
    BY <1>1, <2>1 DEF IsParser, IsGsd
  <2> QED  BY <1>1, <2>2, OpenFrame DEF q
<1>9. CASE s.rule = "ext_user_prm_data_setting"
  <2>1. q = ParseExtPrmSetting(p, s)
    BY <1>9 DEF ParseStatement
  <2> QED  BY <1>0, <1>9, <2>1, SettingOfStationKeeps
<1>10. CASE s.rule = "max_user_prm_data_len"
  <2>1. q = [p EXCEPT !.legacy = <<>>]
    BY <1>10 DEF ParseStatement
  <2> HIDE DEF q
  <2>2. IsParser(q) /\ q.gsd = p.gsd /\ q.outcome = p.outcome /\ q.warned = p.warned
    BY <1>1, <2>1 DEF IsParser
  <2>3. q.legacy = <<>>
    BY <1>1, <2>1 DEF IsParser
  <2> QED  BY <2>2, <2>3, LegacyKeeps DEF q
<1>11. CASE s.rule = "user_prm_data_len"
  <2>1. q = ParseUserPrmDataLen(p, s)
    BY <1>11 DEF ParseStatement
  <2> QED  BY <1>0, <1>11, <2>1, LengthKeeps
<1>12. CASE s.rule = "user_prm_data"
  <2>1. q = ParseUserPrmData(p, s)
    BY <1>12 DEF ParseStatement
  <2> QED  BY <1>0, <1>12, <2>1, ValuesKeep
<1> QED  BY <1>0, <1>2, <1>3, <1>4, <1>5, <1>6, <1>7, <1>8, <1>9, <1>10, <1>11, <1>12 DEF WellFormed

\* So does a file of any number of statements, by induction over them.
LEMMA PreambleKeeps ==
  ASSUME NEW c, NEW preamble \in Preambles
  PROVE  OpenOK(c, FileFold!Fold(c, NewParser, preamble))
<1>1. /\ Len(preamble) \in Nat /\ DOMAIN preamble = 1 .. Len(preamble)
      /\ \A i \in 1 .. Len(preamble) : preamble[i] \in AllStatements
  <2>1. IsSeq(preamble)
    BY DescriptionAssumption
  <2> QED  BY <2>1, SeqDomain DEF AllStatements
<1>2. OpenOK(c, NewParser)
  <2>1. NewParser.outcome = "Reading"
    BY DEF NewParser
  <2> QED  BY <2>1, NewParserOK DEF OpenOK
<1>3. ASSUME NEW p, NEW i \in 1 .. Len(preamble), OpenOK(c, p) PROVE OpenOK(c, ParseOne(c, p, preamble[i]))
  BY <1>1, <1>3, StatementKeeps DEF ParseOne, ReadStatement
<1> QED  BY <1>1, <1>2, <1>3, FileFold!FoldKeeps

\* So does the end of the file, which commits the legacy data that is left.
LEMMA EndKeeps ==
  ASSUME NEW c, NEW p, OpenOK(c, p)
  PROVE  /\ ParserOK(c, EndOfFile(p)) /\ EndOfFile(p).outcome = "Ok"
         /\ EndOfFile(p).gsd.available_modules = p.gsd.available_modules
         /\ EndOfFile(p).gsd.slots = p.gsd.slots
<1> DEFINE q == EndOfFile(p)
<1>1. /\ IsParser(q) /\ IsGsd(q.gsd) /\ q.outcome = "Ok" /\ q.legacy = p.legacy
      /\ q.gsd.available_modules = p.gsd.available_modules /\ q.gsd.slots = p.gsd.slots
      /\ q.gsd.user_prm_data = IF p.legacy = <<>> THEN p.gsd.user_prm_data ELSE p.legacy[1]
      /\ p.warned => q.warned
  <2> DEFINE data == IF p.legacy = <<>> THEN p.gsd.user_prm_data ELSE p.legacy[1]
             max == IF p.max_modules_set THEN p.gsd.max_modules ELSE 1
             modules == IF p.gsd.modular_station THEN max ELSE 1
             warned == \/ p.warned
                       \/ /\ ~p.gsd.modular_station
                          /\ (max # 1 \/ Len(p.gsd.available_modules) # 1)
  <2>1. q = [p EXCEPT !.outcome = "Ok", !.gsd.user_prm_data = data, !.gsd.max_modules = modules,
                      !.warned = warned]
    BY DEF EndOfFile
  <2>2. p.warned => warned
    OBVIOUS
  <2> HIDE DEF q, data, modules, warned
  <2>3. IsParser(p) /\ IsGsd(p.gsd)
    BY DEF OpenOK, ParserOK
  <2>4. /\ IsParser(q) /\ IsGsd(q.gsd) /\ q.outcome = "Ok" /\ q.legacy = p.legacy
        /\ q.gsd.available_modules = p.gsd.available_modules /\ q.gsd.slots = p.gsd.slots
        /\ q.gsd.user_prm_data = data /\ q.warned = warned
    BY <2>1, <2>3 DEF IsParser, IsGsd
  <2> QED  BY <2>2, <2>4 DEF data
<1> HIDE DEF q
<1>2. SlotsOK(q.gsd.slots, q.gsd.available_modules, q.warned)
  <2>1. SlotsOK(p.gsd.slots, p.gsd.available_modules, p.warned)
    BY DEF OpenOK, ParserOK
  <2> QED  BY <1>1, <2>1 DEF SlotsOK, SlotOK
<1>3. ParserOK(c, p) /\ p.outcome # "Ok"
  BY DEF OpenOK
<1>4. ParserOK(c, q)
  BY <1>1, <1>2, <1>3 DEF ParserOK
<1> QED  BY <1>1, <1>4 DEF q

\* The inductive invariant of the parser.
ParserInv == ParserOK({}, parser)

\* The invariant of the parser holds initially,
LEMMA InitParser == Init => ParserInv
  BY NewParserOK DEF Init, ParserInv

\* and is kept by every step of the tool and of the program.
LEMMA StepParser == ParserInv /\ [Next]_vars => ParserInv'
<1> SUFFICES ASSUME ParserInv, [Next]_vars PROVE ParserInv'
  OBVIOUS
<1>1. ASSUME parser.outcome = "Reading" PROVE OpenOK({}, parser)
  BY <1>1 DEF ParserInv, OpenOK
<1>2. CASE RunConfigWizard
  <2>1. PICK preamble \in Preambles : parser' = FoldLeft(ReadStatement, NewParser, preamble)
    BY <1>2 DEF RunConfigWizard
  <2>2. parser' = FileFold!Fold({}, NewParser, preamble)
    BY <2>1 DEF FileFold!Fold, ParseOne, FileFold!FoldLeft, FoldLeft,
                FileFold!MapThenFoldSet, MapThenFoldSet, FileFold!Max, Max
  <2>3. OpenOK({}, parser')
    BY <2>2, PreambleKeeps
  <2> QED  BY <2>3 DEF OpenOK, ParserInv
<1>3. CASE Read
  <2>1. PICK s \in AllStatements : parser' = ParseStatement(parser, s)
    BY <1>3, GsdtoolAssumption DEF Read, AllStatements
  <2>2. OpenOK({}, parser')
    BY <1>1, <1>3, <2>1, StatementKeeps DEF Read
  <2> QED  BY <2>2 DEF OpenOK, ParserInv
<1>4. CASE Finish \/ Interpret
  <2>1. parser' = EndOfFile(parser) /\ parser.outcome = "Reading"
    BY <1>4 DEF Finish, Interpret
  <2> QED  BY <1>1, <2>1, EndKeeps DEF ParserInv
<1>5. CASE UNCHANGED parser
  BY <1>5 DEF ParserInv
<1>6. ASSUME ~RunConfigWizard, ~Read, ~Finish, ~Interpret PROVE UNCHANGED parser
  BY <1>6 DEF Next, vars, Report, NextDiagBlock, RunDiagnostics, Refuse, AskParameter,
              ParametersDone, SelectModule, PrintConfiguration
<1> QED  BY <1>2, <1>3, <1>4, <1>5, <1>6

\* The description that the parser returns has either the station's extended
\* parameters and nothing of the legacy data, or legacy data that fits into its
\* declared length, in whatever order the statements came.
THEOREM UserPrmHolds ==
  ASSUME ToldApart
  PROVE  Spec => []UserPrmDataIsConsistent
<1>1. ParserInv => UserPrmDataIsConsistent
  <2> SUFFICES ASSUME ParserInv, parser.outcome = "Ok"
               PROVE  LET data == Gsd.user_prm_data IN
                      IF parser.legacy = <<>>
                      THEN data.length = 0 /\ \A c \in Range(data.data_const) : c.values \notin LegacyValues
                      ELSE data.data_ref = <<>> /\ (data.length # 0 => DataEnd(data) <= data.length)
    BY DEF UserPrmDataIsConsistent, LegacyValues
  <2> DEFINE data == parser.gsd.user_prm_data
  <2>1. CASE parser.legacy = <<>>
    <3>1. StationOK(data)
      BY <2>1 DEF ParserInv, ParserOK
    <3> QED  BY <2>1, <3>1 DEF StationOK, Gsd
  <2>2. CASE parser.legacy # <<>>
    <3>1. LegacyOK(data)
      BY <2>2 DEF ParserInv, ParserOK
    <3>2. data.length # 0 => DataEnd(data) <= data.length
      BY <3>1, EndIsBound DEF LegacyOK
    <3> QED  BY <2>2, <3>1, <3>2 DEF LegacyOK, Gsd
  <2> QED  BY <2>1, <2>2
<1> QED  BY <1>1, InitParser, StepParser, PTL DEF Spec

-----------------------------------------------------------------------------
(* The configuration wizard. *)

\* A number of a type whose bits lie within a byte is written without a refusal,
\* and nothing overflows.
LEMMA HoldsFits ==
  ASSUME NEW type, NEW value, Holds(type, value)
  PROVE  Fits(type, value) /\ ~ArithmeticOverflows(type, value)
<1>1. CASE type.kind = "BitArea"
  <2> DEFINE first == type.first
             last == type.last
             size == last - first + 1
  <2>1. /\ first \in 0 .. 7 /\ last \in first .. 7
        /\ value \in Unsigned(8) /\ value \in Unsigned(size)
    BY <1>1, Zenon DEF Holds
  <2>2. BitSize(type) = size % 256
    BY DEF BitSize
  <2>3. first \in 0 .. 7 /\ last \in first .. 7 => size \in 1 .. 8
    <3> HIDE DEF first, last
    <3> QED  OBVIOUS
  <2> HIDE DEF size
  <2>4. BitSize(type) = size /\ size < 63
    BY <2>1, <2>2, <2>3
  <2>5. Fits(type, value)
    BY <1>1, <2>1, <2>4, Zenon DEF Fits
  <2>6. /\ type.last - type.first \in 0 .. 254
        /\ ~(type.last - type.first > 61) /\ ~(type.first > 7)
    <3>1. last - first \in 0 .. 254 /\ ~(last - first > 61) /\ ~(first > 7)
      <4> HIDE DEF first, last
      <4> QED  BY <2>1
    <3> QED  BY <3>1
  <2> QED  BY <1>1, <2>5, <2>6, Zenon DEF ArithmeticOverflows
<1>2. CASE type.kind = "Bit"
  <2>1. type.bit \in 0 .. 7 /\ value \in {0, 1}
    BY <1>2, Zenon DEF Holds
  <2>2. ~(type.bit > 7)
    BY <2>1
  <2>3. Fits(type, value)
    BY <1>2, <2>1, Zenon DEF Fits
  <2> QED  BY <1>2, <2>2, <2>3, Zenon DEF ArithmeticOverflows
<1>3. CASE type.kind \notin {"Bit", "BitArea"}
  <2>1. Fits(type, value)
    BY <1>3, Zenon DEF Holds, Fits
  <2> QED  BY <1>3, <2>1, Zenon DEF ArithmeticOverflows
<1> QED  BY <1>1, <1>2, <1>3

\* The result of such a write is expect()ed with reason.
LEMMA WriteSucceeds ==
  ASSUME NEW type, NEW value, Holds(type, value), NEW prm, NEW offset
  PROVE  Write(type, value, prm, offset) =
           [ok |-> TRUE, overflow |-> FALSE, prm |-> WriteValue(type, value, prm, offset)]
<1> DEFINE new == WriteValue(type, value, prm, offset)
           overflow == ArithmeticOverflows(type, value)
<1>1. Fits(type, value) /\ overflow = FALSE
  <2>1. overflow \in BOOLEAN
    BY DEF ArithmeticOverflows
  <2> QED  BY <2>1, HoldsFits
<1>2. Write(type, value, prm, offset) = [Written(new) EXCEPT !.overflow = overflow]
  BY <1>1 DEF Write
<1> HIDE DEF new, overflow
<1> QED  BY <1>1, <1>2 DEF Written, new

\* The default values, written one after the other.
WriteDefault(c, builder, ref) ==
  IF builder.ok
  THEN [Write(ref.def.type, ref.def.default,
              UpdatePrmDataLen(builder.prm, ref.offset + TypeSize(ref.def.type)), ref.offset)
        EXCEPT !.overflow = @ \/ builder.overflow]
  ELSE builder
BuilderOK(c, builder) == ~MayPanic(builder)
BuilderFold == INSTANCE FoldInduction WITH Op <- WriteDefault, Inv <- BuilderOK

\* PrmBuilder::new() succeeds on sound data, by induction over its parameters.
LEMMA BuilderSucceeds ==
  ASSUME NEW d, DataOK(d), SoundData(d)
  PROVE  ~MayPanic(NewBuilder(d))
<1> DEFINE start == Written(WriteConstPrmData(d))
           refs == d.data_ref
<1>1. NewBuilder(d) = BuilderFold!Fold({}, start, refs)
  BY DEF NewBuilder, BuilderFold!Fold, WriteDefault, BuilderFold!FoldLeft, FoldLeft,
         BuilderFold!MapThenFoldSet, MapThenFoldSet, BuilderFold!Max, Max
<1>2. BuilderOK({}, start)
  BY DEF BuilderOK, MayPanic, Written
<1>3. /\ Len(refs) \in Nat /\ DOMAIN refs = 1 .. Len(refs)
      /\ \A i \in 1 .. Len(refs) : Holds(refs[i].def.type, refs[i].def.default)
  BY SeqDomain DEF DataOK, SoundData, SoundDefinition
<1> HIDE DEF start, refs
<1>4. ASSUME NEW b, NEW i \in 1 .. Len(refs), BuilderOK({}, b) PROVE BuilderOK({}, WriteDefault({}, b, refs[i]))
  <2> DEFINE def == refs[i].def
             prm == UpdatePrmDataLen(b.prm, refs[i].offset + TypeSize(def.type))
             new == WriteValue(def.type, def.default, prm, refs[i].offset)
  <2>1. b.ok /\ ~b.overflow
    BY <1>4 DEF BuilderOK, MayPanic
  <2>2. Write(def.type, def.default, prm, refs[i].offset) = [ok |-> TRUE, overflow |-> FALSE, prm |-> new]
    BY <1>3, WriteSucceeds
  <2>3. WriteDefault({}, b, refs[i]) =
          [[ok |-> TRUE, overflow |-> FALSE, prm |-> new] EXCEPT !.overflow = @ \/ b.overflow]
    BY <2>1, <2>2 DEF WriteDefault
  <2> HIDE DEF new
  <2> QED  BY <2>1, <2>3 DEF BuilderOK, MayPanic
<1>5. BuilderOK({}, BuilderFold!Fold({}, start, refs))
  BY <1>2, <1>3, <1>4, BuilderFold!FoldKeeps
<1> QED  BY <1>1, <1>5 DEF BuilderOK

\* A parameter of sound data is found by its name, and no other one is.
LEMMA OwnName ==
  ASSUME NEW d, DataOK(d), SoundData(d), NEW next \in DOMAIN d.data_ref
  PROVE  GetPrm(d, d.data_ref[next].def.name) = next /\ next # 0
<1> DEFINE refs == d.data_ref
           I == {i \in 1 .. Len(refs) : refs[i].def.name = refs[next].def.name}
<1>1. Len(refs) \in Nat /\ DOMAIN refs = 1 .. Len(refs)
  BY SeqDomain DEF DataOK
<1>2. I = {next}
  BY <1>1 DEF SoundData
<1>3. Min({next}) = next
  BY <1>1 DEF Min
<1>4. GetPrm(d, refs[next].def.name) = IF I # {} THEN Min(I) ELSE 0
  BY DEF GetPrm, SelectInSeq
<1> HIDE DEF I
<1> QED  BY <1>1, <1>2, <1>3, <1>4

\* set_prm() and set_prm_from_text() take every valid value that its type holds.
LEMMA SetSucceeds ==
  ASSUME NEW d, DataOK(d), SoundData(d), NEW next \in DOMAIN d.data_ref, NEW prm, NEW value,
         Valid(d.data_ref[next].def.constraint, value), Holds(d.data_ref[next].def.type, value)
  PROVE  /\ ~MayPanic(SetPrm(d, prm, d.data_ref[next].def.name, value))
         /\ \A text \in DOMAIN d.data_ref[next].def.texts :
              d.data_ref[next].def.texts[text] = value =>
                ~MayPanic(SetPrmFromText(d, prm, d.data_ref[next].def.name, text))
<1>1. GetPrm(d, d.data_ref[next].def.name) = next /\ next # 0
  BY OwnName
<1>2. ~MayPanic(WriteConstrained(d.data_ref[next], value, prm))
  BY WriteSucceeds DEF WriteConstrained, MayPanic
<1> QED  BY <1>1, <1>2 DEF SetPrm, SetPrmFromText

\* The definitions of sound data are sound.
LEMMA SoundDef ==
  ASSUME NEW d, DataOK(d), SoundData(d), NEW next \in DOMAIN d.data_ref
  PROVE  SoundDefinition(d.data_ref[next].def)
  BY SeqDomain DEF DataOK, SoundData

\* Whatever the user answers, a prompt of sound data does not panic.
LEMMA AskSucceeds ==
  ASSUME stage = "Parameters", AskParameter, DataOK(CurrentData), SoundData(CurrentData)
  PROVE  stage' = "Parameters"
<1> DEFINE d == CurrentData
           def == d.data_ref[job.next].def
<1>1. job.next \in DOMAIN d.data_ref /\ def = CurrentDef
  BY DEF AskParameter, CurrentDef
<1>2. SoundDefinition(def)
  BY <1>1, SoundDef
<1> HIDE DEF d, def
<1>3. \A value, prm : Valid(def.constraint, value) /\ Holds(def.type, value) =>
        /\ ~MayPanic(SetPrm(d, prm, def.name, value))
        /\ \A text \in DOMAIN def.texts :
             def.texts[text] = value => ~MayPanic(SetPrmFromText(d, prm, def.name, text))
  BY <1>1, SetSucceeds DEF d, def
<1>4. CASE ~Asked(def)
  BY <1>1, <1>4 DEF AskParameter
<1>5. CASE Asked(def) /\ def.texts # NoTexts
  <2>1. def.default \in Range(def.texts) /\ \A v \in Range(def.texts) : Valid(def.constraint, v) /\ Holds(def.type, v)
    BY <1>2, <1>5 DEF SoundDefinition
  <2>2. ChooseText(def)
    BY <1>1, <1>5 DEF AskParameter
  <2>3. PICK text \in DOMAIN def.texts : Set(SetPrmFromText(d, job.prm, def.name, text), def.texts[text])
    BY <2>1, <2>2 DEF ChooseText, d
  <2>4. ~MayPanic(SetPrmFromText(d, job.prm, def.name, text))
    BY <1>3, <2>1, <2>3 DEF Range
  <2> QED  BY <2>3, <2>4 DEF Set
<1>6. CASE Asked(def) /\ def.texts = NoTexts /\ def.constraint.kind = "Enum"
  <2>1. def.default \in def.constraint.values /\ \A v \in def.constraint.values : Holds(def.type, v)
    BY <1>2, <1>6 DEF SoundDefinition, Valid
  <2>2. ChooseValue(def)
    BY <1>1, <1>6 DEF AskParameter
  <2>3. PICK value \in def.constraint.values : Set(SetPrm(d, job.prm, def.name, value), value)
    BY <2>1, <2>2 DEF ChooseValue, d
  <2>4. Valid(def.constraint, value) /\ Holds(def.type, value)
    BY <1>6, <2>1 DEF Valid
  <2>5. ~MayPanic(SetPrm(d, job.prm, def.name, value))
    BY <1>3, <2>4
  <2> QED  BY <2>3, <2>5 DEF Set
<1>7. CASE Asked(def) /\ def.texts = NoTexts /\ def.constraint.kind # "Enum"
  <2>1. TypeValue(def)
    BY <1>1, <1>7 DEF AskParameter
  <2>2. PICK value \in Inputs \cup {def.default} :
          Valid(def.constraint, value) /\ Set(SetPrm(d, job.prm, def.name, value), value)
    BY <2>1 DEF TypeValue, d
  <2>3. Holds(def.type, value)
    BY <1>2, <1>7, <2>2 DEF SoundDefinition
  <2>5. ~MayPanic(SetPrm(d, job.prm, def.name, value))
    BY <1>3, <2>2, <2>3
  <2> QED  BY <2>2, <2>5 DEF Set
<1> QED  BY <1>4, <1>5, <1>6, <1>7

\* The first module of a name that occurs is one of the modules.
LEMMA FirstNamed ==
  ASSUME NEW ms, IsSeq(ms), NEW m \in Range(ms)
  PROVE  ms[SelectInSeq(ms, LAMBDA x : x.name = m.name)] \in Range(ms)
<1> DEFINE I == {i \in 1 .. Len(ms) : ms[i].name = m.name}
<1>1. Len(ms) \in Nat /\ DOMAIN ms = 1 .. Len(ms) /\ \A i \in 1 .. Len(ms) : ms[i] \in Range(ms)
  BY SeqDomain
<1>2. I # {} /\ I \in SUBSET (1 .. Len(ms))
  BY <1>1 DEF Range
<1>3. SelectInSeq(ms, LAMBDA x : x.name = m.name) = Min(I)
  <2>1. SelectInSeq(ms, LAMBDA x : x.name = m.name) = IF I # {} THEN Min(I) ELSE 0
    BY DEF SelectInSeq
  <2> HIDE DEF I
  <2> QED  BY <1>2, <2>1
<1> HIDE DEF I
<1>4. Min(I) \in 1 .. Len(ms)
  BY <1>1, <1>2, FirstIndex
<1> QED  BY <1>1, <1>3, <1>4

\* The modules offered are those of the file; without warnings the default is offered.
LEMMA AllowedSound ==
  ASSUME ParserInv
  PROVE  /\ IsSeq(AllowedModules) /\ Range(AllowedModules) \subseteq Range(Gsd.available_modules)
         /\ ~parser.warned => ~DefaultIsMissing
<1> DEFINE slots == Gsd.slots
           I == {i \in 1 .. Len(slots) : slots[i].number = SlotNumber}
<1>1. SlotsOK(slots, Gsd.available_modules, parser.warned) /\ ModulesOK(Gsd.available_modules)
  BY DEF ParserInv, ParserOK, Gsd
<1>2. Len(slots) \in Nat /\ DOMAIN slots = 1 .. Len(slots) /\ \A i \in 1 .. Len(slots) : slots[i] \in Range(slots)
  BY <1>1, SeqDomain DEF SlotsOK
<1>3. SlotIndex = IF I # {} THEN Min(I) ELSE 0
  BY DEF SlotIndex, SelectInSeq
<1>4. I \in SUBSET (1 .. Len(slots))
  OBVIOUS
<1> HIDE DEF I, slots
<1>5. CASE SlotIndex = 0
  BY <1>1, <1>5 DEF AllowedModules, DefaultIsMissing, ModulesOK
<1>6. CASE SlotIndex # 0
  <2>1. SlotIndex \in 1 .. Len(slots)
    <3>1. I # {}
      BY <1>3, <1>6
    <3> QED  BY <1>2, <1>3, <1>4, <3>1, FirstIndex
  <2> DEFINE slot == slots[SlotIndex]
  <2>2. SlotOK(slot, Gsd.available_modules, parser.warned)
    BY <1>1, <1>2, <2>1 DEF SlotsOK
  <2>3. AllowedModules = slot.allowed_modules
    BY <1>6 DEF AllowedModules, slots
  <2>4. DefaultIsMissing => slot.default.name \notin {m.name : m \in Range(AllowedModules)}
    BY DEF DefaultIsMissing, slots
  <2> HIDE DEF slot
  <2> QED  BY <2>2, <2>3, <2>4 DEF SlotOK
<1> QED  BY <1>5, <1>6

\* The fields of the wizard's state.
IsJob(j) ==
  j = [prm |-> j.prm, next |-> j.next, user_prm |-> j.user_prm, selected |-> j.selected,
       chosen |-> j.chosen, inputs |-> j.inputs, outputs |-> j.outputs]

\* Only modules of the file are selected, and none before the file is read.
WizardInv ==
  /\ IsJob(job) /\ IsSeq(job.selected)
  /\ \A x \in Range(job.selected) : x.taken \in Range(Gsd.available_modules)
  /\ stage \in {"Idle", "Wizard", "Diagnostics"} => job.selected = <<>>

\* No warning and sound definitions, as SoundFilesConfigure requires.
SoundFile(p) ==
  /\ ~p.warned /\ SoundData(p.gsd.user_prm_data)
  /\ \A m \in Range(p.gsd.available_modules) : SoundData(m.prm)

\* The invariant of the wizard's answers holds initially,
LEMMA InitWizard == Init => WizardInv
  BY EmptySeqs DEF Init, WizardInv, NewJob, IsJob

\* A prompt leaves the selected modules alone.
LEMMA AnswerKeepsModules ==
  ASSUME IsJob(job), AskParameter
  PROVE  IsJob(job') /\ job'.selected = job.selected /\ stage' \in {stage, "Panicked"}
<1>1. ASSUME NEW result, NEW value, Set(result, value)
      PROVE  IsJob(job') /\ job'.selected = job.selected /\ stage' \in {stage, "Panicked"}
  <2> DEFINE chosen == job.chosen \cup {<<Len(job.selected), job.next, value>>}
             next == job.next + 1
  <2>1. ASSUME job' = [job EXCEPT !.prm = result.prm, !.next = next, !.chosen = chosen], stage' = stage
        PROVE  IsJob(job') /\ job'.selected = job.selected /\ stage' \in {stage, "Panicked"}
    <3> HIDE DEF chosen, next
    <3> QED  BY <2>1 DEF IsJob
  <2>2. CASE Panic
    BY <2>2 DEF Panic
  <2> QED  BY <1>1, <2>1, <2>2 DEF Set
<1>2. ASSUME Panic PROVE IsJob(job') /\ job'.selected = job.selected /\ stage' \in {stage, "Panicked"}
  BY <1>2 DEF Panic
<1>3. ASSUME job' = [job EXCEPT !.next = @ + 1] /\ UNCHANGED stage
      PROVE  IsJob(job') /\ job'.selected = job.selected /\ stage' \in {stage, "Panicked"}
  <2> DEFINE next == job.next + 1
  <2>1. job' = [job EXCEPT !.next = next] /\ stage' = stage
    BY <1>3
  <2> HIDE DEF next
  <2> QED  BY <2>1 DEF IsJob
<1> QED  BY <1>1, <1>2, <1>3 DEF AskParameter, ChooseText, ChooseValue, TypeValue

\* and is kept by every step.
LEMMA StepWizard == ParserInv /\ WizardInv /\ [Next]_vars => WizardInv'
<1> SUFFICES ASSUME ParserInv, WizardInv, [Next]_vars PROVE WizardInv'
  OBVIOUS
<1>1. CASE Finish
  <2>1. job.selected = <<>> /\ stage' \in {"Parameters", "Panicked"}
    BY <1>1 DEF Finish, AskParameters, Panic, WizardInv
  <2>2. IsJob(job') /\ job'.selected = <<>>
    <3>1. CASE job' = job
      BY <2>1, <3>1 DEF WizardInv
    <3>2. ASSUME job' # job PROVE IsJob(job') /\ job'.selected = <<>>
      <4>1. PICK prm : job' = [job EXCEPT !.prm = prm, !.next = 1]
        BY <1>1, <3>2 DEF Finish, AskParameters, Panic
      <4> QED  BY <2>1, <4>1 DEF WizardInv, IsJob
    <3> QED  BY <3>1, <3>2
  <2> QED  BY <2>1, <2>2, EmptySeqs DEF WizardInv
<1>2. CASE AskParameter
  <2>1. /\ IsJob(job') /\ job'.selected = job.selected /\ stage' \in {"Parameters", "Panicked"}
        /\ parser' = parser
    BY <1>2, AnswerKeepsModules DEF WizardInv, AskParameter
  <2> QED  BY <2>1 DEF WizardInv, Gsd
<1>3. CASE ParametersDone
  <2> DEFINE user_prm == job.user_prm \o job.prm
  <2>1. job' = [job EXCEPT !.user_prm = user_prm] /\ stage' = "Modules" /\ parser' = parser
    BY <1>3 DEF ParametersDone
  <2> HIDE DEF user_prm
  <2>2. IsJob(job') /\ job'.selected = job.selected
    BY <2>1 DEF WizardInv, IsJob
  <2> QED  BY <2>1, <2>2 DEF WizardInv, Gsd
<1>4. CASE SelectModule
  <2>1. parser' = parser /\ stage' \in {"Parameters", "Panicked"}
    BY <1>4 DEF SelectModule, Panic
  <2>2. CASE job' = job
    BY <2>1, <2>2 DEF WizardInv, Gsd
  <2>3. ASSUME job' # job PROVE WizardInv'
    <3>0. PICK shown \in Range(AllowedModules) : \E prm :
            job' = [job EXCEPT !.prm = prm, !.next = 1,
                      !.selected = Append(@, [shown |-> shown, taken |-> TakenModule(shown)])]
      BY <1>4, <2>3 DEF SelectModule, Panic
    <3>1. PICK prm :
            job' = [job EXCEPT !.prm = prm, !.next = 1,
                      !.selected = Append(@, [shown |-> shown, taken |-> TakenModule(shown)])]
      BY <3>0
    <3>2. TakenModule(shown) \in Range(Gsd.available_modules)
      BY AllowedSound, FirstNamed DEF TakenModule
    <3> DEFINE new == [shown |-> shown, taken |-> TakenModule(shown)]
               selected == Append(job.selected, new)
    <3>3. IsSeq(selected) /\ Range(selected) = Range(job.selected) \cup {new}
      BY AppendSeq DEF WizardInv
    <3>4. new.taken \in Range(Gsd.available_modules)
      BY <3>2
    <3>5. job' = [job EXCEPT !.prm = prm, !.next = 1, !.selected = selected]
      BY <3>1
    <3> HIDE DEF new, selected
    <3>6. IsJob(job') /\ job'.selected = selected
      BY <3>5 DEF WizardInv, IsJob
    <3> QED  BY <2>1, <3>3, <3>4, <3>6 DEF WizardInv, Gsd
  <2> QED  BY <2>2, <2>3
<1>5. CASE PrintConfiguration
  <2>1. parser' = parser /\ stage' \in {"Printed", "Panicked"}
    BY <1>5 DEF PrintConfiguration, Panic
  <2>2. CASE job' = job
    BY <2>1, <2>2 DEF WizardInv, Gsd
  <2>3. ASSUME job' # job PROVE WizardInv'
    <3>1. PICK inputs, outputs : job' = [job EXCEPT !.inputs = inputs, !.outputs = outputs]
      BY <1>5, <2>3 DEF PrintConfiguration, Panic
    <3>2. IsJob(job') /\ job'.selected = job.selected
      BY <3>1 DEF WizardInv, IsJob
    <3> QED  BY <2>1, <3>2 DEF WizardInv, Gsd
  <2> QED  BY <2>2, <2>3
<1>6. CASE RunConfigWizard \/ RunDiagnostics \/ Read \/ Refuse \/ Interpret
  <2>1. job' = job /\ job.selected = <<>>
    BY <1>6 DEF RunConfigWizard, RunDiagnostics, Read, Refuse, Interpret, WizardInv
  <2> QED  BY <2>1, EmptySeqs DEF WizardInv
<1>7. CASE Report \/ NextDiagBlock \/ UNCHANGED vars
  <2>1. UNCHANGED <<stage, parser, job>>
    BY <1>7 DEF Report, NextDiagBlock, vars
  <2> QED  BY <2>1 DEF WizardInv, Gsd
<1> QED  BY <1>1, <1>2, <1>3, <1>4, <1>5, <1>6, <1>7 DEF Next

\* The configuration bytes depend on the answers only.
LEMMA SameConfig == job' = job => ModuleConfig' = ModuleConfig
  BY DEF ModuleConfig, FoldLeft, MapThenFoldSet, Max

\* The user parameters of the station, and of every module, have their parts.
LEMMA FileDataOK ==
  ASSUME NEW c, NEW p, ParserOK(c, p)
  PROVE  DataOK(p.gsd.user_prm_data) /\ \A m \in Range(p.gsd.available_modules) : DataOK(m.prm)
  BY DEF ParserOK, StationOK, LegacyOK, ModulesOK

\* In a sound file the data that is asked for is sound.
LEMMA CurrentIsSound ==
  ASSUME ParserInv, WizardInv, SoundFile(parser)
  PROVE  DataOK(CurrentData) /\ SoundData(CurrentData)
<1>1. CASE job.selected = <<>>
  BY <1>1, FileDataOK DEF CurrentData, ParserInv, SoundFile, Gsd
<1>2. CASE job.selected # <<>>
  <2> DEFINE last == job.selected[Len(job.selected)]
  <2>1. last \in Range(job.selected)
    <3>1. job.selected \in Seq(Range(job.selected))
      BY DEF WizardInv, IsSeq
    <3>2. Len(job.selected) \in DOMAIN job.selected
      BY <1>2, <3>1
    <3> QED  BY <3>2 DEF Range
  <2>2. CurrentData = last.taken.prm
    BY <1>2, Zenon DEF CurrentData, Last
  <2>3. last.taken \in Range(Gsd.available_modules)
    BY <2>1 DEF WizardInv
  <2> HIDE DEF last
  <2> QED  BY <2>2, <2>3, FileDataOK DEF ParserInv, SoundFile, Gsd
<1> QED  BY <1>1, <1>2

\* With a sound file the wizard panics on an overflow of the lengths only.
LEMMA PanicMeans ==
  ASSUME ParserInv, ParserInv', WizardInv, Next, stage' = "Panicked", iterator'.blocks = <<>>,
         SoundFile(parser')
  PROVE  Overflows(IoLengths(ModuleConfig'))
<1>1. CASE Finish
  <2>1. DataOK(parser'.gsd.user_prm_data)
    BY FileDataOK DEF ParserInv
  <2>2. ~MayPanic(NewBuilder(parser'.gsd.user_prm_data))
    BY <2>1, BuilderSucceeds DEF SoundFile
  <2> QED  BY <1>1, <2>2 DEF Finish, AskParameters
<1>2. CASE AskParameter
  <2>1. parser' = parser /\ stage = "Parameters"
    BY <1>2 DEF AskParameter
  <2>2. SoundFile(parser)
    BY <2>1
  <2> QED  BY <1>2, <2>1, <2>2, CurrentIsSound, AskSucceeds
<1>3. CASE SelectModule
  <2>1. parser' = parser /\ ~parser.warned
    BY <1>3 DEF SelectModule, SoundFile
  <2>2. ~DefaultIsMissing
    BY <2>1, AllowedSound
  <2>3. \A shown \in Range(AllowedModules) : ~MayPanic(NewBuilder(TakenModule(shown).prm))
    <3> TAKE shown \in Range(AllowedModules)
    <3>1. TakenModule(shown) \in Range(Gsd.available_modules)
      BY AllowedSound, FirstNamed DEF TakenModule
    <3>2. DataOK(TakenModule(shown).prm) /\ SoundData(TakenModule(shown).prm)
      BY <2>1, <3>1, FileDataOK DEF ParserInv, SoundFile, Gsd
    <3> QED  BY <3>2, BuilderSucceeds
  <2> QED  BY <1>3, <2>2, <2>3 DEF SelectModule
<1>4. CASE PrintConfiguration
  <2>1. Overflows(IoLengths(ModuleConfig)) /\ job' = job
    BY <1>4 DEF PrintConfiguration, Panic
  <2> QED  BY <2>1, SameConfig
<1>5. CASE Interpret
  <2>1. iterator' = iterator /\ DeviceBlocks # {}
    BY <1>5 DEF Interpret
  <2>2. Range(iterator.blocks) # {}
    BY <2>1 DEF DeviceBlocks
  <2> QED  BY <2>1, <2>2, EmptySeqs
<1>6. CASE Report \/ NextDiagBlock \/ RunConfigWizard \/ RunDiagnostics \/ Read \/ Refuse \/ ParametersDone
  BY <1>6 DEF Report, NextDiagBlock, RunConfigWizard, RunDiagnostics, Read, Refuse, ParametersDone
<1> QED  BY <1>1, <1>2, <1>3, <1>4, <1>5, <1>6 DEF Next

\* The wizard gets to its end with every file that the parser did not warn about
\* and whose definitions are sound, with every answer its prompts accept, unless
\* more than 255 bytes of inputs or outputs are configured.
THEOREM SoundFilesHold == Spec => []SoundFilesConfigure
<1>1. Init => SoundFilesConfigure
  BY DEF Init, SoundFilesConfigure
<1>2. ParserInv /\ WizardInv /\ ParserInv' /\ SoundFilesConfigure /\ [Next]_vars => SoundFilesConfigure'
  <2> SUFFICES ASSUME ParserInv, WizardInv, ParserInv', SoundFilesConfigure, [Next]_vars,
                      stage' = "Panicked", iterator'.blocks = <<>>
               PROVE  SoundFilesConfigure'
    BY DEF SoundFilesConfigure
  <2>1. CASE Next
    <3>1. CASE SoundFile(parser')
      <4>1. Overflows(IoLengths(ModuleConfig'))
        BY <2>1, <3>1, PanicMeans
      <4>2. Overflows(IoLengths(ModuleConfig))'
        BY <4>1
      <4> QED  BY <4>2 DEF SoundFilesConfigure
    <3>2. CASE ~SoundFile(parser')
      BY <3>2 DEF SoundFilesConfigure, SoundFile, Gsd
    <3> QED  BY <3>1, <3>2
  <2>2. CASE UNCHANGED vars
    <3>1. UNCHANGED <<stage, parser, job, iterator>>
      BY <2>2 DEF vars
    <3>2. ModuleConfig' = ModuleConfig
      BY <3>1, SameConfig
    <3> QED  BY <3>1, <3>2 DEF SoundFilesConfigure, Gsd
  <2> QED  BY <2>1, <2>2
<1> QED  BY <1>1, <1>2, InitParser, StepParser, InitWizard, StepWizard, PTL DEF Spec

-----------------------------------------------------------------------------
(* The blocks of a report. *)

Byte == 0 .. 255

\* The bytes of the blocks, one block after the other.
AddEncoded(c, bytes, block) == bytes \o Encoded(block)
Anyhow(c, a) == TRUE
Cat == INSTANCE FoldInduction WITH Op <- AddEncoded, Inv <- Anyhow

Seen(blocks) == Cat!Fold({}, <<>>, blocks)

\* The blocks next() returns, and lists of which every channel has a valid type.
Blocks == [kind : {"Device", "Identifier"}, bytes : Seq(Byte)]
          \cup {Channel(b) : b \in Seq(Byte)}

Typed(blocks) == \A i \in DOMAIN blocks : blocks[i].kind = "Channel" => blocks[i].dtype # "Invalid"

\* The blocks stand for the bytes up to the cursor, and where the iteration
\* stopped, for those up to the end or to the offending block.
SeenOK(it) ==
  LET seen == Seen(it.blocks)
      rest == SubSeq(it.data, Len(seen) + 1, Len(it.data))
  IN  /\ seen \in Seq(Byte)
      /\ Len(seen) <= Len(it.data)
      /\ seen = SubSeq(it.data, 1, Len(seen))
      /\ it.state = "Going" => it.cursor = Len(seen)
      /\ it.state = "Ended" => rest = <<>>
      /\ it.state = "CutOff" => rest # <<>> /\ (HeaderKind(rest[1]) = "Reserved" \/ ~FitsInto(rest))
      /\ it.state = "Panicked" => ~IsAvailable(ext_diag) \/ (rest # <<>> /\ BlockLength(rest[1]) = 0)

\* The bytes seen are those that the property speaks of.
LEMMA SeenIsFold == Seen(iterator.blocks) = FoldLeft(LAMBDA b, block : b \o Encoded(block), <<>>, iterator.blocks)
BY DEF Seen, Cat!Fold, AddEncoded, Cat!FoldLeft, FoldLeft, Cat!MapThenFoldSet, MapThenFoldSet, Cat!Max, Max

\* No block stands for no byte.
LEMMA SeenNothing == Seen(<<>>) = <<>>
BY Cat!FoldEmpty DEF Seen

\* A block more stands for its bytes more.
LEMMA SeenMore ==
  ASSUME NEW blocks \in Seq(Blocks), NEW block \in Blocks
  PROVE Seen(Append(blocks, block)) = Seen(blocks) \o Encoded(block)
<1>1. Seen(Append(blocks, block)) = AddEncoded({}, Seen(blocks), block)
  BY Cat!FoldAppend DEF Seen
<1> QED BY <1>1 DEF AddEncoded

\* The position of a data type in its list is found again,
LEMMA DataTypeBack ==
  ASSUME NEW i \in 1..6
  PROVE SelectInSeq(DataTypes, LAMBDA d : d = DataTypes[i]) = i
<1>1. \A j \in 1..7 : DataTypes[j] = DataTypes[i] <=> j = i
  BY DEF DataTypes
<1>2. Len(DataTypes) = 7
  BY DEF DataTypes
<1>3. {j \in 1..Len(DataTypes) : DataTypes[j] = DataTypes[i]} = {i}
  BY <1>1, <1>2
<1>4. Min({i}) = i
  BY DEF Min
<1> QED BY <1>3, <1>4 DEF SelectInSeq

\* and so is that of an error.
LEMMA ErrorBack ==
  ASSUME NEW i \in 1..9
  PROVE SelectInSeq(ChannelErrors, LAMBDA d : d = ChannelErrors[i]) = i
<1>1. \A j \in 1..9 : ChannelErrors[j] = ChannelErrors[i] <=> j = i
  BY DEF ChannelErrors
<1>2. Len(ChannelErrors) = 9
  BY DEF ChannelErrors
<1>3. {j \in 1..Len(ChannelErrors) : ChannelErrors[j] = ChannelErrors[i]} = {i}
  BY <1>1, <1>2
<1>4. Min({i}) = i
  BY DEF Min
<1> QED BY <1>3, <1>4 DEF SelectInSeq

\* The low bits of the third byte of a channel block are recovered from its error,
LEMMA ErrorByteBack ==
  ASSUME NEW byte \in Byte
  PROVE  ErrorToByte(ErrorOfByte(byte)) = byte % 32
<1> DEFINE code == byte % 32
<1>0. code \in 0..31 BY DEF Byte
<1>2. DOMAIN ChannelErrors = 1..9
  BY DEF ChannelErrors
<1> HIDE DEF code
<1>3. CASE code \in 1..9
  <2>1. ErrorOfByte(byte) = [name |-> ChannelErrors[code], code |-> 0]
    BY <1>3, <1>2 DEF ErrorOfByte, code
  <2>2. ChannelErrors[code] \notin {"Vendor", "Reserved"}
    BY <1>3 DEF ChannelErrors
  <2>3. ErrorToByte(ErrorOfByte(byte)) = SelectInSeq(ChannelErrors, LAMBDA e : e = ChannelErrors[code])
    BY <2>1, <2>2 DEF ErrorToByte, SelectInSeq
  <2>4. SelectInSeq(ChannelErrors, LAMBDA e : e = ChannelErrors[code]) = code
    BY <1>3, ErrorBack
  <2> QED BY <2>3, <2>4 DEF code
<1>4. CASE code \notin 1..9
  <2>1. ErrorOfByte(byte) = [name |-> IF code >= 16 THEN "Vendor" ELSE "Reserved", code |-> code]
    BY <1>4, <1>2 DEF ErrorOfByte, code
  <2> QED BY <2>1 DEF ErrorToByte, code
<1> QED BY <1>3, <1>4

\* and the high ones from its data type, unless that is invalid.
LEMMA TypeByteBack ==
  ASSUME NEW byte \in Byte, DataTypeOfByte(byte) # "Invalid"
  PROVE DataTypeToByte(DataTypeOfByte(byte)) = 32 * (byte \div 32)
<1> DEFINE i == byte \div 32
<1>1. i \in 1..6 /\ DataTypeOfByte(byte) = DataTypes[i]
  BY DEF DataTypeOfByte
<1> HIDE DEF i
<1>2. SelectInSeq(DataTypes, LAMBDA d : d = DataTypes[i]) = i
  BY <1>1, DataTypeBack
<1>3. DataTypeToByte(DataTypes[i]) = 32 * i
  BY <1>2 DEF DataTypeToByte, SelectInSeq
<1> QED BY <1>1, <1>3 DEF i

\* Quotients and remainders of a byte.
LEMMA Division ==
  ASSUME NEW x \in Byte
  PROVE  /\ x \div 64 \in 0 .. 3 /\ x % 64 \in 0 .. 63 /\ x % 64 = x - 64 * (x \div 64)
         /\ x \div 32 \in 0 .. 7 /\ x % 32 \in 0 .. 31 /\ x % 32 = x - 32 * (x \div 32)
         /\ (x \div 64) % 2 = (IF x \div 64 \in {1, 3} THEN 1 ELSE 0)
         /\ x >= 128 <=> x \div 64 \in {2, 3}
  BY DEF Byte

\* What the two high bits of a header say of the low ones.
LEMMA KindOfHeader ==
  ASSUME NEW x \in Byte
  PROVE  /\ HeaderKind(x) \in {"Device", "Identifier", "Channel", "Reserved"}
         /\ HeaderKind(x) = "Device" => x % 64 = x
         /\ HeaderKind(x) = "Identifier" => x % 64 = x - 64
         /\ HeaderKind(x) = "Channel" => x % 64 = x - 128
<1> DEFINE q == x \div 64
<1>1. q \in 0 .. 3 /\ x % 64 = x - 64 * q
  BY Division
<1>2. HeaderKind(x) = CASE q = 0 -> "Device" [] q = 1 -> "Identifier" [] q = 2 -> "Channel" [] q = 3 -> "Reserved"
  BY DEF HeaderKind
<1> HIDE DEF q
<1>x. x \in Int
  BY DEF Byte
<1>3. CASE q = 0
  BY <1>1, <1>2, <1>3, <1>x
<1>4. CASE q = 1
  BY <1>1, <1>2, <1>4, <1>x
<1>5. CASE q = 2
  BY <1>1, <1>2, <1>5, <1>x
<1>6. CASE q = 3
  BY <1>1, <1>2, <1>6, <1>x
<1> QED  BY <1>1, <1>3, <1>4, <1>5, <1>6

\* The header of a channel block is recovered from its module.
LEMMA HeaderBack ==
  ASSUME NEW x \in Byte, HeaderKind(x) = "Channel"
  PROVE  128 + (x % 64) = x
<1>1. x \in Int /\ x % 64 = x - 128
  BY KindOfHeader DEF Byte
<1> HIDE DEF Byte
<1>2. x % 64 \in Int
  BY <1>1
<1> DEFINE m == x % 64
<1>3. m \in Int /\ m = x - 128
  BY <1>1, <1>2
<1> HIDE DEF m
<1>0. x \in Int
  BY <1>1
<1>4. 128 + m = x
  BY <1>0, <1>3
<1> QED  BY <1>4 DEF m

\* That of the others is recovered from their length.
LEMMA LengthOfHeader ==
  ASSUME NEW x \in Byte, HeaderKind(x) \in {"Device", "Identifier"}, BlockLength(x) # 0
  PROVE  /\ BlockLength(x) \in 1 .. 63
         /\ HeaderKind(x) = "Device" => x = BlockLength(x)
         /\ HeaderKind(x) = "Identifier" => x = BlockLength(x) + 64
<1>1. x \in Int /\ BlockLength(x) = x % 64 /\ x % 64 \in 0 .. 63
  BY Division DEF Byte, BlockLength
<1> DEFINE m == x % 64
<1>2. m \in 0 .. 63 /\ (HeaderKind(x) = "Device" => m = x) /\ (HeaderKind(x) = "Identifier" => m = x - 64)
  BY <1>1, KindOfHeader
<1>3. BlockLength(x) = m
  BY <1>1
<1> HIDE DEF m
<1> QED  BY <1>1, <1>2, <1>3

\* The second byte of a channel block is recovered from its parts.
LEMMA ChannelByteBack ==
  ASSUME NEW x \in Byte
  PROVE  (x % 64) + (IF (x \div 64) % 2 = 1 THEN 64 ELSE 0) + (IF x >= 128 THEN 128 ELSE 0) = x
<1> DEFINE q == x \div 64
           m == x % 64
<1>1. x \in Int /\ q \in 0 .. 3 /\ m \in 0 .. 63 /\ m = x - 64 * q
  BY Division DEF Byte
<1>2. q % 2 = (IF q \in {1, 3} THEN 1 ELSE 0) /\ (x >= 128 <=> q \in {2, 3})
  BY Division
<1> HIDE DEF q, m
<1>3. m + (IF q % 2 = 1 THEN 64 ELSE 0) + (IF x >= 128 THEN 128 ELSE 0) = x
  <2>1. CASE q = 0
    BY <1>1, <1>2, <2>1
  <2>2. CASE q = 1
    BY <1>1, <1>2, <2>2
  <2>3. CASE q = 2
    BY <1>1, <1>2, <2>3
  <2>4. CASE q = 3
    BY <1>1, <1>2, <2>4
  <2> QED  BY <1>1, <2>1, <2>2, <2>3, <2>4
<1> QED  BY <1>3 DEF q, m

\* The third one is recovered from its parts.
LEMMA ErrorAndTypeBack ==
  ASSUME NEW x \in Byte, DataTypeOfByte(x) # "Invalid"
  PROVE  DataTypeToByte(DataTypeOfByte(x)) + ErrorToByte(ErrorOfByte(x)) = x
<1> DEFINE q == x \div 32
           m == x % 32
<1>1. x \in Int /\ q \in 0 .. 7 /\ m \in 0 .. 31 /\ m = x - 32 * q
  BY Division DEF Byte
<1>2. DataTypeToByte(DataTypeOfByte(x)) = 32 * q /\ ErrorToByte(ErrorOfByte(x)) = m
  BY TypeByteBack, ErrorByteBack
<1> HIDE DEF q, m
<1>3. 32 * q + m = x
  BY <1>1
<1> QED  BY <1>2, <1>3

\* A channel block of a valid data type stands for the three bytes it was read from.
LEMMA ChannelBack ==
  ASSUME NEW b \in Seq(Byte), Len(b) >= 3, HeaderKind(b[1]) = "Channel",
         Channel(b).dtype # "Invalid"
  PROVE  Encoded(Channel(b)) = <<b[1], b[2], b[3]>>
<1>1. b[1] \in Byte /\ b[2] \in Byte /\ b[3] \in Byte
  OBVIOUS
<1> DEFINE c == Channel(b)
<1>2. /\ c.kind = "Channel" /\ c.module = b[1] % 64 /\ c.channel = b[2] % 64
      /\ c.input <=> (b[2] \div 64) % 2 = 1
      /\ c.output <=> b[2] >= 128
      /\ c.dtype = DataTypeOfByte(b[3]) /\ c.error = ErrorOfByte(b[3])
  BY DEF Channel
<1> HIDE DEF c
<1>3. Encoded(c) = <<128 + c.module,
                     c.channel + (IF c.input THEN 64 ELSE 0) + (IF c.output THEN 128 ELSE 0),
                     DataTypeToByte(c.dtype) + ErrorToByte(c.error)>>
  BY <1>2 DEF Encoded
<1>4. 128 + c.module = b[1]
  <2>1. 128 + (b[1] % 64) = b[1]
    BY <1>1, HeaderBack
  <2> QED  BY <1>2, <2>1, Zenon
<1>5. c.channel + (IF c.input THEN 64 ELSE 0) + (IF c.output THEN 128 ELSE 0) = b[2]
  BY <1>1, <1>2, ChannelByteBack
<1>6. DataTypeToByte(c.dtype) + ErrorToByte(c.error) = b[3]
  BY <1>1, <1>2, ErrorAndTypeBack DEF c
<1> QED  BY <1>3, <1>4, <1>5, <1>6 DEF c

\* A block of the other kinds stands for the bytes it was read from.
LEMMA OtherBack ==
  ASSUME NEW b \in Seq(Byte), NEW kind \in {"Device", "Identifier"},
         NEW length \in 1 .. 63, length <= Len(b),
         kind = "Device" => b[1] = length,
         kind = "Identifier" => b[1] = length + 64
  PROVE  Encoded([kind |-> kind, bytes |-> SubSeq(b, 2, length)]) = SubSeq(b, 1, length)
<1> DEFINE r == [kind |-> kind, bytes |-> SubSeq(b, 2, length)]
<1>1. r.kind = kind /\ r.bytes = SubSeq(b, 2, length)
  OBVIOUS
<1> HIDE DEF r
<1>2. r.bytes \in Seq(Byte) /\ Len(r.bytes) = length - 1
  <2>1. \A i \in 2 .. length : b[i] \in Byte
    OBVIOUS
  <2>2. /\ SubSeq(b, 2, length) \in Seq(Byte)
        /\ Len(SubSeq(b, 2, length)) = IF 2 <= length THEN length - 2 + 1 ELSE 0
    BY <2>1, SubSeqProperties
  <2>3. Len(SubSeq(b, 2, length)) = length - 1
    BY <2>2
  <2> QED  BY <1>1, <2>2, <2>3
<1>3. Encoded(r) = <<b[1]>> \o r.bytes
  <2>1. CASE kind = "Device"
    <3>1. Encoded(r) = <<Len(r.bytes) + 1>> \o r.bytes
      BY <1>1, <2>1 DEF Encoded
    <3>2. Len(r.bytes) + 1 = length
      BY <1>2
    <3> QED  BY <2>1, <3>1, <3>2
  <2>2. CASE kind = "Identifier"
    <3>1. Encoded(r) = <<64 + Len(r.bytes) + 1>> \o r.bytes
      BY <1>1, <2>2 DEF Encoded
    <3>2. 64 + Len(r.bytes) + 1 = length + 64
      BY <1>2
    <3> QED  BY <2>2, <3>1, <3>2
  <2> QED  BY <2>1, <2>2
<1>4. SubSeq(b, 1, length) = <<b[1]>> \o SubSeq(b, 2, length)
  <2>1. Len(b) \in Nat
    OBVIOUS
  <2>2. 1 \in 1 .. Len(b) /\ length \in 1 .. Len(b)
    BY <2>1
  <2> QED  BY <2>2, SubSeqRecursiveFirst
<1> QED  BY <1>1, <1>3, <1>4 DEF r

\* Valid data types of all blocks are those of the earlier ones and of the last one.
LEMMA TypedFirst ==
  ASSUME NEW blocks \in Seq(Blocks), NEW block \in Blocks, Typed(Append(blocks, block))
  PROVE  Typed(blocks) /\ (block.kind = "Channel" => block.dtype # "Invalid")
<1> DEFINE more == Append(blocks, block)
<1>1. \A i \in DOMAIN blocks : i \in DOMAIN more /\ more[i] = blocks[i]
  OBVIOUS
<1>2. Len(blocks) + 1 \in DOMAIN more /\ more[Len(blocks) + 1] = block
  OBVIOUS
<1> HIDE DEF more
<1> QED  BY <1>1, <1>2 DEF Typed, more

\* The bytes seen and the next ones of the rest are the bytes seen afterwards.
LEMMA RestOf ==
  ASSUME NEW data \in Seq(Byte), NEW cursor \in Nat, cursor <= Len(data)
  PROVE  LET rest == SubSeq(data, cursor + 1, Len(data)) IN
         /\ rest \in Seq(Byte) /\ Len(rest) = Len(data) - cursor
         /\ \A length \in 1 .. Len(rest) :
               /\ cursor + length <= Len(data)
               /\ SubSeq(data, 1, cursor) \o SubSeq(rest, 1, length) = SubSeq(data, 1, cursor + length)
               /\ SubSeq(data, 1, cursor + length) \in Seq(Byte)
               /\ Len(SubSeq(data, 1, cursor + length)) = cursor + length
<1> DEFINE n == Len(data)
           rest == SubSeq(data, cursor + 1, n)
<1>1. n \in Nat
  OBVIOUS
<1>2. \A i \in 1 .. n : data[i] \in Byte
  OBVIOUS
<1> HIDE DEF n
<1>3. rest \in Seq(Byte) /\ Len(rest) = n - cursor
  <2>1. \A i \in cursor + 1 .. n : data[i] \in Byte
    BY <1>1, <1>2
  <2>2. /\ rest \in Seq(Byte)
        /\ Len(rest) = IF cursor + 1 <= n THEN n - (cursor + 1) + 1 ELSE 0
    BY <1>1, <2>1, SubSeqProperties
  <2> QED  BY <1>1, <2>2 DEF n
<1>4. ASSUME NEW length \in 1 .. Len(rest)
      PROVE  /\ cursor + length <= n
             /\ SubSeq(data, 1, cursor) \o SubSeq(rest, 1, length) = SubSeq(data, 1, cursor + length)
             /\ SubSeq(data, 1, cursor + length) \in Seq(Byte)
             /\ Len(SubSeq(data, 1, cursor + length)) = cursor + length
  <2>1. length \in 1 .. n - cursor
    BY <1>3
  <2>2. /\ cursor + 1 \in 1 .. n /\ n \in 1 .. n
        /\ 1 \in 1 .. n - (cursor + 1) + 1
        /\ length \in 1 .. n - (cursor + 1) + 1
        /\ (cursor + 1) + 1 - 1 = cursor + 1
        /\ (cursor + 1) + length - 1 = cursor + length
        /\ cursor + length <= n
    BY <1>1, <2>1
  <2>3. SubSeq(rest, 1, length) = SubSeq(data, cursor + 1, cursor + length)
    <3>1. SubSeq(rest, 1, length) = SubSeq(data, (cursor + 1) + 1 - 1, (cursor + 1) + length - 1)
      BY <2>2, SubSeqOfSubSeq DEF n
    <3> QED  BY <2>2, <3>1, Zenon
  <2>4. 1 \in 1 .. n + 1 /\ cursor \in 1 - 1 .. n /\ cursor + length \in cursor .. n
    BY <1>1, <2>1
  <2>5. SubSeq(data, 1, cursor) \o SubSeq(data, cursor + 1, cursor + length) = SubSeq(data, 1, cursor + length)
    BY <2>4, ConcatAdjacentSubSeq DEF n
  <2>6. \A i \in 1 .. cursor + length : data[i] \in Byte
    BY <1>1, <1>2, <2>1
  <2>7. /\ SubSeq(data, 1, cursor + length) \in Seq(Byte)
        /\ Len(SubSeq(data, 1, cursor + length)) = IF 1 <= cursor + length THEN (cursor + length) - 1 + 1 ELSE 0
    BY <2>1, <2>6, SubSeqProperties
  <2>8. Len(SubSeq(data, 1, cursor + length)) = cursor + length
    BY <2>1, <2>7
  <2> QED  BY <2>2, <2>3, <2>5, <2>7, <2>8
<1> QED  BY <1>3, <1>4 DEF n

\* The states of the iterator, and its invariant.
Iterators == [data : Seq(Byte), cursor : Nat, blocks : Seq(Blocks),
              state : {"Going", "Ended", "CutOff", "Panicked"}]

IteratorOK(it) ==
  /\ it \in Iterators
  /\ it.cursor <= Len(it.data)
  /\ Typed(it.blocks) => SeenOK(it)

\* The first three elements.
LEMMA FirstThree ==
  ASSUME NEW rest \in Seq(Byte), Len(rest) >= 3
  PROVE  SubSeq(rest, 1, 3) = <<rest[1], rest[2], rest[3]>>
<1>1. \A i \in 1 .. 3 : rest[i] \in Byte
  OBVIOUS
<1>2. /\ SubSeq(rest, 1, 3) \in Seq(Byte)
      /\ Len(SubSeq(rest, 1, 3)) = 3
      /\ \A i \in 1 .. 3 : SubSeq(rest, 1, 3)[i] = rest[i]
  <2>1. /\ SubSeq(rest, 1, 3) \in Seq(Byte)
        /\ Len(SubSeq(rest, 1, 3)) = IF 1 <= 3 THEN 3 - 1 + 1 ELSE 0
        /\ \A i \in 1 .. 3 - 1 + 1 : SubSeq(rest, 1, 3)[i] = rest[1 + i - 1]
    BY <1>1, SubSeqProperties
  <2>2. \A i \in 1 .. 3 : 1 + i - 1 = i
    OBVIOUS
  <2> QED  BY <2>1, <2>2
<1> DEFINE t == SubSeq(rest, 1, 3)
<1> HIDE DEF t
<1>3. t \in Seq(Byte) /\ Len(t) = 3 /\ t[1] = rest[1] /\ t[2] = rest[2] /\ t[3] = rest[3]
  BY <1>2 DEF t
<1>4. t = <<t[1], t[2], t[3]>>
  BY <1>3
<1> QED  BY <1>3, <1>4 DEF t

\* A block that is returned keeps the invariant.
LEMMA AdvancedKeeps ==
  ASSUME NEW it, IteratorOK(it), it.state = "Going",
         NEW rest, rest = SubSeq(it.data, it.cursor + 1, Len(it.data)),
         NEW length \in 1 .. Len(rest),
         NEW block \in Blocks,
         (block.kind = "Channel" /\ block.dtype = "Invalid") \/ Encoded(block) = SubSeq(rest, 1, length)
  PROVE  IteratorOK(Advanced(it, block, length))
<1> DEFINE new == Advanced(it, block, length)
<1>1. /\ it.data \in Seq(Byte) /\ it.cursor \in Nat /\ it.cursor <= Len(it.data) /\ it.blocks \in Seq(Blocks)
      /\ it \in Iterators
      /\ Typed(it.blocks) => SeenOK(it)
  BY DEF IteratorOK, Iterators
<1>2. rest \in Seq(Byte) /\ Len(rest) = Len(it.data) - it.cursor
  BY <1>1, RestOf
<1>3. /\ it.cursor + length <= Len(it.data)
      /\ SubSeq(it.data, 1, it.cursor) \o SubSeq(rest, 1, length) = SubSeq(it.data, 1, it.cursor + length)
      /\ SubSeq(it.data, 1, it.cursor + length) \in Seq(Byte)
      /\ Len(SubSeq(it.data, 1, it.cursor + length)) = it.cursor + length
  BY <1>1, RestOf
<1>4. Len(rest) \in Nat /\ length \in Nat /\ it.cursor + length \in Nat
  <2>1. Len(rest) \in Nat
    BY <1>2
  <2> QED  BY <1>1, <2>1
<1>5. /\ new.data = it.data /\ new.cursor = it.cursor + length /\ new.blocks = Append(it.blocks, block)
      /\ new.state = "Going" /\ new \in Iterators
  <2>1. Append(it.blocks, block) \in Seq(Blocks)
    BY <1>1
  <2> QED  BY <1>1, <1>4, <2>1 DEF Advanced, Iterators
<1> HIDE DEF new
<1>6. ASSUME Typed(new.blocks) PROVE SeenOK(new)
  <2>1. Typed(it.blocks) /\ (block.kind = "Channel" => block.dtype # "Invalid")
    BY <1>1, <1>5, <1>6, TypedFirst
  <2>2. Encoded(block) = SubSeq(rest, 1, length)
    BY <2>1
  <2>3. Seen(it.blocks) = SubSeq(it.data, 1, it.cursor)
    BY <1>1, <2>1 DEF SeenOK
  <2>4. Seen(new.blocks) = SubSeq(it.data, 1, it.cursor + length)
    BY <1>1, <1>3, <1>5, <2>2, <2>3, SeenMore
  <2> QED  BY <1>3, <1>5, <2>4 DEF SeenOK
<1> QED  BY <1>3, <1>5, <1>6 DEF IteratorOK, new

\* The end of the iteration keeps it.
LEMMA StoppedKeeps ==
  ASSUME NEW it, IteratorOK(it), it.state = "Going", NEW new \in Iterators,
         new.data = it.data, new.blocks = it.blocks, new.cursor <= Len(it.data),
         NEW rest, rest = SubSeq(it.data, it.cursor + 1, Len(it.data)),
         \/ new.state = "Ended" /\ rest = <<>>
         \/ new.state = "CutOff" /\ rest # <<>> /\ (HeaderKind(rest[1]) = "Reserved" \/ ~FitsInto(rest))
         \/ new.state = "Panicked" /\ (~IsAvailable(ext_diag) \/ (rest # <<>> /\ BlockLength(rest[1]) = 0))
  PROVE  IteratorOK(new)
<1>1. ASSUME Typed(new.blocks) PROVE SeenOK(new)
  <2>1. SeenOK(it)
    BY <1>1 DEF IteratorOK
  <2>2. Len(Seen(it.blocks)) = it.cursor
    BY <2>1 DEF SeenOK
  <2>3. SubSeq(it.data, Len(Seen(it.blocks)) + 1, Len(it.data)) = rest
    BY <2>2
  <2> QED  BY <2>1, <2>3 DEF SeenOK
<1> QED  BY <1>1 DEF IteratorOK

\* So every call of next() keeps it,
LEMMA NextBlockKeeps ==
  ASSUME NEW it, IteratorOK(it), it.state = "Going"
  PROVE  IteratorOK(NextBlock(it)) /\ NextBlock(it).data = it.data
<1> DEFINE rest == SubSeq(it.data, it.cursor + 1, Len(it.data))
           kind == HeaderKind(rest[1])
           length == BlockLength(rest[1])
           block == IF kind = "Channel" THEN Channel(rest)
                    ELSE [kind |-> kind, bytes |-> SubSeq(rest, 2, length)]
           new == NextBlock(it)
<1>1. /\ it.data \in Seq(Byte) /\ it.cursor \in Nat /\ it.cursor <= Len(it.data)
      /\ it.blocks \in Seq(Blocks) /\ it \in Iterators /\ Len(it.data) \in Nat
  BY DEF IteratorOK, Iterators
<1>2. rest \in Seq(Byte)
  BY <1>1, RestOf
<1>3. new = IF rest = <<>> THEN [it EXCEPT !.state = "Ended"]
            ELSE IF kind = "Reserved" \/ ~FitsInto(rest)
                 THEN [it EXCEPT !.cursor = Len(it.data), !.state = "CutOff"]
            ELSE IF length = 0 THEN [it EXCEPT !.state = "Panicked"]
            ELSE Advanced(it, block, length)
  BY DEF NextBlock
<1> HIDE DEF rest, new
<1>4. CASE rest = <<>>
  <2>1. new = [it EXCEPT !.state = "Ended"]
    BY <1>3, <1>4
  <2>2. new \in Iterators /\ new.data = it.data /\ new.blocks = it.blocks /\ new.cursor <= Len(it.data)
        /\ new.state = "Ended"
    BY <1>1, <2>1 DEF Iterators
  <2> QED  BY <1>4, <2>2, StoppedKeeps DEF rest, new
<1>5. CASE rest # <<>> /\ (kind = "Reserved" \/ ~FitsInto(rest))
  <2>1. new = [it EXCEPT !.cursor = Len(it.data), !.state = "CutOff"]
    BY <1>3, <1>5
  <2>2. new \in Iterators /\ new.data = it.data /\ new.blocks = it.blocks
        /\ new.cursor = Len(it.data) /\ new.state = "CutOff"
    BY <1>1, <2>1 DEF Iterators
  <2>3. new.cursor <= Len(it.data)
    BY <1>1, <2>2
  <2> QED  BY <1>5, <2>2, <2>3, StoppedKeeps DEF rest, new
<1>6. CASE rest # <<>> /\ kind # "Reserved" /\ FitsInto(rest) /\ length = 0
  <2>1. new = [it EXCEPT !.state = "Panicked"]
    BY <1>3, <1>6
  <2>2. new \in Iterators /\ new.data = it.data /\ new.blocks = it.blocks /\ new.cursor <= Len(it.data)
        /\ new.state = "Panicked"
    BY <1>1, <2>1 DEF Iterators
  <2> QED  BY <1>6, <2>2, StoppedKeeps DEF rest, new
<1>7. CASE rest # <<>> /\ kind # "Reserved" /\ FitsInto(rest) /\ length # 0
  <2>0. rest[1] \in Byte /\ Len(rest) \in Nat
    BY <1>2, <1>7
  <2>1. kind \in {"Device", "Identifier", "Channel"}
    BY <1>7, <2>0, KindOfHeader
  <2>2. length \in 1 .. Len(rest)
    <3>1. length \in 1 .. 63
      <4>1. CASE kind = "Channel"
        BY <4>1 DEF BlockLength
      <4>2. CASE kind # "Channel"
        BY <1>7, <2>0, <2>1, <4>2, LengthOfHeader
      <4> QED  BY <4>1, <4>2
    <3>2. Len(rest) >= length
      BY <1>7 DEF FitsInto
    <3> HIDE DEF length
    <3> QED  BY <2>0, <3>1, <3>2
  <2>3. block \in Blocks
    <3>1. CASE kind = "Channel"
      BY <1>2, <3>1 DEF Blocks
    <3>2. CASE kind # "Channel"
      <4>1. SubSeq(rest, 2, length) \in Seq(Byte)
        <5> HIDE DEF length
        <5>1. \A i \in 2 .. length : rest[i] \in Byte
          BY <1>2, <2>2
        <5> QED  BY <2>2, <5>1, SubSeqProperties
      <4> HIDE DEF kind, length
      <4> QED  BY <2>1, <3>2, <4>1 DEF Blocks
    <3> QED  BY <3>1, <3>2
  <2>4. (block.kind = "Channel" /\ block.dtype = "Invalid") \/ Encoded(block) = SubSeq(rest, 1, length)
    <3>1. CASE kind = "Channel"
      <4>1. length = 3 /\ Len(rest) >= 3 /\ block = Channel(rest)
        <5>1. length = 3
          BY <3>1 DEF BlockLength
        <5> HIDE DEF length, kind
        <5> QED  BY <2>0, <2>2, <3>1, <5>1
      <4>2. Channel(rest).kind = "Channel"
        BY DEF Channel
      <4>3. SubSeq(rest, 1, 3) = <<rest[1], rest[2], rest[3]>>
        <5>1. rest \in Seq(Byte) /\ Len(rest) >= 3
          BY <1>2, <4>1
        <5> QED  BY <5>1, FirstThree
      <4>4. Channel(rest).dtype = "Invalid" \/ Encoded(Channel(rest)) = <<rest[1], rest[2], rest[3]>>
        BY <1>2, <3>1, <4>1, ChannelBack
      <4> HIDE DEF block, length
      <4> QED  BY <4>1, <4>2, <4>3, <4>4
    <3>2. CASE kind # "Channel"
      <4>1. kind \in {"Device", "Identifier"} /\ length <= Len(rest)
        <5> HIDE DEF length, kind
        <5> QED  BY <2>0, <2>1, <2>2, <3>2
      <4>2. /\ length \in 1 .. 63
            /\ kind = "Device" => rest[1] = length
            /\ kind = "Identifier" => rest[1] = length + 64
        BY <1>7, <2>0, <4>1, LengthOfHeader
      <4>3. Encoded([kind |-> kind, bytes |-> SubSeq(rest, 2, length)]) = SubSeq(rest, 1, length)
        <5> HIDE DEF kind, length
        <5> QED  BY <1>2, <4>1, <4>2, OtherBack
      <4> QED  BY <3>2, <4>3
    <3> QED  BY <3>1, <3>2
  <2>5. new = Advanced(it, block, length)
    BY <1>3, <1>7
  <2>6. IteratorOK(new)
    <3> HIDE DEF block, length
    <3> QED  BY <2>2, <2>3, <2>4, <2>5, AdvancedKeeps DEF rest
  <2>7. new.data = it.data
    <3> HIDE DEF block, length
    <3> QED  BY <1>1, <2>5 DEF Advanced, Iterators
  <2> QED  BY <2>6, <2>7 DEF new
<1> QED  BY <1>4, <1>5, <1>6, <1>7

\* The inductive invariant: the iterator goes over the report in the buffer.
DiagInv ==
  /\ ext_diag \in [size : Nat, data : Seq(Byte)]
  /\ iterator.data = ext_diag.data
  /\ IteratorOK(iterator)

\* the one that panics without a buffer included.
LEMMA UnwrapKeeps ==
  ASSUME NEW it, IteratorOK(it), it.state = "Going", ~IsAvailable(ext_diag)
  PROVE  /\ IteratorOK([it EXCEPT !.state = "Panicked"])
         /\ [it EXCEPT !.state = "Panicked"].data = it.data
<1> DEFINE new == [it EXCEPT !.state = "Panicked"]
<1>1. /\ new \in Iterators /\ new.data = it.data /\ new.blocks = it.blocks
      /\ new.cursor <= Len(it.data) /\ new.state = "Panicked"
  BY DEF IteratorOK, Iterators
<1> HIDE DEF new
<1>2. ASSUME Typed(new.blocks) PROVE SeenOK(new)
  BY <1>1, <1>2 DEF IteratorOK, SeenOK
<1> QED  BY <1>1, <1>2 DEF IteratorOK, new

\* A new iterator satisfies it.
LEMMA NewIteratorOK ==
  ASSUME NEW data \in Seq(Byte)
  PROVE  IteratorOK(NewIterator(data)) /\ NewIterator(data).data = data
<1> DEFINE it == NewIterator(data)
<1>1. it.data = data /\ it.cursor = 0 /\ it.blocks = <<>> /\ it.state = "Going" /\ it \in Iterators
  BY DEF NewIterator, Iterators
<1> HIDE DEF it
<1>2. 0 <= Len(data) /\ SubSeq(data, 1, 0) = <<>> /\ <<>> \in Seq(Byte) /\ Len(<<>>) = 0
  OBVIOUS
<1>3. SeenOK(it)
  BY <1>1, <1>2, SeenNothing DEF SeenOK
<1> QED  BY <1>1, <1>2, <1>3 DEF IteratorOK, it

\* The invariant of the diagnostics holds initially,
LEMMA InitDiag == Init => DiagInv
<1> SUFFICES ASSUME Init PROVE DiagInv
  OBVIOUS
<1>1. PICK size \in Buffers : ext_diag = NewDiag(size)
  BY DEF Init
<1>2. ext_diag.data = <<>> /\ ext_diag \in [size : Nat, data : Seq(Byte)] /\ <<>> \in Seq(Byte)
  BY <1>1, GsdtoolAssumption DEF NewDiag
<1> QED  BY <1>2, NewIteratorOK DEF Init, DiagInv

\* and is kept by every step.
LEMMA StepDiag == DiagInv /\ [Next]_vars => DiagInv'
<1> SUFFICES ASSUME DiagInv, [Next]_vars PROVE DiagInv'
  OBVIOUS
<1>1. CASE Report
  <2>1. ext_diag' \in [size : Nat, data : Seq(Byte)]
    <3>1. ASSUME NEW bytes \in Reports PROVE Fill(ext_diag, bytes) \in [size : Nat, data : Seq(Byte)]
      BY GsdtoolAssumption DEF DiagInv, Fill, Byte
    <3> QED  BY <1>1, <3>1 DEF Report, DiagInv
  <2>2. iterator' = NewIterator(ext_diag'.data) /\ ext_diag'.data \in Seq(Byte)
    BY <1>1, <2>1 DEF Report
  <2>3. IteratorOK(NewIterator(ext_diag.data))' /\ iterator'.data = ext_diag'.data
    <3>1. \A data \in Seq(Byte) : NewIterator(data).state = "Going"
      BY DEF NewIterator
    <3>2. IteratorOK(NewIterator(ext_diag'.data)) /\ NewIterator(ext_diag'.data).data = ext_diag'.data
      BY <2>2, NewIteratorOK
    <3>3. NewIterator(ext_diag'.data).state = "Going"
      BY <2>2, <3>1
    <3> QED  BY <2>2, <3>2, <3>3 DEF IteratorOK, SeenOK
  <2> QED  BY <2>1, <2>2, <2>3 DEF DiagInv
<1>2. CASE NextDiagBlock
  <2>0. UNCHANGED ext_diag /\ iterator.state = "Going" /\ IteratorOK(iterator)
    BY <1>2 DEF NextDiagBlock, DiagInv
  <2>1. CASE IsAvailable(ext_diag)
    <3>1. iterator' = NextBlock(iterator)
      BY <1>2, <2>1 DEF NextDiagBlock
    <3>2. IteratorOK(iterator') /\ iterator'.data = iterator.data
      BY <2>0, <3>1, NextBlockKeeps
    <3> QED  BY <2>0, <3>2 DEF DiagInv, IteratorOK, SeenOK
  <2>2. CASE ~IsAvailable(ext_diag)
    <3>1. iterator' = [iterator EXCEPT !.state = "Panicked"]
      BY <1>2, <2>2 DEF NextDiagBlock
    <3>2. IteratorOK(iterator') /\ iterator'.data = iterator.data
      BY <2>0, <2>2, <3>1, UnwrapKeeps
    <3> QED  BY <2>0, <3>2 DEF DiagInv, IteratorOK, SeenOK
  <2> QED  BY <2>1, <2>2
<1>3. CASE UNCHANGED <<ext_diag, iterator>>
  BY <1>3 DEF DiagInv, IteratorOK, SeenOK, IsAvailable
<1>4. ASSUME ~Report, ~NextDiagBlock PROVE UNCHANGED <<ext_diag, iterator>>
  BY <1>4 DEF Next, vars, RunConfigWizard, RunDiagnostics, Read, Refuse, Finish, AskParameter,
              ParametersDone, SelectModule, PrintConfiguration, Interpret
<1> QED  BY <1>1, <1>2, <1>3, <1>4

\* It implies the property.
LEMMA DiagInvBlocks == DiagInv => BlocksAreTheReport
<1> SUFFICES ASSUME DiagInv,
                    \A b \in Range(iterator.blocks) : b.kind = "Channel" => b.dtype # "Invalid"
             PROVE  LET seen == Seen(iterator.blocks)
                        rest == SubSeq(ext_diag.data, Len(seen) + 1, Len(ext_diag.data))
                    IN  /\ IsPrefix(seen, ext_diag.data)
                        /\ iterator.state = "Ended" => rest = <<>>
                        /\ iterator.state = "CutOff" =>
                              rest # <<>> /\ (HeaderKind(rest[1]) = "Reserved" \/ ~FitsInto(rest))
                        /\ iterator.state = "Panicked" =>
                              ~IsAvailable(ext_diag) \/ (rest # <<>> /\ BlockLength(rest[1]) = 0)
  BY DEF BlocksAreTheReport, Seen, Cat!Fold, AddEncoded, Cat!FoldLeft, FoldLeft,
         Cat!MapThenFoldSet, MapThenFoldSet, Cat!Max, Max
<1>1. Typed(iterator.blocks)
  BY DEF Typed, Range
<1>2. SeenOK(iterator) /\ iterator.data = ext_diag.data
  BY <1>1 DEF DiagInv, IteratorOK
<1>3. IsPrefix(Seen(iterator.blocks), ext_diag.data)
  BY <1>2 DEF SeenOK, IsPrefix
<1> QED  BY <1>2, <1>3 DEF SeenOK

\* The blocks a program sees are the report of the device, whole and in order,
\* up to its end or to a block that is cut off or reserved; the iteration panics
\* only without a buffer or at a block of length 0.
THEOREM BlocksHold == Spec => []BlocksAreTheReport
<1> QED  BY InitDiag, StepDiag, DiagInvBlocks, PTL DEF Spec
=============================================================================
