------------------------------ MODULE PrmBuilder ------------------------------
(* The user parameters of a device and its modules (gsd-parser/src/lib.rs):  *)
(* definitions of parameters, and the builder that writes constants, default *)
(* values and chosen values into the bytes of Set_Prm.  Bytes are numbers    *)
(* 0..255 and offsets count from 0, as in the code.                          *)
EXTENDS Integers, Sequences, SequencesExt, FiniteSetsExt

NoTexts == [text \in {} |-> 0]
NoPrmData == [length |-> 0, data_const |-> <<>>, data_ref |-> <<>>]

TypeSize(type) == CASE type.kind \in {"Unsigned16", "Signed16"} -> 2
                    [] type.kind \in {"Unsigned32", "Signed32"} -> 4
                    [] OTHER -> 1

\* The width of a bit area, a difference of u8 numbers that may wrap around.
BitSize(type) == (type.last - type.first + 1) % 256

Unsigned(bits) == 0..2^bits - 1
Signed(bits) == -2^(bits - 1)..2^(bits - 1) - 1

\* The values that are not refused, by a check or by try_from().  A Signed16 is
\* converted as an unsigned number, a bit area to a byte before it is shifted.  The
\* bound of an area wraps around from 63 bits on, to one that refuses every value.
\* (Of 32 bits, the upper 16 decide.)
Fits(type, value) ==
    \/ type.kind = "Unsigned8" /\ value \in Unsigned(8)
    \/ type.kind = "Signed8" /\ value \in Signed(8)
    \/ type.kind \in {"Unsigned16", "Signed16"} /\ value \in Unsigned(16)
    \/ type.kind = "Unsigned32" /\ value \div 2^16 \in Unsigned(16)
    \/ type.kind = "Signed32" /\ value \div 2^16 \in Signed(16)
    \/ type.kind = "Bit" /\ value \in {0, 1}
    \/ /\ type.kind = "BitArea" /\ BitSize(type) < 63 /\ value \in Unsigned(8)
       /\ BitSize(type) < 8 => value \in Unsigned(BitSize(type))

\* The arithmetic overflows, which panics in a debug build and wraps around in a
\* release build: the grammar lets any number of a byte through as that of a bit.
ArithmeticOverflows(type, value) ==
    \/ type.kind = "Bit" /\ type.bit > 7 /\ Fits(type, value)
    \/ type.kind = "BitArea" /\ type.last - type.first \notin 0..254
    \/ type.kind = "BitArea" /\ type.last - type.first > 61 /\ value >= 0
    \/ type.kind = "BitArea" /\ type.first > 7 /\ Fits(type, value)

BigEndian(value, size) == [i \in 1..size |-> (value \div 256^(size - i)) % 256]

Overwrite(prm, offset, bytes) ==
    [i \in DOMAIN prm |->
        IF i - offset \in DOMAIN bytes THEN bytes[i - offset] ELSE prm[i]]

HasBit(byte, bit) == (byte \div 2^bit) % 2 = 1

\* Mutant: a bit is assigned, not added to the byte.
WriteValueOverBits(type, value, prm, offset) ==
    Overwrite(prm, offset,
        IF type.kind = "Bit" THEN <<value * 2^(type.bit % 8)>>
        ELSE IF type.kind = "BitArea" THEN <<(value * 2^(type.first % 8)) % 256>>
        ELSE BigEndian(value, TypeSize(type)))

\* A bit is or-ed into its byte: 0 does not clear it.  A bit area is assigned
\* to the whole byte.  A shift that wraps around is one by its last three bits.
WriteValue(type, value, prm, offset) ==
    LET old == prm[offset + 1]
        bit == type.bit % 8
    IN Overwrite(prm, offset,
        CASE type.kind = "Bit" ->
                <<IF value = 1 /\ ~HasBit(old, bit) THEN old + 2^bit ELSE old>>
          [] type.kind = "BitArea" -> <<(value * 2^(type.first % 8)) % 256>>
          [] OTHER -> BigEndian(value, TypeSize(type)))

\* What a device reads where WriteValue() has written, by a type that lies
\* within its bytes.
ReadValue(type, prm, offset) ==
    LET byte(i) == prm[offset + i]
        top == IF type.kind \in {"Signed8", "Signed16", "Signed32"} /\ byte(1) >= 128
               THEN byte(1) - 256 ELSE byte(1)
    IN CASE type.kind = "Bit" -> IF HasBit(byte(1), type.bit) THEN 1 ELSE 0
         [] type.kind = "BitArea" ->
                (byte(1) \div 2^type.first) % 2^(type.last - type.first + 1)
         [] OTHER -> FoldLeft(LAMBDA v, i : v * 256 + byte(i), top,
                              [i \in 1..TypeSize(type) - 1 |-> i + 1])

Valid(constraint, value) ==
    CASE constraint.kind = "MinMax" -> value \in constraint.min..constraint.max
      [] constraint.kind = "Enum" -> value \in constraint.values
      [] constraint.kind = "Unconstrained" -> TRUE

Written(prm) == [ok |-> TRUE, overflow |-> FALSE, prm |-> prm]
Refused(prm) == [ok |-> FALSE, overflow |-> FALSE, prm |-> prm]

\* What a release build does, and whether a debug build panics instead.
Write(type, value, prm, offset) ==
    [(IF Fits(type, value) THEN Written(WriteValue(type, value, prm, offset))
                           ELSE Refused(prm))
     EXCEPT !.overflow = ArithmeticOverflows(type, value)]

WriteConstrained(ref, value, prm) ==
    IF Valid(ref.def.constraint, value)
    THEN Write(ref.def.type, value, prm, ref.offset)
    ELSE Refused(prm)

\* The bytes grow with zeros; the declared length of the data plays no part.
UpdatePrmDataLen(prm, length) ==
    prm \o [i \in 1..Max({0, length - Len(prm)}) |-> 0]

WriteConstPrmData(data) ==
    LET write(prm, const) ==
            Overwrite(UpdatePrmDataLen(prm, const.offset + Len(const.values)),
                      const.offset, const.values)
    IN FoldLeft(write, <<>>, data.data_const)

\* Constants, then the defaults, which are not checked against constraints.
NewBuilder(data) ==
    LET write(builder, ref) ==
            IF builder.ok
            THEN [Write(ref.def.type, ref.def.default,
                        UpdatePrmDataLen(builder.prm, ref.offset + TypeSize(ref.def.type)),
                        ref.offset)
                  EXCEPT !.overflow = @ \/ builder.overflow]
            ELSE builder
    IN FoldLeft(write, Written(WriteConstPrmData(data)), data.data_ref)

\* The first parameter of the name, or 0.
GetPrm(data, name) == SelectInSeq(data.data_ref, LAMBDA ref : ref.def.name = name)

SetPrm(data, prm, name, value) ==
    LET i == GetPrm(data, name) IN
    IF i = 0 THEN Refused(prm) ELSE WriteConstrained(data.data_ref[i], value, prm)

SetPrmFromText(data, prm, name, text) ==
    LET i == GetPrm(data, name) IN
    IF i = 0 \/ text \notin DOMAIN data.data_ref[i].def.texts THEN Refused(prm)
    ELSE WriteConstrained(data.data_ref[i], data.data_ref[i].def.texts[text], prm)
=============================================================================
