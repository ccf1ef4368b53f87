---------------------------- MODULE ExtDiagnostics ----------------------------
(* Extended diagnostics (src/dp/diagnostics.rs): the buffer a peripheral      *)
(* keeps of its device's last report, and the iterator over its blocks.      *)
EXTENDS Integers, Sequences, SequencesExt

\* ExtendedDiagnostics: size is that of the buffer the program gave, 0 if none.
NewDiag(size) == [size |-> size, data |-> <<>>]
IsAvailable(diag) == diag.size > 0

\* A report that is too long is ignored, and the old one stays.
Fill(diag, bytes) == IF diag.size = 0 \/ diag.size < Len(bytes) THEN diag
                     ELSE [diag EXCEPT !.data = bytes]

DataTypes == <<"Bit", "Bit2", "Bit4", "Byte", "Word", "DWord", "Invalid">>
DataTypeOfByte(byte) ==
    IF byte \div 32 \in 1..6 THEN DataTypes[byte \div 32] ELSE "Invalid"
DataTypeToByte(dtype) == 32 * SelectInSeq(DataTypes, LAMBDA d : d = dtype)

ChannelErrors == <<"ShortCircuit", "UnderVoltage", "OverVoltage", "OverLoad",
                   "OverTemperature", "LineBreak", "UpperLimitOvershoot",
                   "LowerLimitUndershoot", "Error">>
ErrorOfByte(byte) ==
    LET code == byte % 32 IN
    IF code \in DOMAIN ChannelErrors THEN [name |-> ChannelErrors[code], code |-> 0]
    ELSE [name |-> IF code >= 16 THEN "Vendor" ELSE "Reserved", code |-> code]
ErrorToByte(error) ==
    IF error.name \in {"Vendor", "Reserved"} THEN error.code
    ELSE SelectInSeq(ChannelErrors, LAMBDA e : e = error.name)

Channel(b) == [kind |-> "Channel", module |-> b[1] % 64, channel |-> b[2] % 64,
               input |-> (b[2] \div 64) % 2 = 1, output |-> b[2] >= 128,
               dtype |-> DataTypeOfByte(b[3]), error |-> ErrorOfByte(b[3])]

\* ExtDiagBlockIter, with the blocks it has returned.
NewIterator(data) == [data |-> data, cursor |-> 0, blocks |-> <<>>, state |-> "Going"]

HeaderKind(header) == CASE header \div 64 = 0 -> "Device"
                        [] header \div 64 = 1 -> "Identifier"
                        [] header \div 64 = 2 -> "Channel"
                        [] header \div 64 = 3 -> "Reserved"
BlockLength(header) == IF HeaderKind(header) = "Channel" THEN 3 ELSE header % 64

FitsInto(rest) == Len(rest) >= BlockLength(rest[1])

\* Mutant: the cursor moves over the block without its header.
AdvancedPastBody(it, block, length) ==
    [it EXCEPT !.cursor = @ + length - 1, !.blocks = Append(@, block)]

Advanced(it, block, length) ==
    [it EXCEPT !.cursor = @ + length, !.blocks = Append(@, block)]

\* next(): a block that is cut off, or of the reserved kind, ends the
\* iteration; one of length 0 is sliced from 1 to 0, which panics.
NextBlock(it) ==
    LET rest == SubSeq(it.data, it.cursor + 1, Len(it.data))
        kind == HeaderKind(rest[1])
        length == BlockLength(rest[1])
    IN  IF rest = <<>> THEN [it EXCEPT !.state = "Ended"]
        ELSE IF kind = "Reserved" \/ ~FitsInto(rest)
             THEN [it EXCEPT !.cursor = Len(it.data), !.state = "CutOff"]
        ELSE IF length = 0 THEN [it EXCEPT !.state = "Panicked"]
        ELSE Advanced(it, IF kind = "Channel" THEN Channel(rest)
                          ELSE [kind |-> kind, bytes |-> SubSeq(rest, 2, length)], length)
=============================================================================
