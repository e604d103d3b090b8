------------------------------ MODULE MCLibrary ------------------------------
(* An instance of LibraryParts for TLC. *)
EXTENDS LibraryParts, TLC

Interchangeable == Permutations(Slots)

\* Every option, and words that are a target, a value, both or neither.
Name == <<97>>
One  == <<49>>                      \* an address, a port, a digest and a name
UsedWords ==
    {<<45, 104>>, <<45, 45, 115, 101, 108, 102, 45, 116, 101, 115, 116>>,   \* -h --self-test
     <<45, 121>>, <<45, 112>>, <<45, 80>>, <<45, 102>>, <<45, 108>>,        \* -y -p -P -f -l
     <<45, 120>>,                                                           \* -x is none
     << >>, One, Name \o <<64>> \o One, <<64>> \o One, Name \o Name \o <<64>> \o One}
OneAddress == {One}

\* The digits of 65535 and 65536 with the neighbours of the digits; separators,
\* both ends of the hexadecimal letters, and the ends of the 7-bit range.
PortUnits == {47, 48, 51, 53, 54, 58}
TextUnits == {45, 57, 58, 65, 70, 97, 103, 127, 128}
ConversionCalls ==
    {[kind |-> "port", units |-> PortUnits, length |-> 6],
     [kind |-> "copy", units |-> TextUnits, length |-> 4],
     [kind |-> "fingerprint", units |-> TextUnits, length |-> 4]}
=============================================================================
