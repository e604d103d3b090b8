------------------------------ MODULE MCTerminal ------------------------------
(* An instance of TerminalParts for TLC. *)
EXTENDS TerminalParts

\* Strings and what is around them; numbers; UTF-8 that is well formed, cut short,
\* overlong, a surrogate and beyond UCS-2.
ParserInputs ==
    {[bytes |-> {27, 91, 93, 92, 7, 49, 99}, length |-> 6],
     [bytes |-> {27, 91, 59, 63, 49}, length |-> 8],
     [bytes |-> {27, 65, 10, 127, 130, 160, 192, 194, 226, 237, 240}, length |-> 5]}

\* Attributes, a named colour, both extended forms with their selectors, and
\* colours at and beyond the edges of the palette.
RenditionValues == {-1, 1, 2, 5, 16, 31, 38, 48, 9999999}

\* Zero, ordinary, wider than Max16 = 4, and higher than Max32 = 9.
ConsoleSizes == {<<0, 2>>, <<3, 0>>, <<4, 4>>, <<5, 2>>, <<9, 9>>, <<2, 10>>}

\* Both sides of every boundary of the encoding.
TypedChars == {8, 13, 27, 29, 65, 127, 128, 2047, 2048, 4095, 4096, 55296, 65535}
===============================================================================
