------------------------------ MODULE MCRendition ------------------------------
(***************************************************************************)
(* An instance of Rendition: colours of the palette that have a name.      *)
(***************************************************************************)
EXTENDS Rendition

PaletteValues == {5, 38} \cup (0 .. 7)
=============================================================================
