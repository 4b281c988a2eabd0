------------------------------ MODULE Windowed ------------------------------
(***************************************************************************)
(* The size the prefetch unit and the decoder have in common (FETCH_WINDOW *)
(* in rtl/v60_pkg.sv): the bytes the one shows and the other sees.         *)
(***************************************************************************)
CONSTANT FETCH_WINDOW  \* bytes the decoder sees (16)
=============================================================================
