--------------------------------- MODULE Text ---------------------------------
(* A short input for one pass of the compiler, written item by item: what     *)
(* kind of input it is, and its items so far.                                 *)
EXTENDS Integers, Sequences

VARIABLES
  subject,   \* the pass the text is for, or "program" for the whole parser
  text       \* the items

tvars == <<subject, text>>
===============================================================================
