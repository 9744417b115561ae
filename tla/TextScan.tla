------------------------------ MODULE TextScan ------------------------------
(***************************************************************************)
(* How the scanners of thirdparty/faster walk a text: a C string, here a   *)
(* sequence of symbols with NUL behind it.  A word, which stands for a run *)
(* of letters, is one symbol; a punctuation mark or a blank is another.    *)
(* Words are compared without their case by the code that is modelled      *)
(* here, so one symbol stands for all the spellings of a word.             *)
(***************************************************************************)
EXTENDS Integers, Sequences

NUL == "NUL"
At(text, i) == IF i \in DOMAIN text THEN text[i] ELSE NUL

Blanks == {" ", "\n"}
Quotes == {"'", "\""}
Marks == Blanks \cup Quotes \cup {"<", ">", "/", "?", "!", "--", "=", NUL}

(* The first of these positions from i on, or that of NUL.                 *)
Until(text, i, positions) ==
  IF i > Len(text) THEN Len(text) + 1
  ELSE CHOOSE j \in i .. Len(text) + 1 :
         (j > Len(text) \/ j \in positions) /\ \A k \in i .. j - 1 : k \notin positions

(* The positions of other symbols, and of these.                           *)
NoneOf(text, symbols) == {j \in DOMAIN text : text[j] \notin symbols}
AnyOf(text, symbols) == {j \in DOMAIN text : text[j] \in symbols}

(* The text goes on with these symbols at i.                               *)
Reads(text, i, symbols) == \A k \in DOMAIN symbols : At(text, i + k - 1) = symbols[k]

(* Where these symbols are read next from i on, or NUL.                    *)
Find(text, i, symbols) == Until(text, i, {j \in DOMAIN text : Reads(text, j, symbols)})

(* The symbols from i to before j.                                         *)
Part(text, i, j) == SubSeq(text, i, j - 1)

(* A token: its kind, its symbols, and the position behind it.             *)
Token(text, tag, i, j) == [tag |-> tag, text |-> Part(text, i, j), next |-> j]
NoToken(text) == Token(text, "EOF", Len(text) + 1, Len(text) + 1)

(* The scanner has stepped over NUL and reads what lies behind the text.   *)
(* Nothing is known of it from there on: it ends here with a code that     *)
(* stands for whatever it returns, if it does.                             *)
OUTSIDE == -1000
Outside(text) == Token(text, "OUTSIDE", Len(text) + 2, Len(text) + 2)
=============================================================================
