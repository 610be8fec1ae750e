--------------------------- MODULE MCStreamReader ---------------------------
(* TLC instances of StreamReader.                                          *)
EXTENDS StreamReader

(* Up to three lines, the last of which may lack its newline.              *)
AnyLine == {"plain", "wide", "comment", "bad", "done"}
MCTexts ==
    {t \in UNION {[1..n -> AnyLine \cup {"unended"}] : n \in 0..3} :
        \A n \in 1..Len(t) - 1 : t[n] # "unended"}

WideText == {<<"wide", "done">>}
=============================================================================
