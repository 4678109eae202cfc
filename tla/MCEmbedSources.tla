--------------------------- MODULE MCEmbedSources ---------------------------
(* A source tree with a file at the root, one found only by basename, a  *)
(* basename that exists twice, and directories whose names a glob can     *)
(* match; the text of u.c ranges over every text of up to three lines,    *)
(* and its referenced lines over every subset of a few lines, 0 and one   *)
(* past the end included.                                                  *)
EXTENDS EmbedSources, TLC
LOCAL INSTANCE SequencesExt

MCTree == {<<"u.c">>, <<"lib", "w.c">>, <<"os", "hw", "v.c">>, <<"io", "v.c">>}

MCDirs == {<<"lib">>, <<"os">>, <<"os", "hw">>, <<"io">>}

\* fnmatch over these names: "??" (addr2line's unknown file, a pattern to
\* rglob) matches every two-character name; any other name only itself
MCMatches(pat, n) == IF pat = "??" THEN n \in {"os", "hw", "io"} ELSE pat = n

Seg(b, em) == [brk |-> b, empty |-> em]

\* every text of up to n broken lines over the breaks B, with or without
\* an unterminated last line
TextsOver(B, n) ==
    LET body == UNION {[1..k -> [brk : B, empty : BOOLEAN]] : k \in 0..n}
    IN body \cup {t \o <<Seg("EOF", FALSE)>> : t \in body}

OneLine == <<Seg("LF", FALSE)>>

DisksOver(B, n) ==
    {(<<"u.c">> :> t) @@ [p \in MCTree |-> OneLine] : t \in TextsOver(B, n)}

MCDisks == DisksOver({"LF"}, 3)

\* the same with form feeds among the breaks
MCDisksFF == DisksOver({"LF", "FF"}, 2)

\* w.c at line 1, with inline frames in hw/v.c (missing: two files share
\* its basename), in io/v.c (present, and sharing its basename with
\* os/hw/v.c) and in a file not in the tree
Frames == << [file |-> <<"hw", "v.c">>, line |-> 2], [file |-> <<"io", "v.c">>, line |-> 1],
             [file |-> <<"z.c">>, line |-> 1] >>

\* the same, or with one more frame in "??" or in ""
Others == {[file |-> <<"w.c">>, line |-> 1, frames |-> fs] :
              fs \in {Frames, Frames \o << [file |-> <<"??">>, line |-> 1] >>,
                      Frames \o << [file |-> << >>, line |-> 1] >>}}

UEntries(L) ==
    LET s == SetToSortSeq(L, LAMBDA x, y : x < y)
    IN [i \in DOMAIN s |-> [file |-> <<"u.c">>, line |-> s[i], frames |-> <<>>]]

MCEntryChoices == {<<o>> \o UEntries(L) : o \in Others, L \in SUBSET {0, 1, 2, 3, 5}}
=============================================================================
