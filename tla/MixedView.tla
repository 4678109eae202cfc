----------------------------- MODULE MixedView -----------------------------
(***************************************************************************)
(* The mixed source/instruction view of one sample (build_viewer.py):     *)
(* the event window around the PC's first instruction event (main,        *)
(* 328-332), turned into rows either straight from the disassembler's     *)
(* inline attribution (334-339) or by addr2line_build_mixed (623-657),    *)
(* which puts a source row before each instruction whose resolved        *)
(* (file, line) differs from the last one emitted.  Source text is        *)
(* abstracted away: a source row carries its file and line only; an      *)
(* instruction row carries its event's text (its listing position).      *)
(***************************************************************************)
EXTENDS Integers, Sequences
LOCAL INSTANCE FiniteSetsExt

CONSTANT None

SrcRow(f, n) == [kind |-> "src", address |-> None, file |-> f, line |-> n, isPC |-> FALSE]
InsnRow(a, f, n, t, pc) ==
    [kind |-> "insn", address |-> a, file |-> f, line |-> n, text |-> t, isPC |-> a = pc]

(* Lines 328-332: the first instruction event at pc and up to `ctx`       *)
(* events on either side of it (60 in the code); <<>> when pc has none.   *)
MixWindow(seq, pc, ctx) ==
    LET idxs == {i \in DOMAIN seq : seq[i].type = "insn" /\ seq[i].address = pc}
        i0 == Min(idxs)
    IN IF idxs = {} THEN <<>>
       ELSE SubSeq(seq, Max({1, i0 - ctx}), Min({Len(seq), i0 + ctx}))

(* Lines 335-339: every event becomes a row as it stands.               *)
InlineMixed(window, pc) ==
    [i \in DOMAIN window |->
        IF window[i].type = "src"
        THEN SrcRow(window[i].file, window[i].line)
        ELSE InsnRow(window[i].address, window[i].file, window[i].line, window[i].text, pc)]

\* Fault model: `fp != last_file and lp != last_line` in the change test.
RECURSIVE ComposeRowsBothChanged(_, _, _, _)
ComposeRowsBothChanged(cache, evs, pc, last) ==
    IF evs = <<>> THEN <<>>
    ELSE LET e == Head(evs)
             ent == IF e.address \in DOMAIN cache THEN cache[e.address]
                    ELSE [file |-> None, line |-> None]
             fresh == /\ ent.file # None /\ ent.line # None
                      /\ ent.file # last.file /\ ent.line # last.line
             rows == IF fresh THEN << SrcRow(ent.file, ent.line),
                                      InsnRow(e.address, ent.file, ent.line, e.text, pc) >>
                     ELSE << InsnRow(e.address, ent.file, ent.line, e.text, pc) >>
         IN IF e.type # "insn" THEN ComposeRowsBothChanged(cache, Tail(evs), pc, last)
            ELSE rows \o ComposeRowsBothChanged(cache, Tail(evs), pc, IF fresh THEN ent ELSE last)

(* Lines 635-657: the loop over the instruction events with its           *)
(* last_file/last_line state, given the cache after the batch resolve.    *)
RECURSIVE ComposeRows(_, _, _, _)
ComposeRows(cache, evs, pc, last) ==
    IF evs = <<>> THEN <<>>
    ELSE LET e == Head(evs)
             ent == IF e.address \in DOMAIN cache THEN cache[e.address]
                    ELSE [file |-> None, line |-> None]
             fresh == /\ ent.file # None /\ ent.line # None
                      /\ (ent.file # last.file \/ ent.line # last.line)
             rows == IF fresh THEN << SrcRow(ent.file, ent.line),
                                      InsnRow(e.address, ent.file, ent.line, e.text, pc) >>
                     ELSE << InsnRow(e.address, ent.file, ent.line, e.text, pc) >>
         IN IF e.type # "insn" THEN ComposeRows(cache, Tail(evs), pc, last)
            ELSE rows \o ComposeRows(cache, Tail(evs), pc, IF fresh THEN ent ELSE last)

\* the instruction addresses of a window, in order (lines 627-632)
InsnAddrs(window) ==
    LET ins == SelectSeq(window, LAMBDA e : e.type = "insn")
    IN [i \in DOMAIN ins |-> ins[i].address]

ResolverMixed(cache, window, pc) ==
    ComposeRows(cache, window, pc, [file |-> None, line |-> None])

=============================================================================
