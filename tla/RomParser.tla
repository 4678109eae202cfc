----------------------------- MODULE RomParser -----------------------------
(***************************************************************************)
(* The reduced scanner of build_disasm_index_from_rom (build_viewer.py     *)
(* 1090-1110) over the text of `objdump -b binary -m m68k -D`.  A line is   *)
(* abstracted to what the loop tests on it:                                *)
(*   colon  ":" in ln                                                      *)
(*   addr   int(parts[0].strip(), 16), None when it raises ValueError      *)
(*   ins    parts[1].strip() is non-empty                                   *)
(*   blank  ln.strip() is empty                                             *)
(* A line without ':' can never end with ':', so the free-text test of     *)
(* line 1108 reduces to "not blank".  A line's text is its position.       *)
(***************************************************************************)
EXTENDS Naturals, Sequences
LOCAL INSTANCE SequencesExt

CONSTANT None

\* "       0:\t4e75      \trts" (ins) or "  1a:\t" (no instruction text)
RomInsnText(a, ins) == [colon |-> TRUE, addr |-> a, ins |-> ins, blank |-> FALSE]

\* "rom.bin:     file format binary", "00000000 <.data>:": no hex before ':'
RomLabelText == [colon |-> TRUE, addr |-> None, ins |-> TRUE, blank |-> FALSE]

\* "\t..." (objdump's elision of repeated bytes)
RomFreeText == [colon |-> FALSE, addr |-> None, ins |-> FALSE, blank |-> FALSE]

RomBlankText == [colon |-> FALSE, addr |-> None, ins |-> FALSE, blank |-> TRUE]

(* Lines 1093-1109: the events one line appends to seq (none, an insn     *)
(* event without file or line, or a src event of free text).               *)
RomEvents(l, i) ==
    LET ln == l[i] IN
    IF ln.colon
    THEN IF ln.addr # None /\ ln.ins
         THEN << [type |-> "insn", address |-> ln.addr, file |-> None, line |-> None, text |-> i] >>
         ELSE << >>
    ELSE IF ~ln.blank
         THEN << [type |-> "src", address |-> None, file |-> None, line |-> None, text |-> i] >>
         ELSE << >>

\* seq, in line order
RomSeq(l) == FlattenSeq([i \in DOMAIN l |-> RomEvents(l, i)])

(* m: address -> the record of the last instruction line at that address   *)
(* (line 1104 overwrites).                                                  *)
RomIndex(l) ==
    LET ins == SelectSeq(RomSeq(l), LAMBDA e : e.type = "insn")
        at(a) == {i \in DOMAIN ins : ins[i].address = a}
    IN [a \in {ins[i].address : i \in DOMAIN ins} |->
          [text |-> ins[CHOOSE i \in at(a) : \A j \in at(a) : j <= i].text,
           file |-> None, line |-> None]]

=============================================================================
