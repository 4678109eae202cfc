---------------------------- MODULE DisasmParser ----------------------------
(***************************************************************************)
(* The line scanner of build_disasm_index (build_viewer.py 959-1039): it   *)
(* reads the text of `objdump -dS -l` one line at a time, keeps the        *)
(* current source file and line, and builds                               *)
(*   index  : address -> instruction record (the `m` dict),               *)
(*   seq    : the ordered stream of "src" and "insn" events,               *)
(*   mixedCandidate : whether some instruction carried a positive line.   *)
(*                                                                         *)
(* A line of text is abstracted to what the four regular expressions of   *)
(* the scanner find in it (field = None when the regex does not match):    *)
(*   fm  file_re.match(s)       [file, line, rest] "/p/a.c:12 [text]"     *)
(*   fo  file_only_re.match(s)  file               "a.c:" and also the    *)
(*                              "Disassembly of section .text:" banner     *)
(*   lo  line_only_re.match(ln) [num, rest]        "  12   x++;"          *)
(*   ad  addr_line_re.match(ln) [addr, ins]        "  1000:  4e75 rts"    *)
(*   tok file_re.search(ln)     [file, line]       a file:line token      *)
(* plus whether the stripped line is empty or ends with ':'.  The text of  *)
(* a line is abstracted to its position in the listing.                    *)
(***************************************************************************)
EXTENDS Naturals, Sequences, TLC

CONSTANTS
    Files,      \* file names the disassembler may print
    LineNums,   \* source line numbers it may print
    Addrs,      \* instruction addresses (VMAs)
    None,       \* Python None / "no match"
    Listings    \* the objdump listings the scanner is run on

ASSUME None \notin Files /\ None \notin LineNums /\ None \notin Addrs

VARIABLES
    lines,          \* the listing being scanned (fixed input)
    pos,            \* number of lines consumed so far
    curFile,        \* cur_file
    curLine,        \* cur_line
    index,          \* m: address -> [text, file, line]
    seq,            \* seq: list of events
    mixedCandidate, \* mixed_candidate
    announced       \* history: (file, line) pairs the listing set together

parserVars == <<lines, pos, curFile, curLine, index, seq, mixedCandidate, announced>>

(***************************************************************************)
(* Line shapes.  Each gives the matches the real regexes produce on one   *)
(* kind of objdump output line.                                           *)
(***************************************************************************)
NoLine == [fm |-> None, fo |-> None, lo |-> None, ad |-> None, tok |-> None,
           blank |-> FALSE, colon |-> FALSE]

\* "/p/a.c:12" (rest = FALSE) or "a.c:12  text" (rest = TRUE): the token is
\* also what file_re.search finds.
MappingText(f, n, rest) ==
    [NoLine EXCEPT !.fm = [file |-> f, line |-> n, rest |-> rest],
                   !.tok = [file |-> f, line |-> n]]

\* "a.c:" and "Disassembly of section .init:" both match file_only_re.
FileHeaderText(f) == [NoLine EXCEPT !.fo = f, !.colon = TRUE]

\* "   12     x = y;" from -S: a bare line number and the source text.
LineNumberText(n, rest) == [NoLine EXCEPT !.lo = [num |-> n, rest |-> rest]]

\* "  1000:\t4e75  rts": addr_line_re matches; line_only_re matches its
\* leading decimal digits too (the word boundary falls before ':'), so only
\* the guard `not addr_line_re.match(ln)` keeps it from being a line number.
\* A C label such as "bad: x++;" in the -S source text has this shape too.
InstructionText(a, ins, tok) ==
    [NoLine EXCEPT !.ad = [addr |-> a, ins |-> ins],
                   !.lo = [num |-> CHOOSE n \in LineNums : TRUE, rest |-> TRUE],
                   !.tok = tok]

\* "  x = y + 1;" : plain source text, nothing matches.
SourceText == NoLine

\* "00001000 <main>:" or "main():" : skipped because s ends with ':'.
LabelText == [NoLine EXCEPT !.colon = TRUE]

BlankText == [NoLine EXCEPT !.blank = TRUE]

SrcEvent(f, n, t) == [type |-> "src", address |-> None, file |-> f, line |-> n, text |-> t]
InsnEvent(a, f, n, t) == [type |-> "insn", address |-> a, file |-> f, line |-> n, text |-> t]

(***************************************************************************)
(* The classification, in the precedence order of the loop body.          *)
(***************************************************************************)
IsMapping(ln)    == ln.fm # None /\ ln.ad = None
IsFileHeader(ln) == ln.fo # None /\ ln.ad = None
\* Fault model: the line-number test without `not addr_line_re.match(ln)`.
IsLineNumberUnguarded(ln) == ln.lo # None /\ curFile # None
IsLineNumber(ln) == ln.lo # None /\ curFile # None /\ ln.ad = None
IsInstruction(ln) == ln.ad # None

\* the next line, and its text (its position)
Next1 == lines[pos + 1]
TextOf == pos + 1

ParserInit(listing) ==
    /\ lines = listing
    /\ pos = 0
    /\ curFile = None
    /\ curLine = None
    /\ index = <<>>
    /\ seq = <<>>
    /\ mixedCandidate = FALSE
    /\ announced = {}

\* Lines 977-987: a source-mapping line sets file and line together.
SourceMappingLine ==
    /\ pos < Len(lines)
    /\ IsMapping(Next1)
    /\ LET m2 == Next1.fm IN
       /\ curFile' = m2.file
       /\ curLine' = m2.line
       /\ seq' = IF m2.rest THEN Append(seq, SrcEvent(m2.file, m2.line, TextOf)) ELSE seq
       /\ announced' = announced \cup {<<m2.file, m2.line>>}
    /\ pos' = pos + 1
    /\ UNCHANGED <<lines, index, mixedCandidate>>

\* Fault model: `cur_file = mfo`, the match object stored instead of its group.
FileHeaderLineKeepsMatch ==
    /\ pos < Len(lines)
    /\ ~IsMapping(Next1)
    /\ IsFileHeader(Next1)
    /\ curFile' = Next1
    /\ pos' = pos + 1
    /\ UNCHANGED <<lines, curLine, index, seq, mixedCandidate, announced>>

\* Lines 989-993: a bare file header sets the file only.
FileHeaderLine ==
    /\ pos < Len(lines)
    /\ ~IsMapping(Next1)
    /\ IsFileHeader(Next1)
    /\ curFile' = Next1.fo
    /\ pos' = pos + 1
    /\ UNCHANGED <<lines, curLine, index, seq, mixedCandidate, announced>>

\* Lines 995-1004: a line number under the current file.
LineNumberLine ==
    /\ pos < Len(lines)
    /\ ~IsMapping(Next1) /\ ~IsFileHeader(Next1)
    /\ IsLineNumber(Next1)
    /\ LET mlo == Next1.lo IN
       /\ curLine' = mlo.num
       /\ seq' = IF mlo.rest THEN Append(seq, SrcEvent(curFile, mlo.num, TextOf)) ELSE seq
       /\ announced' = announced \cup {<<curFile, mlo.num>>}
    /\ pos' = pos + 1
    /\ UNCHANGED <<lines, curFile, index, mixedCandidate>>

\* Lines 1006-1034: an instruction; a file:line token on the line wins over
\* the carried state.  An address with no instruction text is skipped.
InstructionLine ==
    /\ pos < Len(lines)
    /\ ~IsMapping(Next1) /\ ~IsFileHeader(Next1) /\ ~IsLineNumber(Next1)
    /\ IsInstruction(Next1)
    /\ LET ma == Next1.ad
           srcFile == IF Next1.tok # None THEN Next1.tok.file ELSE curFile
           srcLine == IF Next1.tok # None THEN Next1.tok.line ELSE curLine
       IN IF ma.ins
          THEN /\ index' = (ma.addr :> [text |-> TextOf, file |-> srcFile, line |-> srcLine]) @@ index
               /\ mixedCandidate' = (mixedCandidate \/ (srcFile # None /\ srcLine # None /\ srcLine > 0))
               /\ seq' = Append(seq, InsnEvent(ma.addr, srcFile, srcLine, TextOf))
               /\ announced' = IF Next1.tok # None
                               THEN announced \cup {<<srcFile, srcLine>>} ELSE announced
          ELSE UNCHANGED <<index, mixedCandidate, seq, announced>>
    /\ pos' = pos + 1
    /\ UNCHANGED <<lines, curFile, curLine>>

\* Lines 1036-1038: any other non-empty line not ending in ':' is source text.
FreeTextLine ==
    /\ pos < Len(lines)
    /\ ~IsMapping(Next1) /\ ~IsFileHeader(Next1) /\ ~IsLineNumber(Next1)
    /\ ~IsInstruction(Next1)
    /\ seq' = IF ~Next1.blank /\ ~Next1.colon
              THEN Append(seq, SrcEvent(curFile, curLine, TextOf)) ELSE seq
    /\ pos' = pos + 1
    /\ UNCHANGED <<lines, curFile, curLine, index, mixedCandidate, announced>>

ScanLine ==
    \/ SourceMappingLine
    \/ FileHeaderLine
    \/ LineNumberLine
    \/ InstructionLine
    \/ FreeTextLine

ScanDone == pos = Len(lines)

ParserSpec == (\E l \in Listings : ParserInit(l)) /\ [][ScanLine]_parserVars

-----------------------------------------------------------------------------
OptFile == Files \cup {None}
OptLine == LineNums \cup {None}
InsnRecord == [text : Nat, file : OptFile, line : OptLine]
IsEvent(e) ==
    \/ e \in [type : {"src"}, address : {None}, file : OptFile, line : OptLine, text : Nat]
    \/ e \in [type : {"insn"}, address : Addrs, file : OptFile, line : OptLine, text : Nat]

ParserTypeOK ==
    /\ pos \in 0..Len(lines)
    /\ curFile \in Files \cup {None}
    /\ curLine \in LineNums \cup {None}
    /\ DOMAIN index \subseteq Addrs /\ \A a \in DOMAIN index : index[a] \in InsnRecord
    /\ \A i \in DOMAIN seq : IsEvent(seq[i])
    /\ mixedCandidate \in BOOLEAN

(***************************************************************************)
(* No instruction is lost to the precedence of the line classes: the      *)
(* index holds exactly the addresses of the lines scanned so far that     *)
(* carry an address prefix and instruction text, although such lines also *)
(* match the line-number regex (line 995) once a file is current.         *)
(***************************************************************************)
EveryInstructionIndexed ==
    DOMAIN index = {lines[i].ad.addr : i \in {j \in 1..pos : lines[j].ad # None /\ lines[j].ad.ins}}

(***************************************************************************)
(* Every instruction attributed to a file and a line is attributed to a   *)
(* pair the listing announced together (a file:line mapping, a line       *)
(* number under that file, or a token on an instruction line): the file   *)
(* of one function is never paired with a line of another.  A bare file   *)
(* header (line 989) moves the file and keeps the previous line.          *)
(***************************************************************************)
AttributionCoherent ==
    \A i \in DOMAIN seq :
        (seq[i].type = "insn" /\ seq[i].file # None /\ seq[i].line # None)
            => <<seq[i].file, seq[i].line>> \in announced

=============================================================================
