--------------------------- MODULE MCDisasmParser ---------------------------
(* Every listing of up to MaxLines lines built from the line shapes below. *)
EXTENDS DisasmParser

\* model values: two source files, and the banner text left in cur_file
CONSTANTS FileA, FileB, Banner

MaxLines == 4

\* FileA and FileB are source files; Banner stands for the text
\* "Disassembly of section .init" that the section banner leaves in cur_file.
Shapes ==
    { MappingText(FileA, 1, FALSE), MappingText(FileA, 2, TRUE),
      FileHeaderText(Banner), LineNumberText(2, TRUE),
      InstructionText(16, TRUE, None),
      InstructionText(18, TRUE, [file |-> FileB, line |-> 1]),
      InstructionText(20, FALSE, None),
      SourceText, LabelText }

MCListings == UNION {[1..n -> Shapes] : n \in 1..MaxLines}
=============================================================================
