----------------------------- MODULE ToolSelect ----------------------------
(***************************************************************************)
(* How build_viewer.py picks its external tools: which and toolchain_cmd  *)
(* (913-929), the objdump fallback chains of build_disasm_index (936-957) *)
(* and build_disasm_index_from_rom (1071-1088), and the addr2line choice  *)
(* of addr2line_create (476-485), which main makes only once the ELF      *)
(* index is non-empty (277-301).                                           *)
(*                                                                         *)
(* --toolchain-prefix is [stem, dash]: the text after strip() without a   *)
(* trailing "-" and whether it had one; None and blanks are [stem |-> "",  *)
(* dash |-> FALSE].  An executable is named <<prefix, tool>>, the prefix  *)
(* being "" for a generic tool.  PATH is                                   *)
(* the set of names `which` finds.  Each run of a command raises, prints  *)
(* nothing, or prints a listing.                                           *)
(***************************************************************************)
EXTENDS Integers, Sequences

CONSTANTS
    Prefixes,     \* the --toolchain-prefix values
    PathChoices,  \* the sets of executables PATH may hold
    None

VARIABLES
    prefix, path, mode,  \* the inputs; mode is "elf" or "rom"
    cmds,     \* the candidate commands, in order
    j,        \* the next command to try
    out,      \* None | "empty" | "text"
    usedCmd,  \* used_cmd
    ran,      \* history: the outcomes of the commands run, in order
    diag,     \* the returned status: [ok, tool]
    a2l,      \* addr2line_create's cmd
    phase     \* "build" | "try" | "a2l" | "done"

vars == <<prefix, path, mode, cmds, j, out, usedCmd, ran, diag, a2l, phase>>

Outcomes == {"raise", "empty", "text"}

\* toolchain_cmd (921-929): None for an empty prefix, else prefix + tool
\* with a "-" added when the prefix lacks one
ToolchainCmd(tool, p) ==
    IF p.stem = "" /\ ~p.dash THEN None ELSE << p.stem \o "-", tool >>

\* a generic tool: "llvm-objdump", "objdump", ...
Generic(tool) == << "", tool >>

\* `tc and which(tc)` (938, 1073, 478)
Usable(c, pth) == c # None /\ c \in pth

\* a ROM command list that also offers llvm-objdump
CandidatesLlvmInRom(md, p, pth) ==
    LET tc == ToolchainCmd("objdump", p)
        tcs == IF Usable(tc, pth) THEN << tc >> ELSE << >>
        llvm == IF Generic("llvm-objdump") \in pth THEN << Generic("llvm-objdump") >> ELSE << >>
        gnu == IF Generic("objdump") \in pth THEN << Generic("objdump") >> ELSE << >>
    IN tcs \o llvm \o gnu

\* the commands of lines 936-945 (ELF) or 1071-1076 (ROM)
Candidates(md, p, pth) ==
    LET tc == ToolchainCmd("objdump", p)
        tcs == IF Usable(tc, pth) THEN << tc >> ELSE << >>
        llvm == IF md = "elf" /\ Generic("llvm-objdump") \in pth
                THEN << Generic("llvm-objdump") >> ELSE << >>
        gnu == IF Generic("objdump") \in pth THEN << Generic("objdump") >> ELSE << >>
    IN tcs \o llvm \o gnu

\* addr2line_create's elif chain (476-485)
Addr2lineCmd(p, pth) ==
    LET tc == ToolchainCmd("addr2line", p) IN
    CASE Usable(tc, pth)                   -> tc
      [] Generic("llvm-addr2line") \in pth -> Generic("llvm-addr2line")
      [] Generic("addr2line") \in pth      -> Generic("addr2line")
      [] OTHER                             -> None

-----------------------------------------------------------------------------

Init ==
    /\ prefix \in Prefixes
    /\ path \in PathChoices
    /\ mode \in {"elf", "rom"}
    /\ cmds = << >>
    /\ j = 1
    /\ out = None
    /\ usedCmd = None
    /\ ran = << >>
    /\ diag = None
    /\ a2l = None
    /\ phase = "build"

BuildCommands ==
    /\ phase = "build"
    /\ cmds' = Candidates(mode, prefix, path)
    /\ phase' = "try"
    /\ UNCHANGED <<prefix, path, mode, j, out, usedCmd, ran, diag, a2l>>

\* a try that keeps going after a command printed its listing
TryCommandNoBreak ==
    /\ phase = "try"
    /\ j <= Len(cmds)
    /\ \E o \in Outcomes :
         /\ ran' = Append(ran, o)
         /\ out' = IF o = "raise" THEN out ELSE o
         /\ usedCmd' = IF o = "text" THEN cmds[j] ELSE usedCmd
         /\ j' = j + 1
    /\ UNCHANGED <<prefix, path, mode, cmds, diag, a2l, phase>>

(* One pass of the loop (948-955 / 1079-1086): a command that raises      *)
(* leaves out as it was; one that prints nothing sets out to ""; one that *)
(* prints sets used_cmd and breaks.                                        *)
TryCommand ==
    /\ phase = "try"
    /\ j <= Len(cmds)
    /\ \E o \in Outcomes :
         /\ ran' = Append(ran, o)
         /\ out' = IF o = "raise" THEN out ELSE o
         /\ usedCmd' = IF o = "text" THEN cmds[j] ELSE usedCmd
         /\ j' = IF o = "text" THEN Len(cmds) + 1 ELSE j + 1
    /\ UNCHANGED <<prefix, path, mode, cmds, diag, a2l, phase>>

\* a return that goes on to addr2line_create on the ROM path too
ReturnIndexAlwaysA2l ==
    /\ phase = "try"
    /\ j > Len(cmds)
    /\ diag' = IF out = "text" THEN [ok |-> TRUE, tool |-> usedCmd]
                               ELSE [ok |-> FALSE, tool |-> None]
    /\ phase' = IF out = "text" THEN "a2l" ELSE "done"
    /\ UNCHANGED <<prefix, path, mode, cmds, j, out, usedCmd, ran, a2l>>

(* Lines 956-957 / 1087-1088, or 1039 / 1110 once the listing is parsed.  *)
(* On the ELF path, main goes on to addr2line_create (301) when the index *)
(* is non-empty, which a printed listing is taken to give.                 *)
ReturnIndex ==
    /\ phase = "try"
    /\ j > Len(cmds)
    /\ diag' = IF out = "text" THEN [ok |-> TRUE, tool |-> usedCmd]
                               ELSE [ok |-> FALSE, tool |-> None]
    /\ phase' = IF out = "text" /\ mode = "elf" THEN "a2l" ELSE "done"
    /\ UNCHANGED <<prefix, path, mode, cmds, j, out, usedCmd, ran, a2l>>

CreateAddr2line ==
    /\ phase = "a2l"
    /\ a2l' = Addr2lineCmd(prefix, path)
    /\ phase' = "done"
    /\ UNCHANGED <<prefix, path, mode, cmds, j, out, usedCmd, ran, diag>>

ToolNext == BuildCommands \/ TryCommand \/ ReturnIndex \/ CreateAddr2line

ToolSpec == Init /\ [][ToolNext]_vars

-----------------------------------------------------------------------------

ToolTypeOK ==
    /\ phase \in {"build", "try", "a2l", "done"}
    /\ out \in {None, "empty", "text"}
    /\ j \in 1..Len(cmds) + 1
    /\ Len(ran) <= Len(cmds)
    /\ \A n \in DOMAIN ran : ran[n] \in Outcomes
    /\ a2l # None => phase = "done" /\ mode = "elf"

(* The fallback loop of build_disasm_index and build_disasm_index_from_rom *)
(* returns a listing exactly when some command printed one; it is then    *)
(* the first command that did, no later command was run, and the status   *)
(* names it; it gives up only after every candidate was tried, whatever   *)
(* mix of raising and silent commands came before.                         *)
ListingFromFirstPrinter ==
    diag # None =>
        /\ diag.ok <=> (\E n \in DOMAIN ran : ran[n] = "text")
        /\ diag.ok => /\ ran[Len(ran)] = "text"
                      /\ \A n \in 1..Len(ran) - 1 : ran[n] # "text"
                      /\ diag.tool = cmds[Len(ran)]
        /\ ~diag.ok => Len(ran) = Len(cmds)

\* ToolSelect seen through spec section 6: the choice is made when it returns
Abs == INSTANCE ToolChoice
         WITH ran   <- IF phase = "done" THEN ran ELSE << >>,
              diag  <- IF phase = "done" THEN diag ELSE None,
              phase <- IF phase = "done" THEN "done" ELSE "pending"

(* The fallback loops of build_disasm_index and build_disasm_index_from_rom *)
(* and addr2line_create, with every mix of raising, silent and printing   *)
(* commands, implement ToolChoice: the disassemblers PATH holds and the  *)
(* mode allows are tried in order of preference (the prefixed objdump,    *)
(* llvm-objdump for an ELF only, objdump) up to the first that prints a   *)
(* listing, which is the one used; the preferred addr2line is chosen      *)
(* exactly when an ELF listing was produced.                               *)
ToolsRefineChoice == Abs!ChoiceSpec

=============================================================================
