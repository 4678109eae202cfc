---------------------------- MODULE ToolChoice -----------------------------
(***************************************************************************)
(* What spec section 6 promises of the external tools, as one step: the   *)
(* disassemblers the search path holds and the mode allows are tried in   *)
(* order of preference (a toolchain-prefixed binary, the generic          *)
(* cross-vendor llvm-objdump for an ELF only, the platform objdump) until  *)
(* one produces a listing, which is then used, or all have failed; a      *)
(* line mapper is chosen, by preference, only once an ELF listing exists. *)
(* ToolSelect is shown to implement this specification.                    *)
(***************************************************************************)
EXTENDS Naturals, Sequences

CONSTANTS Prefixes, PathChoices, None

VARIABLES prefix, path, mode, ran, diag, a2l, phase

vars == <<prefix, path, mode, ran, diag, a2l, phase>>

\* the toolchain-prefixed binary of a tool, when a prefix is configured
PrefixedTool(tool, p) ==
    IF p.stem = "" /\ ~p.dash THEN None ELSE << p.stem \o "-", tool >>

\* the disassemblers the mode may use, most preferred first, as far as the
\* search path holds them
Disassemblers(md, p, pth) ==
    SelectSeq(<< PrefixedTool("objdump", p) >>
                \o (IF md = "elf" THEN << << "", "llvm-objdump" >> >> ELSE << >>)
                \o << << "", "objdump" >> >>,
              LAMBDA c : c \in pth)

\* the outcomes of trying n tools in turn: all of them fail (raise or print
\* nothing), or the k-th prints a listing after k - 1 failures
Tries(n) ==
    LET Fail(k) == [1..k -> {"raise", "empty"}]
    IN Fail(n) \cup UNION {{f \o << "text" >> : f \in Fail(k - 1)} : k \in 1..n}

\* the most preferred line mapper the search path holds
LineMapper(p, pth) ==
    LET avail == SelectSeq(<< PrefixedTool("addr2line", p), << "", "llvm-addr2line" >>,
                              << "", "addr2line" >> >>,
                           LAMBDA c : c \in pth)
    IN IF avail = << >> THEN None ELSE Head(avail)

ChoiceInit ==
    /\ prefix \in Prefixes
    /\ path \in PathChoices
    /\ mode \in {"elf", "rom"}
    /\ ran = << >>
    /\ diag = None
    /\ a2l = None
    /\ phase = "pending"

Choose ==
    /\ phase = "pending"
    /\ LET order == Disassemblers(mode, prefix, path) IN
       \E r \in Tries(Len(order)) :
         LET ok == r # << >> /\ r[Len(r)] = "text" IN
         /\ ran' = r
         /\ diag' = IF ok THEN [ok |-> TRUE, tool |-> order[Len(r)]]
                          ELSE [ok |-> FALSE, tool |-> None]
         /\ a2l' = IF ok /\ mode = "elf" THEN LineMapper(prefix, path) ELSE None
    /\ phase' = "done"
    /\ UNCHANGED <<prefix, path, mode>>

ChoiceSpec == ChoiceInit /\ [][Choose]_vars

=============================================================================
