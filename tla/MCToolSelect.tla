---------------------------- MODULE MCToolSelect ---------------------------
EXTENDS ToolSelect

\* None or "  ", "-", "m68k-elf" and "m68k-elf-"
MCPrefixes ==
    {[stem |-> "", dash |-> FALSE], [stem |-> "", dash |-> TRUE],
     [stem |-> "m68k-elf", dash |-> FALSE], [stem |-> "m68k-elf", dash |-> TRUE]}

MCTools ==
    {<< "m68k-elf-", "objdump" >>, << "m68k-elf-", "addr2line" >>,
     Generic("llvm-objdump"), Generic("objdump"), Generic("llvm-addr2line"),
     Generic("addr2line")}

MCPaths == SUBSET MCTools

=============================================================================
