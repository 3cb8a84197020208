------------------------------- MODULE MCCli -------------------------------
(* Every command line of up to four arguments, out of all options, an      *)
(* unknown one, "--" and two operands; and a compilation of every path of  *)
(* up to five symbols, "out" being one of the names.                       *)
EXTENDS Cli

MCOptionsAndOperands ==
    {Option(o) : o \in longOpts \cup {"--", "--bogus"}}
    \cup {Operand(<<"prog">>), Operand(<<"b", ".", "asm2">>)}

MCPaths ==
    {p \in UNION {[1 .. n -> {"/", ".", "prog", "out"}] : n \in 1 .. 5} : Runs(p)}

MCArguments == MCOptionsAndOperands \cup {Operand(p) : p \in MCPaths}

MCSymbols == UNION {{arg.path[i] : i \in 1 .. Len(arg.path)} : arg \in MCArguments}

MCArgLists ==
    UNION {[1 .. n -> MCOptionsAndOperands] : n \in 0 .. 4}
    \cup {<<Option("--compile"), Operand(p)>> : p \in MCPaths}
=============================================================================
