---------------------------- MODULE AssemblerGrammar ----------------------------
(***************************************************************************)
(* What the assembler takes for a source: the lexer and the rules of       *)
(* AssemblerGrammar.g4, and the parts of the visitors that depend on them. *)
(*                                                                         *)
(* A source is the sequence of its lines in the order in which the visitor *)
(* meets them: the braces of a scopedLines are lines of their own.  An     *)
(* expression is the sequence of its tokens in the order in which their    *)
(* values are pushed and popped on __num_stack.                            *)
(***************************************************************************)
EXTENDS EncodingStuff, FiniteSetsExt

Open         == [kind |-> "{"]
Close        == [kind |-> "}"]
Label(name)  == [kind |-> "label", name |-> name]
Org(expr)    == [kind |-> ".org", expr |-> expr]
Space(expr)  == [kind |-> ".space", expr |-> expr]
Db(size, es) == [kind |-> ".db", size |-> size, exprs |-> es]
Instr(text, expr) == [kind |-> "instr", text |-> text, expr |-> expr]

\* A line whose first token starts no line: a comma, a number, a bracket.
Stray        == [kind |-> "stray"]

Num(n)   == <<"num", n>>
Ident(n) == <<"ident", n>>
Op(o)    == <<"op", o>>
CurrPc   == <<"pc">>

IsExpr(expr) ==
  /\ Len(expr) \in Nat /\ DOMAIN expr = 1 .. Len(expr)
  /\ \A i \in 1 .. Len(expr) : expr[i][1] \in {"num", "ident", "op", "pc"}

\* Which operands there are, by their kinds: those of EncodingStuff's ArgsType,
\* and those of the pseudo instructions.
WithRa(args) == args \notin {"NoArgs", "OneImm"}

WithRb(args) ==
  args \in {"ThreeRegs", "ThreeRegsLdst", "TwoRegsOneImm", "TwoRegsOneSimm",
            "TwoRegsOneSimmLdst", "Branch", "TwoRegs"}

WithRc(args) == args \in {"ThreeRegs", "ThreeRegsLdst"}

WithImm(args) ==
  args \in {"TwoRegsOneImm", "TwoRegsOneSimm", "OneRegOnePcOneSimm", "OneRegOneImm",
            "TwoRegsOneSimmLdst", "Branch", "OneImm"}

Registers == 0 .. 15   \* identReg

\* No operand but those of the kinds is there.
Fits(args, ra, rb, rc, imm) ==
  /\ ~WithRa(args) => ra = 0
  /\ ~WithRb(args) => rb = 0
  /\ ~WithRc(args) => rc = 0
  /\ ~WithImm(args) => imm = 0

\* The parts of a line that has any: finite lists of tokens and of expressions,
\* and the operands of an instruction.
IsLine(line) ==
  /\ line.kind \in {".org", ".space", "instr"} => IsExpr(line.expr)
  /\ line.kind = ".db" => /\ line.size \in {1, 2, 4} /\ Len(line.exprs) \in Nat
                          /\ DOMAIN line.exprs = 1 .. Len(line.exprs)
                          /\ \A k \in 1 .. Len(line.exprs) : IsExpr(line.exprs[k])
  /\ line.kind = "instr" =>
       LET t == line.text
       IN /\ t = Text(t.name, t.args, t.ra, t.rb, t.rc, t.imm)
          /\ {t.ra, t.rb, t.rc} \subseteq Registers
          /\ Fits(t.args, t.ra, t.rb, t.rc, 0)
          /\ ~WithImm(t.args) => line.expr = <<>>

(***************************************************************************)
(* Names.  The token of an instruction is called as the instruction is in  *)
(* the tables; two are spelled in another way.                             *)
(***************************************************************************)
Spelled(name) ==
  CASE name = "sgtu" -> "gltu"
    [] name = "sgts" -> "glts"
    [] OTHER -> name

NamesWith(table, args) ==
  {table[i][1] : i \in {j \in DOMAIN table : table[j][2] = args}}

\* The rules under `instruction', by their operands: nori with three of them
\* is missing.
InstructionNames(args) ==
  (UNION {NamesWith(Iog[g], args) : g \in 0 .. 6})
    \ (IF args = "TwoRegsOneImm" THEN {"nori"} ELSE {})

\* The rules under `pseudoInstruction'.
PseudoInstructionNames(args) ==
  CASE args = "TwoRegs"       -> {"inv", "cpy"} \cup NamesWith(Iog0, "ThreeRegs")
    [] args = "OneRegOnePc"   -> {"cpy"}
    [] args = "OneRegOneImm"  -> {"invi", "cpyi", "cpya"}
                                   \cup NamesWith(Iog1, "TwoRegsOneImm")
                                   \cup NamesWith(Iog1, "TwoRegsOneSimm")
    [] args = "OneImm"        -> {"bra", "jmpa", "calla"}
    [] args = "OneReg"        -> {"jmp", "call", "inc", "dec"}
    [] args = "TwoRegsOneImm" -> {"jmpane", "jmpaeq", "callane", "callaeq"}
    [] OTHER -> {}

InGrammar(text) ==
  \E name \in InstructionNames(text.args) \cup PseudoInstructionNames(text.args) :
    text.name = Spelled(name)

(***************************************************************************)
(* program(): line* without EOF.  The loop ends, without an error, at the  *)
(* first line that can be none: a stray one, or a brace that closes        *)
(* nothing.  The parse tree holds the lines before it.  In a scope a stray *)
(* line is an error, for the brace is expected there.                      *)
(***************************************************************************)
Count(lines, kind, n) == Cardinality({i \in 1 .. n : lines[i].kind = kind})

OpenAt(lines, n) == Count(lines, "{", n) - Count(lines, "}", n)

EndsProgram(lines, i) ==
  \/ lines[i].kind = "}" /\ OpenAt(lines, i) < 0
  \/ lines[i].kind = "stray" /\ OpenAt(lines, i) = 0

Parsed(lines) ==
  LET ends == {i \in DOMAIN lines : EndsProgram(lines, i)} \cup {Len(lines) + 1}
  IN SubSeq(lines, 1, Min(ends) - 1)

\* syntaxError of the parser's error listener.
SyntaxError(lines) ==
  \/ OpenAt(lines, Len(lines)) # 0
  \/ \E i \in DOMAIN lines :
       \/ lines[i].kind = "stray"
       \/ lines[i].kind = "instr" /\ ~InGrammar(lines[i].text)

(***************************************************************************)
(* The visitors.  Each tells the tokens of its rule apart, and ends the    *)
(* program with an error when it does not know one.                        *)
(***************************************************************************)
VisitedInAlu(args) ==
  CASE args = "ThreeRegs" -> NamesWith(Iog0, args) \ {"nor"}
    [] OTHER -> NamesWith(Iog1, args)

VisitedInFlow(args) ==
  UNION {NamesWith(table, args) : table \in {Iog2, Iog3, Iog4}}

VisitedInMemoryAndInterrupts(args) ==
  NamesWith(Iog5, args) \cup NamesWith(Iog6, args)

Visited(args) ==
  UNION {VisitedInAlu(args), VisitedInFlow(args),
         VisitedInMemoryAndInterrupts(args), PseudoInstructionNames(args)}

Eek(text) == \A name \in Visited(text.args) : text.name # Spelled(name)

\* The visitors look the token's text up in the tables, where sgtu and sgts are
\* not called gltu and glts.
LookupThrows(text) ==
  LET basic == Expand(text)
  IN \E i \in DOMAIN basic : ~InTables(basic[i])
==============================================================================
