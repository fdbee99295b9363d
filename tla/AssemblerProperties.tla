------------------------- MODULE AssemblerProperties -------------------------
(***************************************************************************)
(* What the assembler promises about a source, stated on the source alone: *)
(* where each line goes, which label a name means, and what is an error.   *)
(***************************************************************************)
EXTENDS Assembler

Lines == DOMAIN source

LinesOf(kind) == {i \in Lines : source[i].kind = kind}

\* The number of scopes that are open before line i.
Depth(i) == Cardinality({j \in LinesOf("{") : j < i})
              - Cardinality({j \in LinesOf("}") : j < i})

\* The open braces around line i, and the innermost of them (0 if none).
Around(i) == {j \in LinesOf("{") : j < i /\ \A k \in j + 1 .. i : Depth(k) > Depth(j)}
ScopeOf(i) == Max(Around(i) \cup {0})

\* The labels a name in line i may mean, and the innermost of them.
Candidates(i, name) ==
  {d \in LinesOf("label") :
     source[d].name = name /\ ScopeOf(d) \in Around(i) \cup {0}}

Meaning(i, name) ==
  CHOOSE d \in Candidates(i, name) :
    \A e \in Candidates(i, name) : ScopeOf(e) <= ScopeOf(d)

\* The address of each line, and of the end, as the directives' descriptions in
\* README.md say.  A quotient by 0, which is an error only later, counts as 0.
Layout ==
  LET Addr[i \in 1 .. Len(source) + 1] ==
        IF i = 1 THEN 0
        ELSE LET line  == source[i - 1]
                 start == Addr[i - 1]
                 Address(name) ==
                   IF Candidates(i - 1, name) = {} THEN NotFound
                   ELSE Addr[Meaning(i - 1, name)]
                 value == Evaluate(line.expr, FALSE, start,
                           [name \in NamesIn(line.expr) |-> Address(name)]).num
             IN CASE line.kind = ".org"   -> value
                  [] line.kind = ".space" -> start + value
                  [] line.kind = ".db"    -> start + line.size * Len(line.exprs)
                  [] line.kind = "instr"  -> start + 4 * Len(Expand(line.text))
                  [] OTHER                -> start
  IN Addr

AddressOfMeaning(i, name) ==
  IF Candidates(i, name) = {} THEN NotFound ELSE Layout[Meaning(i, name)]

ValueIn(i, expr, here) ==
  Evaluate(expr, TRUE, here,
           [name \in NamesIn(expr) |-> AddressOfMeaning(i, name)])

\* The instructions of the source: their texts with the values of their
\* expressions, and their addresses.
Written ==
  UNION {LET basic == Expand([source[i].text EXCEPT !.imm =
                                ValueIn(i, source[i].expr, Layout[i]).num])
         IN {[line |-> i, text |-> basic[k], address |-> Layout[i] + 4 * (k - 1)] :
               k \in DOMAIN basic} : i \in LinesOf("instr")}

\* The data of the source, and their addresses.
WrittenData ==
  UNION {LET Address(k) == Layout[i] + source[i].size * (k - 1)
         IN {[line |-> i, size |-> source[i].size, address |-> Address(k),
              value |-> ValueIn(i, source[i].exprs[k], Address(k)).num] :
               k \in DOMAIN source[i].exprs} : i \in LinesOf(".db")}

\* Memory with the bytes of each piece at its address; a line further down comes
\* over one above.
Overlay(pieces) ==
  LET Extent(p) == p.address .. p.address + Len(p.bytes) - 1
      Last(a) == CHOOSE p \in pieces :
                   /\ a \in Extent(p)
                   /\ \A q \in pieces : a \in Extent(q) => q.line <= p.line
  IN [a \in UNION {Extent(p) : p \in pieces} |->
        Last(a).bytes[a - Last(a).address + 1]]

\* Memory with every line's bytes at the line's address.
Image ==
  Overlay({[line |-> w.line, address |-> w.address,
            bytes |-> Bytes(Encode(w.text, w.address), 4)] : w \in Written}
            \cup {[line |-> d.line, address |-> d.address,
                   bytes |-> Bytes(d.value, d.size)] : d \in WrittenData})

Put(image, addr, bytes) ==
  LET Extent == addr .. addr + Len(bytes) - 1
  IN [a \in Extent \cup DOMAIN image |->
        IF a \in Extent THEN bytes[a - addr + 1] ELSE image[a]]

BytesIn(digits) ==
  [i \in 1 .. Len(digits) \div 2 |-> digits[2 * i - 1] * 16 + digits[2 * i]]

\* The bytes of a text at the addresses it gives, and the address behind them.
Load(s, l) ==
  LET bytes == BytesIn(Digits(l))
  IN IF l.at THEN [s EXCEPT !.addr = HexValue(Digits(l))]
     ELSE [addr |-> s.addr + Len(bytes), image |-> Put(s.image, s.addr, bytes)]

Loading(lines) ==
  LET Upto[i \in 0 .. Len(lines)] ==
        IF i = 0 THEN [addr |-> 0, image |-> <<>>] ELSE Load(Upto[i - 1], lines[i])
  IN Upto[Len(lines)]

ImageOf(lines) == Loading(lines).image

Loaded == ImageOf(out)

\* The expressions of a line, each with the address it is evaluated at.
ExprsAt(i) ==
  LET line == source[i]
  IN CASE line.kind \in {".org", ".space", "instr"} -> {<<line.expr, Layout[i]>>}
       [] line.kind = ".db" -> {<<line.exprs[k], Layout[i] + line.size * (k - 1)>> :
                                  k \in DOMAIN line.exprs}
       [] OTHER -> {}

\* Two labels of one name in one scope.
Twice ==
  \E d, e \in LinesOf("label") :
    d < e /\ source[d].name = source[e].name /\ ScopeOf(d) = ScopeOf(e)

Outcomes(i) == {ValueIn(i, e[1], e[2]).status : e \in ExprsAt(i)}

\* Names count as 0 in the first pass.
FirstOutcomes(i) ==
  {Evaluate(e[1], FALSE, e[2], [name \in NamesIn(e[1]) |-> 0]).status :
     e \in ExprsAt(i)}

\* The names of instructions with such operands, in the tables and of the pseudo
\* instructions.
Documented(args) ==
  (UNION {NamesWith(Iog[g], args) : g \in 0 .. 6}) \cup PseudoInstructionNames(args)

\* There is no such instruction.
Unknown(text) == text.name \notin Documented(text.args)

\* What is wrong with a source: a brace that is not closed, a line in a scope that
\* is none; an instruction that there is not; two labels of one name in one scope; a
\* name without a label, a quotient or a remainder by 0.
Erroneous ==
  \/ OpenAt(source, Len(source)) # 0
  \/ LinesOf("stray") # {}
  \/ \E i \in LinesOf("instr") : Unknown(source[i].text)
  \/ Twice
  \/ \E i \in Lines : Outcomes(i) \cap {"error", "crashed"} # {}

(***************************************************************************)
(* What the assembler cannot do with a source that may have no error.      *)
(***************************************************************************)
\* Instructions that there are, and cannot be written under their names: nori has
\* no rule, nor no case, and the tokens of sgtu and sgts are misspelled.
Unassembled ==
  {<<"nori", "TwoRegsOneImm">>, <<"nor", "ThreeRegs">>}
    \cup ({"sgtu", "sgts"} \X {"ThreeRegs", "TwoRegs"})

Unwritable(text) == <<text.name, text.args>> \in Unassembled

Unwritten == \E i \in LinesOf("instr") : Unwritable(source[i].text)

\* What they are spelled as.
Misspelled(text) == text.name \in {"gltu", "glts"} /\ text.args \in {"ThreeRegs", "TwoRegs"}

\* The misspelled instructions; a remainder by 0, or by a name.
Crashing ==
  \/ \E i \in LinesOf("instr") : Misspelled(source[i].text)
  \/ \E i \in Lines : "crashed" \in Outcomes(i) \cup FirstOutcomes(i)

(***************************************************************************)
(* Properties.                                                             *)
(***************************************************************************)
\* The output, loaded into memory, has every line's bytes at the line's
\* address, and every name in it stands for the address of the innermost label
\* of that name, above or below, whatever the other scopes of the source.
OutputIsTheAssembly == status = "done" => Loaded = Image

\* The assembler finishes with no source that has an error, in the parser or in
\* whichever pass the error shows (assembler_class.cpp:284, 1442, 1524); it stops
\* with an error only for those and for the instructions it should take and does
\* not, and is killed only by what Crashing lists.  The source of a file that has a
\* brace too many is what stands before the brace (AssemblerGrammar.g4:4-6).
RejectsExactly ==
  CASE status = "done"    -> ~Erroneous
    [] status = "error"   -> Erroneous \/ Unwritten
    [] status = "crashed" -> Crashing
    [] OTHER -> TRUE

\* The nodes are numbered in the order of the braces, behind the two of an
\* empty table.
NodeOf(i) == IF i = 0 THEN Global ELSE Cardinality({j \in LinesOf("{") : j <= i}) + 2

\* In both passes the visitor is in the node of the scope the line is in: the
\* second pass finds it by counting children (assembler_class.cpp:237-263), the
\* first one made it.
ScopesReplayed == curr_scope_node = NodeOf(ScopeOf(at))

\* The second pass finds every label where the first one left it (visitLabel,
\* 269-296):
\* otherwise names above and below the label stand for different addresses.
LabelsKeepTheirAddress == [][pass = 1 /\ pass' = 1 => UNCHANGED tree]_avars

(***************************************************************************)
(* What comments and documents of the repository say, and the code does    *)
(* not do (see README.md).                                                 *)
(***************************************************************************)
\* "This disallows duplicate labels in the same scope."
\* (assembler_class.cpp:277)
NoDuplicateInAScope == status = "done" => ~Twice

\* ".org: change the program counter to an expression" (README.md:109): what
\* follows a .org is at the value of its expression, and names that stand for
\* it say so.
OrgGoesToItsExpression == OutputIsTheAssembly
==============================================================================
