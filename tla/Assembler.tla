------------------------------ MODULE Assembler ------------------------------
(***************************************************************************)
(* The two-pass assembler (assembler_class.cpp).                           *)
(*                                                                         *)
(* The constructor parses the file; then each action is one line of the    *)
(* parse tree.  Numbers, which are 64 bits wide in the code, are bounded   *)
(* by the sources to those of 32 bits, of which the output shows no more.  *)
(***************************************************************************)
EXTENDS AssemblerGrammar, ScopedTable, Vmem

CONSTANT Sources   \* the files that are assembled

ASSUME SourcesAssumption ==
  \A input \in Sources : /\ Len(input) \in Nat
                         /\ input = [i \in 1 .. Len(input) |-> input[i]]
                         /\ \A i \in 1 .. Len(input) : IsLine(input[i])

VARIABLES
  file,                    \* standard input
  show_words,              \* __show_words: the option is -b, not -a
  source,                  \* __program_ctx: the lines that are visited
  pass,                    \* __pass
  at,                      \* the line the visitor is at
  pc,                      \* __pc: [prev, curr]
  tree,                    \* __sym_tbl
  curr_scope_node,         \* __curr_scope_node
  scope_child_num_stack,   \* __scope_child_num_stack
  out,                     \* standard output
  status                   \* "parsing", "running", "done", "error" (exit(1)),
                           \* "crashed" (a signal or an uncaught exception)

avars == <<file, show_words, source, pass, at, pc, tree, curr_scope_node,
           scope_child_num_stack, out, status>>

(***************************************************************************)
(* Expressions.                                                            *)
(***************************************************************************)
\* The quotient of C++ goes towards zero.
Quotient(a, b) ==
  LET Size(x) == IF x < 0 THEN -x ELSE x
      q == Size(a) \div Size(b)
  IN IF (a < 0) = (b < 0) THEN q ELSE -q

Truth(b) == IF b THEN 1 ELSE 0

Bit(x, i) == (x \div 2 ^ i) % 2

BitOp(op, b, c) ==
  CASE op = "&" -> b * c
    [] op = "|" -> b + c - b * c
    [] op = "^" -> (b + c) % 2

\* Of numbers of 32 bits, two's complement.
Bitwise(op, l, r) ==
  LET Sign(x) == Truth(x < 0)
      Low[i \in 0 .. 31] ==
        IF i = 0 THEN 0
        ELSE Low[i - 1] + BitOp(op, Bit(l, i - 1), Bit(r, i - 1)) * 2 ^ (i - 1)
  IN IF BitOp(op, Sign(l), Sign(r)) = 1 THEN Low[31] - 2 ^ 30 - 2 ^ 30 ELSE Low[31]

\* The operand of the logical shift is taken for a number of 64 bits without sign.
ShiftedRight(l, r) ==
  LET Halved[k \in 0 .. r] == IF k = 0 THEN l ELSE Halved[k - 1] \div 2
  IN IF l < 0 /\ r > 0 THEN 2 ^ (64 - r) + Halved[r] ELSE Halved[r]

Binary(op, l, r) ==
  CASE op = "+" -> l + r          [] op = "-" -> l - r
    [] op = "*" -> l * r
    [] op = "/" -> IF r = 0 THEN 0 ELSE Quotient(l, r)
    [] op = "%" -> l - r * Quotient(l, r)
    [] op \in {"&", "|", "^"} -> Bitwise(op, l, r)
    [] op = "<<" -> l * 2 ^ r     [] op = ">>>" -> l \div 2 ^ r
    [] op = ">>" -> ShiftedRight(l, r)
    [] op = "==" -> Truth(l = r)  [] op = "!=" -> Truth(l # r)
    [] op = "<" -> Truth(l < r)   [] op = ">" -> Truth(l > r)
    [] op = "<=" -> Truth(l <= r) [] op = ">=" -> Truth(l >= r)
    [] op = "&&" -> Truth(l # 0 /\ r # 0)
    [] op = "||" -> Truth(l # 0 \/ r # 0)

Unary(op, x) ==
  CASE op = "neg" -> -x [] op = "~" -> -x - 1 [] op = "!" -> Truth(x = 0)

NotFound == -1   \* the address of a name that has no label

\* The evaluation has ended the program.
Failed(value) == value.status \in {"error", "crashed"}

NamesIn(expr) == {t[2] : t \in {u \in {expr[i] : i \in DOMAIN expr} : u[1] = "ident"}}

\* Evaluate the tokens, with addr for the addresses of the names.  A division by
\* zero is an error in the last pass only; a remainder by zero stops the program.
Evaluate(expr, last_pass, here, addr) ==
  LET Push(s, n) == [s EXCEPT !.nums = Append(@, n)]
      Stop(s, how) == [s EXCEPT !.status = how]
      Top(s, k) == s.nums[Len(s.nums) - k]
      Pop(s, k) == [s EXCEPT !.nums = SubSeq(@, 1, Len(@) - k)]
      Operate(s, op) ==
        IF op \in {"neg", "~", "!"} THEN Push(Pop(s, 1), Unary(op, Top(s, 0)))
        ELSE IF op = "/" /\ Top(s, 0) = 0 /\ last_pass THEN Stop(s, "error")
        ELSE IF op = "%" /\ Top(s, 0) = 0 THEN Stop(s, "crashed")
        ELSE Push(Pop(s, 2), Binary(op, Top(s, 1), Top(s, 0)))
      Token(s, t) ==
        IF s.status # "running" THEN s
        ELSE CASE t[1] = "num" -> Push(s, t[2])
               [] t[1] = "pc"  -> Push(s, here)
               [] t[1] = "op"  -> Operate(s, t[2])
               [] t[1] = "ident" ->
                    IF addr[t[2]] = NotFound THEN Stop(s, "error")
                    ELSE Push(s, addr[t[2]])
      Run[i \in 0 .. Len(expr)] ==
        IF i = 0 THEN [nums |-> <<>>, status |-> "running"]
        ELSE Token(Run[i - 1], expr[i])
      end == Run[Len(expr)]
  IN [num    |-> IF end.status = "running" /\ expr # <<>> THEN end.nums[1] ELSE 0,
      status |-> end.status]

\* Mutant: a name without a label is 0 in the second pass, too.
UnknownIsZero(name) ==
  IF pass = 0 THEN 0
  ELSE LET node == Find(tree, curr_scope_node, name)
       IN IF node = NullPtr THEN 0 ELSE tree[node].table[name].addr

\* Identifiers are 0 in the first pass; in the second one only those found as
\* labels are known.
AddressOf(name) ==
  IF pass = 0 THEN 0
  ELSE LET node == Find(tree, curr_scope_node, name)
       IN IF node = NullPtr THEN NotFound ELSE tree[node].table[name].addr

Value(expr, here) ==
  Evaluate(expr, pass = 1, here, [name \in NamesIn(expr) |-> AddressOf(name)])

(***************************************************************************)
(* gen_8, gen_16, gen_32: bytes at the program counter, most significant   *)
(* first, after an "@" line if the program counter has been moved.  With   *)
(* -a each byte has a line, with -b two are a group and the line is the    *)
(* constant's.                                                             *)
(***************************************************************************)
Bytes(x, size) == [i \in 1 .. size |-> Bits(x, 8 * (size - i) + 7, 8 * (size - i))]

HasChanged(p) == p.prev # p.curr

DataLines(bytes) ==
  IF show_words /\ Len(bytes) > 1
  THEN <<HexLine([h \in 1 .. Len(bytes) \div 2 |->
                   TwoDigits(bytes[2 * h - 1]) \o TwoDigits(bytes[2 * h])])>>
  ELSE [i \in DOMAIN bytes |-> HexLine(<<TwoDigits(bytes[i])>>)]

\* Mutant: no "@" line.
GenWithoutAt(s, bytes) ==
  [pc  |-> [prev |-> s.pc.curr + Len(bytes), curr |-> s.pc.curr + Len(bytes)],
   out |-> IF pass = 0 THEN s.out ELSE s.out \o DataLines(bytes)]

Gen(s, bytes) ==
  [pc  |-> [prev |-> s.pc.curr + Len(bytes), curr |-> s.pc.curr + Len(bytes)],
   out |-> IF pass = 0 THEN s.out
           ELSE (IF HasChanged(s.pc) THEN Append(s.out, AtLine(HexDigits(s.pc.curr)))
                 ELSE s.out) \o DataLines(bytes)]

(***************************************************************************)
(* The lines.                                                              *)
(***************************************************************************)
Line == source[at]

OnLine(kind) ==
  /\ status = "running"
  /\ at \in DOMAIN source
  /\ Line.kind = kind

Input == <<file, show_words, source>>

Continue == at' = at + 1 /\ UNCHANGED <<Input, pass, status>>

Exit(how) ==
  /\ status' = how
  /\ UNCHANGED <<Input, pass, at, pc, tree, curr_scope_node,
                 scope_child_num_stack, out>>

TopOf(stack) == stack[Len(stack)]
Popped(stack) == SubSeq(stack, 1, Len(stack) - 1)

\* visitScopedLines up to its lines.
EnterScope ==
  /\ OnLine("{")
  /\ IF pass = 0
     THEN /\ tree' = MkScope(tree, curr_scope_node)
          /\ curr_scope_node' = Len(tree) + 1
          /\ UNCHANGED scope_child_num_stack
     ELSE /\ curr_scope_node' = tree[curr_scope_node].children
                                  [TopOf(scope_child_num_stack) + 1]
          /\ scope_child_num_stack' = Append(scope_child_num_stack, 0)
          /\ UNCHANGED tree
  /\ Continue
  /\ UNCHANGED <<pc, out>>

\* Mutant: the scope that is left is not counted.
SameChild(stack) == Popped(stack)

\* The scope that is left has been the one with the number below the top.
NextChild(stack) ==
  [Popped(stack) EXCEPT ![Len(stack) - 1] = @ + 1]

\* visitScopedLines after its lines.
LeaveScope ==
  /\ OnLine("}")
  /\ curr_scope_node' = tree[curr_scope_node].parent
  /\ scope_child_num_stack' = IF pass = 0 THEN scope_child_num_stack
                              ELSE NextChild(scope_child_num_stack)
  /\ Continue
  /\ UNCHANGED <<pc, tree, out>>

\* Mutant: no check.
NeverDuplicate == FALSE

DuplicateLabel ==
  LET node == FindInThisBlkLev(tree, curr_scope_node, Line.name)
  IN /\ pass = 0
     /\ node # NullPtr
     /\ tree[node].table[Line.name].found_as_label

VisitLabel ==
  /\ OnLine("label")
  /\ IF DuplicateLabel
     THEN Exit("error")
     ELSE /\ tree' = Bind(tree, curr_scope_node, Line.name, pc.curr)
          /\ Continue
          /\ UNCHANGED <<pc, curr_scope_node, scope_child_num_stack, out>>

Unscoped == UNCHANGED <<tree, curr_scope_node, scope_child_num_stack>>

\* The words of an instruction, one after the other.
GenWords(words) ==
  LET Run[i \in 0 .. Len(words)] ==
        IF i = 0 THEN [pc |-> pc, out |-> out]
        ELSE Gen(Run[i - 1], Bytes(words[i], 4))
  IN Run[Len(words)]

\* visitInstruction and visitPseudoInstruction.  The branch immediate is taken
\* before the word is generated.
VisitInstruction ==
  /\ OnLine("instr")
  /\ LET value == Value(Line.expr, pc.curr)
         end   == GenWords(Words([Line.text EXCEPT !.imm = value.num], pc.curr))
     IN IF Eek(Line.text) THEN Exit("error")
        ELSE IF LookupThrows(Line.text) THEN Exit("crashed")
        ELSE IF Failed(value) THEN Exit(value.status)
        ELSE /\ pc' = end.pc
             /\ out' = end.out
             /\ Continue
             /\ Unscoped

\* visitDotOrgDirective, visitDotSpaceDirective: only curr changes.
MovePc(start) ==
  LET value == Value(Line.expr, pc.curr)
  IN IF Failed(value) THEN Exit(value.status)
     ELSE /\ pc' = [pc EXCEPT !.curr = start + value.num]
          /\ Continue
          /\ Unscoped
          /\ UNCHANGED out

VisitDotOrg == OnLine(".org") /\ MovePc(0)

VisitDotSpace == OnLine(".space") /\ MovePc(pc.curr)

\* Each constant is evaluated after the bytes of the one before it have been
\* generated.
GenConstants(exprs, size) ==
  LET Constant(s, expr) ==
        LET value == Value(expr, s.pc.curr)
            gen   == Gen(s, Bytes(value.num, size))
        IN IF s.status # "running" THEN s
           ELSE IF Failed(value) THEN [s EXCEPT !.status = value.status]
           ELSE [pc |-> gen.pc, out |-> gen.out, status |-> "running"]
      Run[i \in 0 .. Len(exprs)] ==
        IF i = 0 THEN [pc |-> pc, out |-> out, status |-> "running"]
        ELSE Constant(Run[i - 1], exprs[i])
  IN Run[Len(exprs)]

\* visitDotDbDirective, ...Db16..., ...Db8...
VisitDotDb ==
  /\ OnLine(".db")
  /\ LET end == GenConstants(Line.exprs, Line.size)
     IN /\ pc' = end.pc
        /\ out' = end.out
        /\ Unscoped
        /\ IF Failed(end)
           THEN status' = end.status /\ UNCHANGED <<Input, pass, at>>
           ELSE Continue

(***************************************************************************)
(* run(): two passes.                                                      *)
(***************************************************************************)
FirstPc == [prev |-> 0, curr |-> 0]

\* Mutant: the second pass goes on where the first one ended.
KeptPc == pc

StartOfPass == FirstPc

\* Assembler::Assembler: program() parses the whole file before any visitor runs.
Parse ==
  /\ status = "parsing"
  /\ source' = Parsed(file)
  /\ status' = IF SyntaxError(source') THEN "error" ELSE "running"
  /\ UNCHANGED <<file, show_words, pass, at, pc, tree, curr_scope_node,
                 scope_child_num_stack, out>>

AStart(input) ==
  /\ file = input
  /\ show_words \in BOOLEAN
  /\ source = <<>>
  /\ pass = 0 /\ at = 1
  /\ pc = FirstPc
  /\ tree = EmptyTable
  /\ curr_scope_node = Global
  /\ scope_child_num_stack = <<0>>
  /\ out = <<>>
  /\ status = "parsing"

AInit == \E input \in Sources : AStart(input)

\* The program is run once more, with the same option.
Restart(input) ==
  /\ file' = input
  /\ source' = <<>>
  /\ pass' = 0 /\ at' = 1
  /\ pc' = FirstPc
  /\ tree' = EmptyTable
  /\ curr_scope_node' = Global
  /\ scope_child_num_stack' = <<0>>
  /\ out' = <<>>
  /\ status' = "parsing"
  /\ UNCHANGED show_words

EndOfPass ==
  /\ status = "running"
  /\ at = Len(source) + 1
  /\ IF pass = 0
     THEN /\ pass' = 1 /\ at' = 1
          /\ pc' = StartOfPass
          /\ curr_scope_node' = Global
          /\ UNCHANGED status
     ELSE /\ status' = "done"
          /\ UNCHANGED <<pass, at, pc, curr_scope_node>>
  /\ UNCHANGED <<Input, tree, scope_child_num_stack, out>>

ANext == Parse \/ EnterScope \/ LeaveScope \/ VisitLabel \/ VisitInstruction
           \/ VisitDotOrg \/ VisitDotSpace \/ VisitDotDb \/ EndOfPass

ASpec == AInit /\ [][ANext]_avars
==============================================================================
