----------------------------- MODULE MCAssembler -----------------------------
EXTENDS AssemblerProperties

A == <<Ident("a")>>

Bra  == Instr(Text("bra", "OneImm", 0, 0, 0, 0), A)
Jmpa == Instr(Text("jmpa", "OneImm", 0, 0, 0, 0), A)
Cpy  == Instr(Text("cpy", "TwoRegs", 1, 2, 0, 0), <<>>)

Nested(s) == /\ OpenAt(s, Len(s)) = 0
             /\ \A n \in DOMAIN s : OpenAt(s, n) >= 0

Sequences(alphabet, n) == {s \in [1 .. n -> alphabet] : Nested(s)}

\* A label of a name that an enclosing scope has above it.
Shadows(s) ==
  \E d \in DOMAIN s : s[d].kind = "label" /\
    \E e \in 1 .. d - 1 :
      /\ s[e].kind = "label" /\ s[e].name = s[d].name
      /\ OpenAt(s, d) > OpenAt(s, e)
      /\ \A n \in e .. d : OpenAt(s, n) >= OpenAt(s, e)

Clean(sources) == {s \in sources : ~Shadows(s)}

\* Names in nested and neighbouring scopes.
Scoping == Clean(UNION {Sequences({Open, Close, Label("a"), Db(4, <<A>>)}, n) :
                          n \in 1 .. 7})

\* Everything that moves the program counter or needs a value.
Moving ==
  Clean(UNION {Sequences(
    {Open, Close, Label("a"), Bra, Jmpa, Cpy,
     Org(<<Num(16)>>), Org(<<CurrPc, Num(4), Op("+")>>), Space(<<Num(3)>>),
     Db(1, <<<<Num(258)>>, <<CurrPc>>>>),
     Db(2, <<<<Num(100), Ident("a"), Op("/")>>>>)}, n) : n \in 1 .. 4})

\* What the grammar refuses, or does not notice: stray lines and braces, and the
\* instructions that cannot be written.
Nor  == Instr(Text("nor", "ThreeRegs", 1, 2, 3, 0), <<>>)
Sgtu == Instr(Text("sgtu", "ThreeRegs", 1, 2, 3, 0), <<>>)
Gltu == Instr(Text("gltu", "TwoRegs", 1, 2, 0, 0), <<>>)

Malformed ==
  UNION {[1 .. n -> {Open, Close, Label("a"), Stray, Cpy, Nor, Sgtu, Gltu}] :
           n \in 1 .. 4}

\* Every operator, on a number and the address of a label behind it.
Binaries == {"+", "-", "*", "/", "%", "&", "|", "^", "<<", ">>", ">>>",
             "==", "!=", "<", ">", "<=", ">=", "&&", "||"}
NegativeOperands == {<<Num(3), Op("neg")>>, <<Num(3), Op("~")>>}
Operands == {A, <<Num(3)>>, <<Num(0)>>, <<Num(3), Op("!")>>} \cup NegativeOperands

\* A shift by a negative amount means nothing in C++.
Defined(op, r) == op \in {"<<", ">>", ">>>"} => r \notin NegativeOperands

Values ==
  {<<Db(2, <<l \o orr[2] \o <<Op(orr[1])>> >>), Label("a")>> :
     l \in {<<Num(12)>>, <<CurrPc>>},
     orr \in {x \in Binaries \X Operands : Defined(x[1], x[2])}}
    \cup {<<Db(2, <<<<Num(4), Op("neg"), Num(62), Op(">>")>>>>)>>}

\* A constant that has a value where it is, and would have none at the beginning
\* of its line; a quotient by 0 that moves what follows, in the first pass only, to
\* where a remainder has none; an instruction that there is not.
Failing ==
  {<<Db(1, <<<<Num(1)>>, <<Num(1), CurrPc, Op("/")>>>>)>>,
   <<Org(<<Num(1), Num(5), Num(0), Op("/"), Op("+")>>),
     Db(1, <<<<Num(1), CurrPc, Num(1), Op("-"), Op("%")>>>>)>>,
   <<Instr(Text("add", "TwoRegsOneImm", 1, 2, 0, 0), <<Num(5)>>)>>}

MCSources == {<<>>} \cup Scoping \cup Moving \cup Clean(Malformed) \cup Values
               \cup Failing

ShadowSources == {s \in Sequences({Open, Close, Label("a"), Cpy}, 6) : Shadows(s)}

OrgSources ==
  {s \in Sequences({Label("a"), Label("b"), Cpy, Org(A),
                    Db(4, <<<<Ident("b")>>>>)}, 5) :
     /\ Cardinality({i \in 1 .. 5 : s[i].kind = "label"}) = 2
     /\ \A i \in 1 .. 5 :
          s[i].kind = ".org" => \E j \in 1 .. i - 1 : s[j] = Label("a")}
==============================================================================
