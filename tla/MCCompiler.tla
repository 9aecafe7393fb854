------------------------------ MODULE MCCompiler ------------------------------
(***************************************************************************)
(* Compiler on small projects: a module p and a module q that it may       *)
(* import, whose files are taken from a list; and p under a second path,   *)
(* as "./p.aosl" is next to the absolute path of an input.                 *)
(***************************************************************************)
EXTENDS Compiler

CONSTANTS P, P2, Q

I(n, name, type)     == AstField(n, name, type, <<>>)
D(n, name, type, ds) == AstField(n, name, type, ds)
M(id, name, block)   == AstMessage({id}, name, block, <<>>)
int   == Plain("INT")
bits(n) == IntProperty("bits", n)
encoding(s) == StringProperty("encoding", s)
cpp(value) == Directive("cpp", <<<<"storage", value>>>>)
own(value) == Directive("owner", <<<<"storage", value>>, <<"alias", value>>>>)

E == AstEnum("E", <<AstEnumValue(2, "y"), AstReserved(<<3>>), AstEnumValue(1, "x")>>, <<cpp("u8")>>)

(* What a message of p may look like inside: in order, ... *)
GoodTypes ==
  { int, Plain("BOOL"), Plain("F32"), Plain("F64"), Plain("STRING"), Plain("BYTES"),
    With("UINT", <<bits(8)>>), With("INT", <<encoding("zigzag")>>),
    With("UINT", <<encoding("fixed"), bits(70)>>),
    Of("ARRAY", <<Of("OPTIONAL", <<Of("ARRAY", <<int>>)>>)>>),
    OneOfBlock(<<I(2, "b", Plain("STRING")), AstReserved(<<5>>), I(1, "a", Of("OPTIONAL", <<int>>))>>) }

(* ... and out of order, in one way each.                                  *)
BadTypes ==
  { User("", "Nowhere"), Of("ARRAY", <<>>), AstType("INT", NoName, <<int>>, <<>>, <<>>),
    With("BOOL", <<bits(8)>>), With("INT", <<IntProperty("width", 8)>>),
    With("INT", <<encoding("fixed")>>), With("INT", <<encoding("zigzag"), bits(8)>>),
    With("INT", <<encoding("delta")>>), With("INT", <<StringProperty("bits", "8")>>),
    With("INT", <<bits(IntMax + 1)>>), With("INT", <<IntProperty("encoding", 1), bits(8)>>),
    Of("OPTIONAL", <<With("INT", <<encoding("fixed")>>)>>),
    OneOfBlock(<<I(1, "a", int), I(2, "a", int)>>),
    OneOfBlock(<<I(1, "a", int), I(1, "b", int)>>),
    Of("OPTIONAL", <<OneOfBlock(<<I(1, "a", int), I(2, "a", int)>>)>>),
    Of("ARRAY", <<OneOfBlock(<<AstReserved(<<1>>), I(1, "b", int)>>)>>) }

BadBlocks ==
  { <<I(1, "a", int), I(2, "a", int)>>, <<I(1, "a", int), I(1, "b", int)>>,
    <<AstReserved(<<1, 4>>), I(4, "a", int)>>, <<I(4, "a", int), AstReserved(<<1, 4>>)>> }

File(package, decls) == <<AstPackage(package)>> \o decls

AloneInP ==
  {File("p", <<M(1, "A", <<I(1, "f", t), I(2, "g", int)>>)>>) : t \in GoodTypes \cup BadTypes}
    \cup {File("p", <<M(1, "A", block)>>) : block \in BadBlocks}
    \cup { <<>>, <<M(1, "A", <<>>)>>, <<AstPackage("p"), AstPackage("q")>>,
           File("p", <<M(1, "A", <<>>), M(1, "B", <<>>)>>),
           File("p", <<AstMessage({}, "A", <<>>, <<>>), AstMessage({}, "A", <<>>, <<>>)>>),
           File("p", <<AstEnum("E", <<AstEnumValue(1, "x"), AstEnumValue(1, "y")>>, <<>>)>>),
           File("p", <<AstEnum("E", <<AstEnumValue(1, "x"), AstEnumValue(2, "x")>>, <<>>)>>) }

(* Messages that use each other, themselves and an enum. *)
Together ==
  { File("p", <<M(1, "A", <<I(1, "b", User("", "B")), I(2, "os", Of("ARRAY", <<User("p", "B")>>))>>),
                M(2, "B", <<I(1, "c", User("", "C")), I(2, "o", Of("OPTIONAL", <<int>>))>>),
                M(3, "C", <<I(1, "u", OneOfBlock(<<I(1, "n", int)>>))>>)>>),
    File("p", <<M(1, "A", <<I(1, "more", Of("ARRAY", <<User("", "A")>>))>>),
                AstMessage({}, "B", <<I(1, "e", User("", "E")), I(2, "a", User("", "A"))>>, <<>>), E>>) }

(* Directives, the later of two for a profile, and defaults around, in and *)
(* after the block.                                                        *)
Directed ==
  { File("p", <<M(9, "Before", <<I(1, "f", int)>>),
                AstDefault(<<cpp("x"), own("x")>>),
                AstMessage({1}, "A",
                  <<D(1, "f", int, <<cpp("u16")>>),
                    AstDefault(<<own("y"), cpp("y")>>),
                    D(2, "g", OneOfBlock(<<D(1, "h", int, <<cpp("u32"), cpp("x")>>),
                                           AstDefault(<<own("x")>>),
                                           D(2, "i", int, <<>>)>>), <<own("z")>>),
                    D(3, "k", Of("OPTIONAL", <<OneOfBlock(<<D(1, "h", int, <<own("x")>>)>>)>>), <<>>)>>,
                  <<cpp("u8")>>),
                AstDefault(<<cpp("z")>>), E>>) }

(* What p takes from q, and what q may be. *)
OverQ ==
  { File("p", <<M(1, "A", <<I(1, "m", User("", "M"))>>)>>),
    File("p", <<M(1, "A", <<I(1, "m", User("q", "M")), I(2, "e", User("", "E"))>>)>>),
    File("p", <<M(1, "A", <<I(1, "m", User("", "M"))>>), M(3, "M", <<>>)>>),
    File("r", <<M(1, "A", <<I(1, "m", Of("OPTIONAL", <<User("q", "M")>>))>>)>>) }
InQ ==
  { File("q", <<M(2, "M", <<I(1, "e", Of("OPTIONAL", <<User("q", "E")>>))>>), E>>),
    File("q", <<M(1, "M", <<>>)>>),
    File("p", <<M(2, "A", <<>>), E>>) }

-----------------------------------------------------------------------------
MCPackageOrder == <<"p", "q", "r">>

Resolve == [n \in Name |-> CASE n = "p" -> P [] n = "./p" -> P2 [] n = "q" -> Q [] OTHER -> NoPath]

Project(pFile, pImports, qFile, qImports, start, unopenable) ==
  [resolve |-> Resolve,
   ast     |-> (P :> pImports) @@ (P2 :> pImports) @@ (Q :> qImports),
   source  |-> (P :> pFile) @@ (P2 :> pFile) @@ (Q :> qFile),
   inputs  |-> start, unopenable |-> unopenable]

MCProjects ==
  {Project(f, <<>>, <<>>, NoAst, <<"p">>, {}) : f \in AloneInP \cup Together \cup Directed}
    \cup {Project(f, <<"q">>, g, <<>>, start, {}) :
            f \in OverQ, g \in InQ, start \in {<<"p">>, <<"q", "p">>, <<"p", "./p">>}}
    \cup {Project(f, imports, g, qImports, start, {}) :
            f \in OverQ, g \in InQ, imports \in {<<>>, <<"q">>, <<"q", "none">>, NoAst},
            qImports \in {NoAst, <<"p">>, <<>>}, start \in {<<"p", "q">>, <<"p", "none">>, <<>>}}
    \cup {Project(f, <<"q">>, g, <<>>, <<"p">>, {}) : f \in OverQ, g \in AloneInP \cup Together}
    \cup {Project(File("p", <<E>>), <<>>, <<>>, NoAst, <<"p">>, u) : u \in {{2}, {1, 4}}}
=============================================================================
