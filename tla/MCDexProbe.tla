------------------------------- MODULE MCDexProbe -------------------------------
(* APKs small enough for TLC: each one exercises a family of opcodes or calls.     *)
EXTENDS DexProbe

MCFieldTypes ==
  [count |-> "int", flag |-> "bool", total |-> "wide", link |-> "Node"]
MCClasses ==
  {"Object", "String", "Main", "Node", "Bundle", "List", "Iterator", "Refs", "Chars"}

--------------------------------------------------------------------------------
(* Instructions.                                                                *)

I(op, a, b, c, lit, name) ==
  [op |-> op, a |-> a, b |-> b, c |-> c, lit |-> lit, name |-> name, args |-> <<>>,
   cut |-> FALSE]
Cut(i)               == [i EXCEPT !.cut = TRUE]
Op(op, a, b, c)      == I(op, a, b, c, 0, "")
Const(a, lit)        == I("const/4", a, 0, 0, lit, "")
Long(a, lit)         == I("const-wide/16", a, 0, 0, lit, "")
Jump(op, a, b, lit)  == I(op, a, b, 2, lit, "")
On(op, a, b, name)   == I(op, a, b, 0, 0, name)
Call(op, name, args) == [I(op, 0, 0, 0, 0, name) EXCEPT !.args = args]
Static(name, args)   == Call("invoke-static", name, args)
Virtual(name, args)  == Call("invoke-virtual", name, args)
Take(a)              == Op("move-result-object", a, 0, 0)
Leave                == {Op("return-void", 0, 0, 0)}

Body_(returns, params, registers, ins, bytecode) ==
  [name |-> "onCreate", class |-> "Main", returns |-> returns, params |-> params,
   registers |-> registers, ins |-> ins, state |-> "code", code |-> bytecode]
Helper(returns, registers, ins, bytecode) ==
  [Body_(returns, <<>>, registers, ins, bytecode) EXCEPT !.name = "helper"]
Entry(registers, bytecode) == Body_("V", <<"Bundle">>, registers, 2, bytecode)

DexFile(name, access, damage, class, defines) ==
  [name |-> name, access |-> access, damage |-> damage, class |-> class,
   defines |-> defines]
Good(defines) == DexFile("classes.dex", "ok", {}, "present", defines)
Program(entry) == [files |-> <<Good(<<"onCreate">>)>>, methods |-> [onCreate |-> entry]]
Programs(entry, helper) ==
  [files |-> <<Good(<<"onCreate">>)>>, methods |-> [onCreate |-> entry, helper |-> helper]]

--------------------------------------------------------------------------------
(* Longs and ints of the entry point; the objects it is given are in 4 and 5.     *)

LongOps == {Op(op, a, 0, 2) : op \in {"sub-long", "or-long"}, a \in {0, 1}}
             \cup {Op(op, 0, 2, 0) : op \in {"add-long/2addr", "sub-long/2addr",
                                             "and-long/2addr"}}
             \cup {Op("cmp-long", 0, 0, 2)}
LongProgram == Program(Entry(6,
  <<{Long(0, n) : n \in {-100, -9, -1, 24}}, {Long(2, n) : n \in {-128, -1, 7, 120}},
    LongOps \cup {Op("sub-long", 0, 0, 4), Op("or-long", 5, 0, 2)},
    {Op("long-to-int", 0, 0, 0), Op("long-to-int", 0, 4, 0), Op("int-to-long", 0, 2, 0),
     Op("move-result-wide", 0, 0, 0)},
    {Op("return-wide", 0, 0, 0), Op("return-object", 0, 0, 0)}>>))

IntOps == {Op(op, 2, 0, 1) : op \in {"add-int", "sub-int"}}
            \cup {Op(op, 0, 1, 0) : op \in {"add-int/2addr", "sub-int/2addr", "move"}}
            \cup {I("rsub-int/lit16", 2, 0, 0, 1, ""), Op("add-int", 2, 0, 3),
                  Op("add-int", 9, 0, 1), Cut(Op("sub-int", 2, 0, 1))}
IntProgram == Program(Entry(6,
  <<{Const(0, n) : n \in {-8, 0, 7}},
    {I("const/16", 1, 0, 0, n, "") : n \in {-1, 7}} \cup {Cut(Const(1, 0))},
    IntOps,
    {Jump("if-nez", 2, 0, 2), Jump("if-ltz", 2, 0, 2), Jump("if-gtz", 2, 0, 2),
     Jump("if-lt", 0, 1, 2), Jump("if-ge", 0, 1, 2), Jump("if-gt", 0, 1, 2),
     Jump("if-ne", 0, 1, 2), Jump("if-ne", 4, 5, 2), Jump("if-ne", 0, 4, 2),
     Jump("packed-switch", 0, 0, 2), Jump("if-ltz", 0, 0, 9),
     I("packed-switch", 0, 0, 2, 2, "no_payload")},
    {Op("nop", 0, 0, 0), Jump("goto", 0, 0, -1), Jump("if-eqz", 0, 0, 1)},
    {Op("return", 0, 0, 0), Op("return", 9, 0, 0), Op("return-void", 0, 0, 0),
     Op("move", 0, 1, 0)}>>))

--------------------------------------------------------------------------------
(* Objects and fields, in the entry point and in a method it calls.              *)

Stores(r, v) ==
  {On("iput-object", v, r, "link"), On("iput", v, r, "count"), On("iput-wide", v, r, "total"),
   On("iput", v, r, "flag"), On("sput-object", r, 0, "link"), On("sput-boolean", r, 0, "flag"),
   On("sput", v, 0, "count"), On("iput", v, r, "no_such_field")}
Loads(r, v) ==
  {On("iget-object", v, r, "link"), On("iget", v, r, "count"), On("iget-wide", v, r, "total"),
   On("iget-boolean", v, r, "flag"), On("sget-object", v, 0, "link"),
   On("sget-boolean", v, 0, "flag"), On("sget", v, 0, "count"), Cut(On("sget", v, 0, "count"))}
Tests(r, v) ==
  {On("check-cast", r, 0, "Node"), On("check-cast", v, 0, "String"),
   On("instance-of", 3, r, "Node"), On("instance-of", 3, v, "Object"),
   On("check-cast", r, 0, "no_such_type"), Op("array-length", 3, r, 0)}
Makes(r) == {On("new-instance", r, 0, class) : class \in {"Object", "Node"}}
              \cup {On("const-string", r, 0, "text"), On("const-string", r, 0, "no_such_string")}

ObjectProgram == Program(Entry(6,
  <<Makes(0), {Const(1, 1), Op("move", 1, 4, 0)}, {Const(2, 2)}, Stores(0, 1), Loads(0, 1),
    Tests(0, 1), Leave>>))
InlineObjectProgram == Programs(
  Entry(6, <<Makes(0), {Const(1, 1)},
    {Call("invoke-direct", "helper", <<0, 1>>), Call("invoke-direct", "helper", <<1>>),
     Call("invoke-static/range", "helper", <<0, 1>>)}, Leave>>),
  Helper("V", 4, 2,
    <<Stores(2, 3), Loads(2, 3), Tests(2, 3), Leave \cup {Op("return-wide", 0, 0, 0)}>>))

(* An object made in a helper, one made by its caller afterwards.                 *)
MakerProgram == Programs(
  Entry(6, <<Makes(0), {Static("helper", <<0>>), Call("invoke-super", "helper", <<4>>)},
    {Take(1), Op("move-result", 1, 0, 0), Op("nop", 0, 0, 0)}, Makes(2), Tests(0, 1), Leave>>),
  Helper("Node", 2, 1,
    <<Makes(0), {On("sget-object", 1, 0, "link"), Op("move", 0, 1, 0)},
      {Op("return-object", 0, 0, 0), Op("return", 0, 0, 0), Op("return-object", 9, 0, 0)}>>))
Unset == Programs(
  Entry(6, <<{Static("helper", <<4>>)}, {Take(0), Take(9)},
    {Call("invoke-super", "helper", <<4>>), Call("invoke-virtual", "helper", <<4>>)},
    {Take(0)}, Leave>>),
  Helper("Node", 3, 1, <<{Op("return-object", 0, 0, 0)}>>))
Numbers == Programs(
  Entry(6, <<{Static("helper", <<4>>)}, {Op("move-result", 0, 0, 0)},
    {Jump("if-nez", 0, 0, 1)}, Leave>>),
  Helper("int", 3, 1, <<{Op("return", 0, 0, 0), Jump("if-eqz", 0, 0, 1)},
                        {Op("return", 0, 0, 0), Op("return", 2, 0, 0)}>>))

--------------------------------------------------------------------------------
(* The stubs an inline method calls.                                            *)

Inside(registers, bytecode) == Programs(
  Entry(6, <<{Static("helper", <<4, 5>>)}, Leave>>), Helper("V", registers, 2, bytecode))

(* The list is in 0, the iterator in 1; 2 and 3 hold the entry point's objects.    *)
ListMakes == {Static("Collections.singletonList", <<2>>),
              Static("Collections.singletonList", <<1>>),
              Virtual("Object.getClass", <<2>>)}
Elementwise == {Virtual("Iterator.next", <<1>>), Virtual("Iterator.hasNext", <<1>>),
                Virtual("List.size", <<0>>), Virtual("Iterator.next", <<0>>),
                Virtual("ArrayList.<init>(int)", <<0, 1>>)}
ListProgram == Inside(4,
  <<ListMakes, {Take(0)}, {Const(1, 2)},
    {Virtual("ArrayList.<init>(int)", <<0, 1>>), Virtual("List.size", <<0>>)},
    {Virtual("List.iterator", <<0>>), Virtual("Iterable.iterator", <<0>>)}, {Take(1)},
    Elementwise, Elementwise, Elementwise, Leave>>)

Copy(a, b, c, d, e) == Static("System.arraycopy", <<a, b, c, d, e>>)
ArrayMakes == {On("new-array", 0, 4, class) : class \in {"Refs", "Chars", "no_such_type"}}
ArrayProgram == Inside(7,
  <<{Const(4, n) : n \in {1, 2}}, {Const(1, n) : n \in {0, 1, 2, -1}},
    ArrayMakes \cup {Virtual("String.toCharArray", <<5>>)}, {Take(0), Op("move", 3, 0, 0)},
    {Op("aget-object", 3, 0, 1), On("new-array", 3, 4, "Refs"), Op("array-length", 3, 0, 0)},
    {Copy(0, 1, 0, 4, 4), Copy(0, 1, 3, 1, 4), Copy(3, 1, 0, 1, 4), Copy(0, 1, 0, 1, 1)},
    {Op("aget-object", 3, 0, 4)}, Leave>>)

(* The last index there is, in an array whose length nobody knows.                 *)
LastIndex == 2 ^ (WordBits - 1) - 1
LastElementProgram == Inside(5,
  <<{Const(1, -1)}, {On("new-array", 0, 1, "Refs")}, {Const(1, LastIndex),
    Const(1, LastIndex - 1)}, {Op("aget-object", 2, 0, 1)}, {Op("array-length", 2, 0, 0)},
    Leave>>)

OtherProgram == Inside(4,
  <<{Const(0, 1)},
    {Virtual(name, args) :
       name \in Stubbed \ {"System.arraycopy"},
       args \in {<<2>>, <<2, 3>>, <<2, 3, 2>>, <<2, 3, 0>>, <<0, 0>>}}
      \cup {Virtual("no_such_method", <<2>>), Virtual("Framework.call", <<2>>),
            Call("invoke-direct", "Object.<init>", <<2>>),
            Call("invoke-static/range", "Math.min", <<0, 0>>)},
    {Take(1), Op("move-result-wide", 0, 0, 0), Op("nop", 0, 0, 0)},
    {Virtual("AtomicReference.set", <<2, 3>>), Virtual("AtomicReference.getAndSet", <<2, 3>>)},
    {Virtual("AtomicReference.getAndSet", <<2, 2>>), Take(0),
     Virtual("Closeable.close", <<2>>)}, Leave>>)

--------------------------------------------------------------------------------
(* Frameworks, calls that cannot be made, and recursion.                          *)

SuperProgram == Programs(
  Entry(6, <<{Call("invoke-super", name, args) :
                name \in Frameworks \cup {"Framework.call", "helper", "no_such_method"},
                args \in {<<4, 5>>, <<4>>, <<0>>, <<9>>}}
              \cup {Static("Framework.call", <<>>), Static("helper", <<4>>),
                    Call("invoke-direct", "Framework.call", <<4>>),
                    Call("invoke-direct", "helper", <<0>>),
                    Call("invoke-static/range", "Framework.call", <<4>>),
                    Call("invoke-static/range", "helper", <<9>>),
                    Cut(Static("helper", <<>>))},
             {Take(0), Op("nop", 0, 0, 0)}, Leave>>),
  [Helper("V", 2, 1, <<Leave>>) EXCEPT !.state = "code_item_truncated"])
Recursion == Programs(
  Entry(6, <<{Static("helper", <<4>>)}, Leave>>),
  Helper("int", 2, 1, <<Makes(0), {Virtual("helper", <<0>>), Op("return", 1, 0, 0)}
                          \cup {Call(op, "helper", args) : args \in {<<1>>, <<9>>},
                                  op \in {"invoke-direct", "invoke-static/range"}},
                        {Op("move-result", 0, 0, 0)}, {Op("return", 0, 0, 0)}>>))
EntryShapes ==
  {Program(Body_("V", params, registers, ins, <<{Jump("if-nez", r, 0, 1)}, {Op("move", 0, r, 0)}>>)) :
     params \in {<<>>, <<"Bundle">>, <<"int">>}, registers \in {2, 7}, ins \in 0 .. 3, r \in {0, 5}}

--------------------------------------------------------------------------------
(* Two DEX files, of which the second defines the entry point.                    *)

Answers == [onCreate |-> Entry(6, <<Leave>>),
            other |-> [Entry(6, <<Leave>>) EXCEPT !.state = "code_item_missing"],
            helper |-> Helper("V", 1, 1, <<Leave>>)]
FilesOf(name) ==
  {DexFile(name, access, {}, "missing", <<>>) :
     access \in {"ok"} \cup AccessErrors \cup HeaderErrors}
    \cup {DexFile(name, "ok", damage, "present", <<"onCreate">>) :
            damage \in {{"class_data_truncated", "string_data_invalid"}, {"method_index_invalid"}}}
    \cup {DexFile(name, "ok", {}, class, defines) :
            class \in {"present"},
            defines \in {<<"helper">>, <<"other", "onCreate">>, <<"onCreate", "other">>}}
    \cup {DexFile(name, "ok", {}, "no_data", <<>>)}
MultiDex ==
  {[files |-> files, methods |-> Answers] :
     files \in {<<>>} \cup {<<a>> : a \in FilesOf("classes.dex")}
                 \cup {<<a, b>> : a \in FilesOf("classes.dex"), b \in FilesOf("classes2.dex")}}

MCApks ==
  {LongProgram, IntProgram, ObjectProgram, InlineObjectProgram, MakerProgram, Unset,
   Numbers, ListProgram, ArrayProgram, LastElementProgram, OtherProgram, SuperProgram, Recursion}
    \cup EntryShapes \cup MultiDex
MCMakers == {MakerProgram}
================================================================================
