-------------------------------- MODULE DexValues --------------------------------
(* What the DEX interpreter of src/apk_dex_bridge.cpp computes with: registers,  *)
(* placeholder objects, instructions, and the state a method works on.           *)
(*                                                                               *)
(* An int is WordBits wide (32 in the code) and a long is two of them in         *)
(* neighbouring registers.  The program counter counts instructions, not code    *)
(* units; an instruction that runs over the end of its method is marked `cut`.   *)
EXTENDS Integers, FiniteSets, Sequences

CONSTANTS
  WordBits,     \* bits of an int register
  FieldTypes,   \* the DEX's field table: field -> "int", "bool", "wide" or a class
  Classes       \* the DEX's type table

ASSUME DexValuesAssumption ==
  /\ WordBits \in Nat /\ WordBits > 1
  /\ {"Object", "String"} \subseteq Classes

--------------------------------------------------------------------------------
(* Ints and longs.                                                              *)

Modulus     == 2 ^ WordBits
Unsigned(n) == n % Modulus
Wrap(n)     == ((n + Modulus \div 2) % Modulus) - Modulus \div 2
LongModulus == Modulus * Modulus
WrapLong(n) == ((n + LongModulus \div 2) % LongModulus) - LongModulus \div 2

\* Mutant: the low half is added with its sign.
LongOfSigned(low, high) == WrapLong(Unsigned(high) * Modulus + low)
LongOf(low, high) == WrapLong(Unsigned(high) * Modulus + Unsigned(low))
LowHalf(n)        == Wrap(n)
HighHalf(n)       == Wrap((n % LongModulus) \div Modulus)

BitsOf(n)    == {b \in 0 .. WordBits - 1 : (Unsigned(n) \div 2 ^ b) % 2 = 1}
\* Read from the highest bit down.
OfBits(bits) ==
  LET read[k \in Nat] ==
        IF k = 0 THEN 0
        ELSE 2 * read[k - 1] + (IF WordBits - k \in bits THEN 1 ELSE 0) IN
  Wrap(read[WordBits])
BitOr(n, k)  == OfBits(BitsOf(n) \cup BitsOf(k))
BitAnd(n, k) == OfBits(BitsOf(n) \cap BitsOf(k))

--------------------------------------------------------------------------------
(* Values.  `born` is history: which materialisation a reference stands for.    *)

Value(kind, n, id, class, born) ==
  [kind |-> kind, n |-> n, id |-> id, class |-> class, born |-> born]
Unknown              == Value("unknown", 0, 0, "", 0)
Num(n)               == Value("int", n, 0, "", 0)
Ref(id, class, born) == Value("object", 0, id, class, born)

IsInt(v)    == v.kind = "int"
IsObject(v) == v.kind = "object"
Truth(v)    == Num(IF IsObject(v) \/ (IsInt(v) /\ v.n # 0) THEN 1 ELSE 0)

(* "Refs" stands for Object[], "Chars" for a char[] or byte[].                  *)
ElementType(class) ==
  IF class = "Refs" THEN "Object" ELSE IF class = "Chars" THEN "char" ELSE "none"
IsReferenceType(type) == type \in Classes

(* A placeholder object.  A length of -1 is a length nobody has asked for yet.  *)
Object(class, length, born) ==
  [class |-> class, length |-> length, fields |-> <<>>, elements |-> <<>>,
   born |-> born]
Put(f, key, value) ==
  [k \in DOMAIN f \cup {key} |-> IF k = key THEN value ELSE f[k]]

--------------------------------------------------------------------------------
(* The state an instruction works on: the registers, the statics and the id      *)
(* counter of its frame, and the objects every frame shares.  `stop` is the       *)
(* blocker, `result` what a call gives back, `lost` history: ids under which an   *)
(* object was put although another one had that id.                              *)

NoResult == [value |-> Unknown, high |-> Unknown, wide |-> FALSE]
NoPending == [valid |-> FALSE, wide |-> FALSE, low |-> Unknown, high |-> Unknown,
              by |-> 0]

Stop(m, reason) == [m EXCEPT !.stop = reason]
Need(condition, m, reason, after) == IF condition THEN after ELSE Stop(m, reason)

Goto(m, pc)         == [m EXCEPT !.pc = pc]
Advance(m)          == Goto(m, m.pc + 1)
SetReg(m, r, value) == [m EXCEPT !.regs[r] = value]
SetPair(m, r, low, high) == SetReg(SetReg(m, r, low), r + 1, high)
SetField(m, id, field, value) ==
  [m EXCEPT !.heap[id].fields = Put(@, field, value)]
SetElement(m, id, index, value) ==
  [m EXCEPT !.heap[id].elements = Put(@, index, value)]
SetLength(m, id, length) == [m EXCEPT !.heap[id].length = length]
Returning(m, value) == [m EXCEPT !.result = [NoResult EXCEPT !.value = value]]

(* The next id is the frame's own: it may be an id another frame has given away. *)
Fresh(m, class) == Ref(m.next, class, m.born + 1)
MaterializeWith(m, class, length) ==
  [m EXCEPT !.heap = Put(@, m.next, Object(class, length, m.born + 1)),
            !.next = @ + 1,
            !.born = @ + 1,
            !.lost = IF m.next \in DOMAIN m.heap THEN @ \cup {m.next} ELSE @]
Materialize(m, class) == MaterializeWith(m, class, -1)

(* Checks that many opcodes begin with.                                         *)
Whole(m, i, after) == Need(~i.cut, m, "truncated", after)
Registers(m, rs, after) ==
  Need(rs \subseteq DOMAIN m.regs, m, "register_out_of_range", after)
Ints(m, rs, after) == Need(\A r \in rs : IsInt(m.regs[r]), m, "source_invalid", after)
Holds(m, r, after) == Need(IsObject(m.regs[r]), m, "operand_invalid", after)
Known(m, r, after) == Need(m.regs[r].id \in DOMAIN m.heap, m, "object_missing", after)
Field(m, i, after) ==
  Need(i.name \in DOMAIN FieldTypes, m, "field_resolution_failed", after)
Type(m, i, after) == Need(i.name \in Classes, m, "type_invalid", after)

Wide(r) == {r, r + 1}
Pair(m, r) == LongOf(m.regs[r].n, m.regs[r + 1].n)
================================================================================
