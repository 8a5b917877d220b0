----------------------------- MODULE DexInstructions -----------------------------
(* One operator per opcode of ExecuteInlineInvokedMethod                         *)
(* (src/apk_dex_bridge.cpp): the state after it, or the state stopped at the      *)
(* first check that fails.  RunExecutionProbe repeats most of these bodies.      *)
(*                                                                               *)
(* An instruction is [op, a, b, c, lit, name, cut]: three registers, a literal   *)
(* or branch distance, and the field, type, string or method it names.           *)
EXTENDS DexValues

--------------------------------------------------------------------------------
(* Moves, constants and conversions.                                            *)

Move(m, i) ==
  Registers(m, {i.a, i.b}, Advance(SetReg(m, i.a, m.regs[i.b])))

Const4(m, i) == Registers(m, {i.a}, Advance(SetReg(m, i.a, Num(i.lit))))

Const16(m, i) == Whole(m, i, Registers(m, {i.a}, Advance(SetReg(m, i.a, Num(i.lit)))))

ConstWide16(m, i) ==
  Whole(m, i, Registers(m, Wide(i.a),
    Advance(SetPair(m, i.a, Num(LowHalf(i.lit)), Num(HighHalf(i.lit))))))

LongToInt(m, i) ==
  Registers(m, {i.a} \cup Wide(i.b),
    Ints(m, Wide(i.b), Advance(SetReg(m, i.a, Num(Wrap(Pair(m, i.b)))))))

(* The high half is always 0, whatever the sign of the int.                     *)
IntToLong(m, i) ==
  Registers(m, Wide(i.a) \cup {i.b},
    Ints(m, {i.b}, Advance(SetPair(m, i.a, m.regs[i.b], Num(0)))))

ConstString(m, i) ==
  Whole(m, i, Registers(m, {i.a},
    Need(i.name # "no_such_string", m, "string_resolution_failed",
      Advance(SetReg(Materialize(m, "String"), i.a, Fresh(m, "String"))))))

--------------------------------------------------------------------------------
(* Types and arrays.                                                            *)

(* check-cast and instance-of take an Object for anything: the register and the  *)
(* object then become what was asked for.                                       *)
Narrow(m, r, class) ==
  [m EXCEPT !.regs[r].class = class, !.heap[m.regs[r].id].class = class]

CheckCast(m, i) ==
  LET current == m.regs[i.a].class IN
  Whole(m, i, Registers(m, {i.a}, Holds(m, i.a, Type(m, i, Known(m, i.a,
    Need(current \in {i.name, "Object"} \/ i.name = "Object", m, "type_mismatch",
      Advance(IF current = "Object" /\ i.name # "Object"
                THEN Narrow(m, i.a, i.name) ELSE m)))))))

InstanceOf(m, i) ==
  LET current == m.regs[i.b].class
      narrows == current = "Object" /\ i.name # "Object"
      is      == narrows \/ current = i.name \/ i.name = "Object" IN
  Whole(m, i, Registers(m, {i.a, i.b}, Holds(m, i.b, Type(m, i, Known(m, i.b,
    Advance(SetReg(IF narrows THEN Narrow(m, i.b, i.name) ELSE m, i.a,
                   Num(IF is THEN 1 ELSE 0))))))))

ArrayLength(m, i) ==
  LET length == m.heap[m.regs[i.b].id].length IN
  Registers(m, {i.a, i.b}, Holds(m, i.b, Known(m, i.b,
    Need(length >= 0, m, "length_unknown", Advance(SetReg(m, i.a, Num(length)))))))

NewInstance(m, i) ==
  Whole(m, i, Registers(m, {i.a}, Type(m, i,
    Advance(SetReg(Materialize(m, i.name), i.a, Fresh(m, i.name))))))

NewArray(m, i) ==
  Whole(m, i, Registers(m, {i.a, i.b}, Ints(m, {i.b}, Type(m, i,
    Advance(SetReg(MaterializeWith(m, i.name, m.regs[i.b].n), i.a,
                   Fresh(m, i.name)))))))

(* aget-object invents the length of an array that has none, and an element that *)
(* is missing.                                                                   *)
ElementAt(m, id, index) ==
  IF index \in DOMAIN m.heap[id].elements THEN m.heap[id].elements[index]
  ELSE Fresh(m, ElementType(m.heap[id].class))
WithElementAt(m, id, index) ==
  IF index \in DOMAIN m.heap[id].elements THEN m
  ELSE SetElement(Materialize(m, ElementType(m.heap[id].class)), id, index,
                  ElementAt(m, id, index))

AgetObject(m, i) ==
  LET id     == m.regs[i.b].id
      index  == m.regs[i.c].n
      length == m.heap[id].length
      sized  == IF length < 0 THEN SetLength(m, id, Wrap(index + 1)) ELSE m IN
  Whole(m, i, Registers(m, {i.a, i.b, i.c}, Holds(m, i.b, Ints(m, {i.c}, Known(m, i.b,
    Need(IsReferenceType(ElementType(m.heap[id].class)), m, "not_reference_array",
    Need(index >= 0 /\ index < sized.heap[id].length, m, "index_out_of_bounds",
    Need(IsObject(ElementAt(sized, id, index)), m, "loaded_value_invalid",
      Advance(SetReg(WithElementAt(sized, id, index), i.a,
                     ElementAt(sized, id, index)))))))))))

--------------------------------------------------------------------------------
(* Arithmetic.                                                                  *)

IntOperation(m, dest, left, right, n) ==
  Registers(m, {dest, left, right},
    Ints(m, {left, right}, Advance(SetReg(m, dest, Num(Wrap(n))))))

AddInt(m, i) ==
  Whole(m, i, IntOperation(m, i.a, i.b, i.c, m.regs[i.b].n + m.regs[i.c].n))
SubInt(m, i) ==
  Whole(m, i, IntOperation(m, i.a, i.b, i.c, m.regs[i.b].n - m.regs[i.c].n))
RsubIntLit16(m, i) ==
  Whole(m, i, IntOperation(m, i.a, i.b, i.b, i.lit - m.regs[i.b].n))
AddOrSubInt2Addr(m, i) ==
  IntOperation(m, i.a, i.a, i.b,
    IF i.op = "add-int/2addr" THEN m.regs[i.a].n + m.regs[i.b].n
                              ELSE m.regs[i.a].n - m.regs[i.b].n)

LongOperands(m, dest, left, right, after) ==
  Registers(m, dest \cup Wide(left) \cup Wide(right),
    Ints(m, Wide(left) \cup Wide(right), after))
SetLong(m, r, n) == Advance(SetPair(m, r, Num(LowHalf(n)), Num(HighHalf(n))))

CmpLong(m, i) ==
  LET left == Pair(m, i.b)   right == Pair(m, i.c) IN
  Whole(m, i, LongOperands(m, {i.a}, i.b, i.c,
    Advance(SetReg(m, i.a,
      Num(IF left < right THEN -1 ELSE IF left > right THEN 1 ELSE 0)))))

SubLong(m, i) ==
  Whole(m, i, LongOperands(m, Wide(i.a), i.b, i.c,
    SetLong(m, i.a, WrapLong(Pair(m, i.b) - Pair(m, i.c)))))

AddOrSubLong2Addr(m, i) ==
  LongOperands(m, Wide(i.a), i.a, i.b,
    SetLong(m, i.a, WrapLong(IF i.op = "add-long/2addr"
                               THEN Pair(m, i.a) + Pair(m, i.b)
                               ELSE Pair(m, i.a) - Pair(m, i.b))))

(* The two bitwise operations store the low half before they read the high ones. *)
Bits(i, n, k) == IF i.op = "or-long" THEN BitOr(n, k) ELSE BitAnd(n, k)
HalfByHalf(m, i, left, right) ==
  LET low == SetReg(m, i.a, Num(Bits(i, m.regs[left].n, m.regs[right].n))) IN
  Advance(SetReg(low, i.a + 1,
                 Num(Bits(i, low.regs[left + 1].n, low.regs[right + 1].n))))

OrLong(m, i) ==
  Whole(m, i, LongOperands(m, Wide(i.a), i.b, i.c, HalfByHalf(m, i, i.b, i.c)))
AndLong2Addr(m, i) ==
  LongOperands(m, Wide(i.a), i.a, i.b, HalfByHalf(m, i, i.a, i.b))

--------------------------------------------------------------------------------
(* Branches.  A target must be an instruction of the method.                    *)

Branch(m, distance, size) ==
  Need(m.pc + distance \in 0 .. size - 1, m, "branch_out_of_range",
    Goto(m, m.pc + distance))
\* Mutant: a branch that is not taken does not move on.
BranchOrStay(condition, m, i, size) == IF condition THEN Branch(m, i.lit, size) ELSE m
BranchIf(condition, m, i, size) ==
  IF condition THEN Branch(m, i.lit, size) ELSE Advance(m)

GotoOffset(m, i, size) == Branch(m, i.lit, size)

(* The payload holds targets for 0, 1, ...; any other value falls through, also  *)
(* when that leaves the method.                                                 *)
PackedSwitch(m, i, size) ==
  Registers(m, {i.a}, Ints(m, {i.a}, Whole(m, i,
    Need(i.name # "no_payload", m, "payload_invalid",
      BranchIf(m.regs[i.a].n \in 0 .. i.c - 1, m, i, size)))))

IfEqz(m, i, size) ==
  LET v == m.regs[i.a] IN
  Whole(m, i, Registers(m, {i.a},
    BranchIf(v.kind = "unknown" \/ (IsInt(v) /\ v.n = 0), m, i, size)))
IfNez(m, i, size) ==
  LET v == m.regs[i.a] IN
  Whole(m, i, Registers(m, {i.a},
    BranchIf(IsObject(v) \/ (IsInt(v) /\ v.n # 0), m, i, size)))
IfLtz(m, i, size) ==
  Whole(m, i, Registers(m, {i.a},
    BranchIf(IsInt(m.regs[i.a]) /\ m.regs[i.a].n < 0, m, i, size)))
IfGtz(m, i, size) ==
  Whole(m, i, Registers(m, {i.a},
    BranchIf(IsInt(m.regs[i.a]) /\ m.regs[i.a].n > 0, m, i, size)))

Compared(m, i, condition, size) ==
  Whole(m, i, Registers(m, {i.a, i.b}, Ints(m, {i.a, i.b},
    BranchIf(condition, m, i, size))))
IfLt(m, i, size) == Compared(m, i, m.regs[i.a].n < m.regs[i.b].n, size)
IfGe(m, i, size) == Compared(m, i, m.regs[i.a].n >= m.regs[i.b].n, size)
IfGt(m, i, size) == Compared(m, i, m.regs[i.a].n > m.regs[i.b].n, size)

(* if-ne compares two ints, or two references by their ids.                     *)
IfNe(m, i, size) ==
  LET left == m.regs[i.a]   right == m.regs[i.b] IN
  Whole(m, i, Registers(m, {i.a, i.b},
    Need(left.kind = right.kind /\ left.kind # "unknown", m, "source_invalid",
      BranchIf(IF IsInt(left) THEN left.n # right.n ELSE left.id # right.id,
               m, i, size))))

--------------------------------------------------------------------------------
(* Static fields, one table per method execution.                               *)

StaticValue(m, field) ==
  IF field \in DOMAIN m.statics THEN m.statics[field]
  ELSE IF IsReferenceType(FieldTypes[field]) THEN Fresh(m, FieldTypes[field])
  ELSE Num(0)
WithStatic(m, field) ==
  IF field \in DOMAIN m.statics THEN m
  ELSE LET put == [m EXCEPT !.statics = Put(@, field, StaticValue(m, field))] IN
       IF IsReferenceType(FieldTypes[field]) THEN Materialize(put, FieldTypes[field])
       ELSE put

Sget(m, i) ==
  Whole(m, i, Registers(m, {i.a}, Field(m, i,
    Advance(SetReg(WithStatic(m, i.name), i.a, StaticValue(m, i.name))))))

StaticStored(field, value) == IF FieldTypes[field] = "bool" THEN Truth(value) ELSE value
Sput(m, i) ==
  Whole(m, i, Registers(m, {i.a}, Field(m, i,
    Advance([m EXCEPT !.statics =
               Put(@, i.name, StaticStored(i.name, m.regs[i.a]))]))))

--------------------------------------------------------------------------------
(* Instance fields.  Reading a reference field that was never written invents    *)
(* an object for it; a missing number reads as 0.                               *)

FieldValue(m, id, field) ==
  IF field \in DOMAIN m.heap[id].fields THEN m.heap[id].fields[field]
  ELSE IF IsReferenceType(FieldTypes[field]) THEN Fresh(m, FieldTypes[field])
  ELSE Num(0)
WithField(m, id, field) ==
  IF field \in DOMAIN m.heap[id].fields \/ ~IsReferenceType(FieldTypes[field]) THEN m
  ELSE SetField(Materialize(m, FieldTypes[field]), id, field, FieldValue(m, id, field))

Receiver(m, i, after) ==
  Need(IsObject(m.regs[i.b]), m, "receiver_missing", after)
Loading(m, i, rs, after) ==
  Whole(m, i, Registers(m, rs \cup {i.b}, Receiver(m, i, Field(m, i,
    Known(m, i.b, after)))))

Iget(m, i) ==
  LET id == m.regs[i.b].id IN
  Loading(m, i, {i.a},
    Advance(SetReg(WithField(m, id, i.name), i.a, FieldValue(m, id, i.name))))
IgetObject(m, i) == Iget(m, i)
IgetBoolean(m, i) ==
  LET id == m.regs[i.b].id IN
  Loading(m, i, {i.a},
    Advance(SetReg(WithField(m, id, i.name), i.a, Truth(FieldValue(m, id, i.name)))))

HighOf(field) == field \o "#high"
StoredInt(fields, key) ==
  IF key \in DOMAIN fields /\ IsInt(fields[key]) THEN fields[key] ELSE Num(0)
IgetWide(m, i) ==
  LET id == m.regs[i.b].id
      after == WithField(m, id, i.name) IN
  Loading(m, i, Wide(i.a),
    Advance(SetPair(after, i.a, StoredInt(after.heap[id].fields, i.name),
                    StoredInt(after.heap[id].fields, HighOf(i.name)))))

IputWide(m, i) ==
  LET id == m.regs[i.b].id IN
  Whole(m, i, Registers(m, Wide(i.a) \cup {i.b}, Receiver(m, i,
    Ints(m, Wide(i.a), Field(m, i, Known(m, i.b,
      Advance(SetField(SetField(m, id, i.name, m.regs[i.a]), id, HighOf(i.name),
                       m.regs[i.a + 1]))))))))
Iput(m, i) ==
  Loading(m, i, {i.a}, Advance(SetField(m, m.regs[i.b].id, i.name, m.regs[i.a])))

--------------------------------------------------------------------------------
(* The result of the last call.                                                 *)

MoveResult(m, i) ==
  LET wide == i.op = "move-result-wide" IN
  Registers(m, IF wide THEN Wide(i.a) ELSE {i.a},
    Need(m.pending.valid /\ (wide => m.pending.wide), m, "without_pending_value",
      Advance([(IF wide THEN SetPair(m, i.a, m.pending.low, m.pending.high)
                ELSE SetReg(m, i.a, m.pending.low))
                 EXCEPT !.pending.valid = FALSE, !.pending.wide = FALSE])))
================================================================================
