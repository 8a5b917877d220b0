------------------------------ MODULE DexProbeProofs ------------------------------
(* What the DEX proof of a launch guarantees for any APK and any depth of calls     *)
(* (DexProbe).                                                                    *)
EXTENDS DexProbe, WellFoundedInduction, TLAPS
LOCAL INSTANCE FiniteSetsExt
FS == INSTANCE FiniteSetTheorems

(* A frame, or the state of one, whose pending result is the one of its last call.   *)
HoldsLatest(f) ==
  /\ {"pc", "regs", "next", "statics", "pending", "invoked"} \subseteq DOMAIN f
  /\ f.next \in Nat
  /\ DOMAIN f.pending = {"valid", "wide", "low", "high", "by"}
  /\ f.pending.valid \in BOOLEAN
  /\ f.pending.valid => f.pending.by = f.invoked

(* Ids are numbers, finitely many of them in use; a method's own ids are its own as   *)
(* long as its next one is above all of them.                                      *)
BoundedIds(ids) == ids \in SUBSET Nat /\ \E n \in Nat : \A id \in ids : id < n
OwnsIds(m)   == \A id \in DOMAIN m.heap : id < m.next

(* What the instructions of a method make of its state `b`: no instruction says that  *)
(* a class is missing, and none writes over an object if the method owns its ids.    *)
Sound(m, b) ==
  /\ HoldsLatest(m)
  /\ {"heap", "born", "lost", "stop", "result"} \subseteq DOMAIN m
  /\ m.stop # "class_missing"
  /\ BoundedIds(DOMAIN m.heap)
  /\ OwnsIds(b) => OwnsIds(m) /\ m.lost = b.lost

--------------------------------------------------------------------------------
(* Numbers.                                                                       *)

LEMMA MinIsLeast ==
  ASSUME NEW S \in SUBSET Nat, S # {}
  PROVE  Min(S) \in S /\ \A k \in S : Min(S) <= k
<1>1. PICK R : R = OpToRel(<, Nat)
  OBVIOUS
<1>2. IsWellFoundedOn(R, Nat)
  BY <1>1, NatLessThanWellFounded
<1>3. PICK least \in S : \A k \in S : <<k, least>> \notin R
  BY <1>2, WFMin
<1>4. \A n, k \in Nat : k < n => <<k, n>> \in R
  BY <1>1 DEF OpToRel
<1>5. least \in Nat /\ \A k \in S : k \in Nat /\ ~(k < least)
  BY <1>3, <1>4
<1>6. \A k \in S : least <= k
  BY <1>5
<1>7. QED
  BY <1>6 DEF Min

LEMMA MaxIsGreatest ==
  ASSUME NEW S \in SUBSET Nat, S # {}, NEW n \in Nat, \A k \in S : k < n
  PROVE  Max(S) \in S /\ \A k \in S : k <= Max(S)
<1>1. PICK T : T = {n - k : k \in S}
  OBVIOUS
<1>2. T \in SUBSET Nat /\ T # {}
  <2>1. \A k \in S : n - k \in Nat
    OBVIOUS
  <2>2. QED
    BY <1>1, <2>1
<1>3. PICK least \in T : \A j \in T : least <= j
  BY <1>2, MinIsLeast
<1>4. PICK greatest \in S : least = n - greatest
  BY <1>1, <1>3
<1>5. ASSUME NEW k \in S PROVE greatest >= k
  <2>1. n - k \in T /\ k \in Nat /\ greatest \in Nat
    BY <1>1
  <2>2. n - greatest <= n - k
    BY <1>3, <1>4, <2>1
  <2>3. QED
    BY <2>1, <2>2
<1>6. Max(S) \in S /\ \A k \in S : Max(S) >= k
  BY <1>5 DEF Max
<1>7. QED
  BY <1>6

LEMMA OneByOne ==
  ASSUME NEW T \in SUBSET Nat, 0 \in T, \A n \in T : n + 1 \in T PROVE T = Nat
<1>1. SUFFICES ASSUME Nat \ T # {} PROVE FALSE
  OBVIOUS
<1>2. PICK n \in Nat \ T : \A k \in Nat \ T : n <= k
  BY <1>1, MinIsLeast
<1>3. n # 0 /\ n - 1 \in Nat
  BY <1>2
<1>4. n - 1 \in T
  BY <1>2, <1>3
<1>5. n - 1 + 1 = n
  BY <1>3
<1>6. QED
  BY <1>2, <1>4, <1>5

--------------------------------------------------------------------------------
(* The steps instructions are made of.                                            *)

LEMMA UntouchedSound ==
  ASSUME NEW b, NEW m, Sound(m, b), NEW n,
         DOMAIN n = DOMAIN m, n.next = m.next, n.invoked = m.invoked,
         n.pending = m.pending, n.lost = m.lost,
         DOMAIN n.heap = DOMAIN m.heap, n.stop # "class_missing"
  PROVE  Sound(n, b)
  BY DEF Sound, HoldsLatest, OwnsIds

LEMMA StopSound ==
  ASSUME NEW b, NEW m, Sound(m, b), NEW reason, reason # "class_missing"
  PROVE  Sound(Stop(m, reason), b)
<1>1. PICK n : n = Stop(m, reason)
  OBVIOUS
<1>2. /\ DOMAIN n = DOMAIN m /\ n.next = m.next /\ n.invoked = m.invoked
      /\ n.pending = m.pending /\ n.lost = m.lost
      /\ DOMAIN n.heap = DOMAIN m.heap /\ n.stop # "class_missing"
  BY <1>1 DEF Stop, Sound, HoldsLatest
<1>3. Sound(n, b)
  BY <1>2, UntouchedSound
<1>4. QED
  BY <1>1, <1>3

LEMMA GotoSound ==
  ASSUME NEW b, NEW m, Sound(m, b), NEW pc
  PROVE  Sound(Goto(m, pc), b)
<1>1. PICK n : n = Goto(m, pc)
  OBVIOUS
<1>2. /\ DOMAIN n = DOMAIN m /\ n.next = m.next /\ n.invoked = m.invoked
      /\ n.pending = m.pending /\ n.lost = m.lost
      /\ DOMAIN n.heap = DOMAIN m.heap /\ n.stop # "class_missing"
  BY <1>1 DEF Goto, Sound, HoldsLatest
<1>3. Sound(n, b)
  BY <1>2, UntouchedSound
<1>4. QED
  BY <1>1, <1>3

LEMMA AdvanceSound == ASSUME NEW b, NEW m, Sound(m, b) PROVE Sound(Advance(m), b)
  BY GotoSound DEF Advance

LEMMA SetRegSound ==
  ASSUME NEW b, NEW m, Sound(m, b), NEW r, NEW value
  PROVE  Sound(SetReg(m, r, value), b)
<1>1. PICK n : n = SetReg(m, r, value)
  OBVIOUS
<1>2. /\ DOMAIN n = DOMAIN m /\ n.next = m.next /\ n.invoked = m.invoked
      /\ n.pending = m.pending /\ n.lost = m.lost
      /\ DOMAIN n.heap = DOMAIN m.heap /\ n.stop # "class_missing"
  BY <1>1 DEF SetReg, Sound, HoldsLatest
<1>3. Sound(n, b)
  BY <1>2, UntouchedSound
<1>4. QED
  BY <1>1, <1>3

LEMMA SetPairSound ==
  ASSUME NEW b, NEW m, Sound(m, b), NEW r, NEW low, NEW high
  PROVE  Sound(SetPair(m, r, low, high), b)
  BY SetRegSound DEF SetPair

LEMMA SetFieldSound ==
  ASSUME NEW b, NEW m, Sound(m, b), NEW id, NEW field, NEW value
  PROVE  Sound(SetField(m, id, field, value), b)
<1>1. PICK n : n = SetField(m, id, field, value)
  OBVIOUS
<1>2. /\ DOMAIN n = DOMAIN m /\ n.next = m.next /\ n.invoked = m.invoked
      /\ n.pending = m.pending /\ n.lost = m.lost
      /\ DOMAIN n.heap = DOMAIN m.heap /\ n.stop # "class_missing"
  BY <1>1 DEF SetField, Sound, HoldsLatest
<1>3. Sound(n, b)
  BY <1>2, UntouchedSound
<1>4. QED
  BY <1>1, <1>3

LEMMA SetElementSound ==
  ASSUME NEW b, NEW m, Sound(m, b), NEW id, NEW index, NEW value
  PROVE  Sound(SetElement(m, id, index, value), b)
<1>1. PICK n : n = SetElement(m, id, index, value)
  OBVIOUS
<1>2. /\ DOMAIN n = DOMAIN m /\ n.next = m.next /\ n.invoked = m.invoked
      /\ n.pending = m.pending /\ n.lost = m.lost
      /\ DOMAIN n.heap = DOMAIN m.heap /\ n.stop # "class_missing"
  BY <1>1 DEF SetElement, Sound, HoldsLatest
<1>3. Sound(n, b)
  BY <1>2, UntouchedSound
<1>4. QED
  BY <1>1, <1>3

LEMMA SetLengthSound ==
  ASSUME NEW b, NEW m, Sound(m, b), NEW id, NEW length
  PROVE  Sound(SetLength(m, id, length), b)
<1>1. PICK n : n = SetLength(m, id, length)
  OBVIOUS
<1>2. /\ DOMAIN n = DOMAIN m /\ n.next = m.next /\ n.invoked = m.invoked
      /\ n.pending = m.pending /\ n.lost = m.lost
      /\ DOMAIN n.heap = DOMAIN m.heap /\ n.stop # "class_missing"
  BY <1>1 DEF SetLength, Sound, HoldsLatest
<1>3. Sound(n, b)
  BY <1>2, UntouchedSound
<1>4. QED
  BY <1>1, <1>3

LEMMA ReturningSound ==
  ASSUME NEW b, NEW m, Sound(m, b), NEW value
  PROVE  Sound(Returning(m, value), b)
<1>1. PICK n : n = Returning(m, value)
  OBVIOUS
<1>2. /\ DOMAIN n = DOMAIN m /\ n.next = m.next /\ n.invoked = m.invoked
      /\ n.pending = m.pending /\ n.lost = m.lost
      /\ DOMAIN n.heap = DOMAIN m.heap /\ n.stop # "class_missing"
  BY <1>1 DEF Returning, Sound, HoldsLatest
<1>3. Sound(n, b)
  BY <1>2, UntouchedSound
<1>4. QED
  BY <1>1, <1>3

LEMMA NarrowSound ==
  ASSUME NEW b, NEW m, Sound(m, b), NEW r, NEW class
  PROVE  Sound(Narrow(m, r, class), b)
<1>1. PICK n : n = Narrow(m, r, class)
  OBVIOUS
<1>2. /\ DOMAIN n = DOMAIN m /\ n.next = m.next /\ n.invoked = m.invoked
      /\ n.pending = m.pending /\ n.lost = m.lost
      /\ DOMAIN n.heap = DOMAIN m.heap /\ n.stop # "class_missing"
  BY <1>1 DEF Narrow, Sound, HoldsLatest
<1>3. Sound(n, b)
  BY <1>2, UntouchedSound
<1>4. QED
  BY <1>1, <1>3

LEMMA StaticsSound ==
  ASSUME NEW b, NEW m, Sound(m, b), NEW value
  PROVE  Sound([m EXCEPT !.statics = value], b)
<1>1. PICK n : n = [m EXCEPT !.statics = value]
  OBVIOUS
<1>2. /\ DOMAIN n = DOMAIN m /\ n.next = m.next /\ n.invoked = m.invoked
      /\ n.pending = m.pending /\ n.lost = m.lost
      /\ DOMAIN n.heap = DOMAIN m.heap /\ n.stop # "class_missing"
  BY <1>1 DEF Sound, HoldsLatest
<1>3. Sound(n, b)
  BY <1>2, UntouchedSound
<1>4. QED
  BY <1>1, <1>3

LEMMA BranchSound ==
  ASSUME NEW b, NEW m, Sound(m, b), NEW distance, NEW size
  PROVE  Sound(Branch(m, distance, size), b)
  BY GotoSound, StopSound DEF Branch, Need

LEMMA OneMoreId ==
  ASSUME NEW ids, BoundedIds(ids), NEW id \in Nat PROVE BoundedIds(ids \cup {id})
<1>1. PICK n \in Nat : \A k \in ids : k < n
  BY DEF BoundedIds
<1>2. PICK top \in Nat : top = IF n <= id THEN id + 1 ELSE n
  OBVIOUS
<1>3. \A k \in ids \cup {id} : k \in Nat /\ k < top
  BY <1>1, <1>2 DEF BoundedIds
<1>4. QED
  BY <1>3 DEF BoundedIds

(* A new object takes the next id, and so one that nobody has if the method owns its  *)
(* ids.                                                                           *)
LEMMA MaterializeSound ==
  ASSUME NEW b, NEW m, Sound(m, b), NEW class, NEW length
  PROVE  Sound(MaterializeWith(m, class, length), b) /\ Sound(Materialize(m, class), b)
<1>1. ASSUME NEW size PROVE Sound(MaterializeWith(m, class, size), b)
  <2>1. PICK n : n = MaterializeWith(m, class, size)
    OBVIOUS
  <2>2. /\ DOMAIN n = DOMAIN m /\ n.next = m.next + 1 /\ n.invoked = m.invoked
        /\ n.pending = m.pending /\ n.stop = m.stop
        /\ n.lost = IF m.next \in DOMAIN m.heap THEN m.lost \cup {m.next} ELSE m.lost
        /\ DOMAIN n.heap = DOMAIN m.heap \cup {m.next}
    BY <2>1 DEF MaterializeWith, Put, Sound, HoldsLatest
  <2>3. HoldsLatest(n) /\ m.next \in Nat
    BY <2>2 DEF Sound, HoldsLatest
  <2>4. BoundedIds(DOMAIN m.heap) /\ DOMAIN m.heap \in SUBSET Nat
    BY DEF Sound, BoundedIds
  <2>5. BoundedIds(DOMAIN n.heap)
    BY <2>2, <2>3, <2>4, OneMoreId
  <2>6. OwnsIds(m) => OwnsIds(n) /\ n.lost = m.lost
    BY <2>2, <2>3, <2>4 DEF OwnsIds
  <2>7. Sound(n, b)
    BY <2>2, <2>3, <2>5, <2>6 DEF Sound
  <2>8. QED
    BY <2>1, <2>7
<1>2. QED
  BY <1>1 DEF Materialize

--------------------------------------------------------------------------------
(* The opcodes.                                                                   *)

LEMMA MovesSound ==
  ASSUME NEW b, NEW m, Sound(m, b), NEW i
  PROVE  /\ Sound(Move(m, i), b) /\ Sound(Const4(m, i), b) /\ Sound(Const16(m, i), b)
         /\ Sound(ConstWide16(m, i), b)
<1>1. Sound(Move(m, i), b)
  BY AdvanceSound, SetRegSound, StopSound DEF Move, Registers, Need
<1>2. Sound(Const4(m, i), b)
  BY AdvanceSound, SetRegSound, StopSound DEF Const4, Registers, Need
<1>3. Sound(Const16(m, i), b)
  BY AdvanceSound, SetRegSound, StopSound DEF Const16, Whole, Registers, Need
<1>4. Sound(ConstWide16(m, i), b)
  BY AdvanceSound, SetPairSound, StopSound DEF ConstWide16, Whole, Registers, Need
<1>5. QED
  BY <1>1, <1>2, <1>3, <1>4

LEMMA ConversionsSound ==
  ASSUME NEW b, NEW m, Sound(m, b), NEW i
  PROVE  Sound(LongToInt(m, i), b) /\ Sound(IntToLong(m, i), b) /\ Sound(ConstString(m, i), b)
<1>1. Sound(LongToInt(m, i), b)
  BY AdvanceSound, SetRegSound, StopSound DEF LongToInt, Registers, Ints, Need
<1>2. Sound(IntToLong(m, i), b)
  BY AdvanceSound, SetPairSound, StopSound DEF IntToLong, Registers, Ints, Need
<1>3. Sound(ConstString(m, i), b)
  BY AdvanceSound, SetRegSound, MaterializeSound, StopSound
     DEF ConstString, Whole, Registers, Need
<1>4. QED
  BY <1>1, <1>2, <1>3

LEMMA TypesSound ==
  ASSUME NEW b, NEW m, Sound(m, b), NEW i
  PROVE  /\ Sound(CheckCast(m, i), b) /\ Sound(InstanceOf(m, i), b)
         /\ Sound(NewInstance(m, i), b) /\ Sound(NewArray(m, i), b)
<1>1. Sound(CheckCast(m, i), b)
  BY AdvanceSound, NarrowSound, StopSound
     DEF CheckCast, Whole, Registers, Holds, Type, Known, Need
<1>2. Sound(InstanceOf(m, i), b)
  BY AdvanceSound, SetRegSound, NarrowSound, StopSound
     DEF InstanceOf, Whole, Registers, Holds, Type, Known, Need
<1>3. Sound(NewInstance(m, i), b)
  BY AdvanceSound, SetRegSound, MaterializeSound, StopSound
     DEF NewInstance, Whole, Registers, Type, Need
<1>4. Sound(NewArray(m, i), b)
  BY AdvanceSound, SetRegSound, MaterializeSound, StopSound
     DEF NewArray, Whole, Registers, Ints, Type, Need
<1>5. QED
  BY <1>1, <1>2, <1>3, <1>4

LEMMA ArraysSound ==
  ASSUME NEW b, NEW m, Sound(m, b), NEW i
  PROVE  Sound(ArrayLength(m, i), b) /\ Sound(AgetObject(m, i), b)
<1>1. Sound(ArrayLength(m, i), b)
  BY AdvanceSound, SetRegSound, StopSound DEF ArrayLength, Registers, Holds, Known, Need
<1>2. Sound(AgetObject(m, i), b)
  BY AdvanceSound, SetRegSound, SetLengthSound, SetElementSound, MaterializeSound, StopSound
     DEF AgetObject, WithElementAt, Whole, Registers, Holds, Ints, Known, Need
<1>3. QED
  BY <1>1, <1>2

LEMMA IntegersSound ==
  ASSUME NEW b, NEW m, Sound(m, b), NEW i
  PROVE  /\ Sound(AddInt(m, i), b) /\ Sound(SubInt(m, i), b) /\ Sound(RsubIntLit16(m, i), b)
         /\ Sound(AddOrSubInt2Addr(m, i), b)
<1>1. ASSUME NEW dest, NEW left, NEW right, NEW n
      PROVE  Sound(IntOperation(m, dest, left, right, n), b)
  BY AdvanceSound, SetRegSound, StopSound DEF IntOperation, Registers, Ints, Need
<1>2. Sound(AddInt(m, i), b) /\ Sound(SubInt(m, i), b) /\ Sound(RsubIntLit16(m, i), b)
  BY <1>1, StopSound DEF AddInt, SubInt, RsubIntLit16, Whole, Need
<1>3. Sound(AddOrSubInt2Addr(m, i), b)
  BY <1>1 DEF AddOrSubInt2Addr
<1>4. QED
  BY <1>2, <1>3

LEMMA LongsSound ==
  ASSUME NEW b, NEW m, Sound(m, b), NEW i
  PROVE  /\ Sound(CmpLong(m, i), b) /\ Sound(SubLong(m, i), b)
         /\ Sound(AddOrSubLong2Addr(m, i), b)
         /\ Sound(OrLong(m, i), b) /\ Sound(AndLong2Addr(m, i), b)
<1>1. ASSUME NEW r, NEW n PROVE Sound(SetLong(m, r, n), b)
  BY AdvanceSound, SetPairSound DEF SetLong
<1>2. ASSUME NEW left, NEW right PROVE Sound(HalfByHalf(m, i, left, right), b)
  BY AdvanceSound, SetRegSound DEF HalfByHalf
<1>3. Sound(CmpLong(m, i), b)
  BY AdvanceSound, SetRegSound, StopSound
     DEF CmpLong, LongOperands, Whole, Registers, Ints, Need
<1>4. Sound(SubLong(m, i), b) /\ Sound(AddOrSubLong2Addr(m, i), b)
  BY <1>1, StopSound
     DEF SubLong, AddOrSubLong2Addr, LongOperands, Whole, Registers, Ints, Need
<1>5. Sound(OrLong(m, i), b) /\ Sound(AndLong2Addr(m, i), b)
  BY <1>2, StopSound DEF OrLong, AndLong2Addr, LongOperands, Whole, Registers, Ints, Need
<1>6. QED
  BY <1>3, <1>4, <1>5

LEMMA BranchesSound ==
  ASSUME NEW b, NEW m, Sound(m, b), NEW i, NEW size
  PROVE  /\ Sound(GotoOffset(m, i, size), b) /\ Sound(PackedSwitch(m, i, size), b)
         /\ Sound(IfEqz(m, i, size), b) /\ Sound(IfNez(m, i, size), b)
         /\ Sound(IfLtz(m, i, size), b) /\ Sound(IfGtz(m, i, size), b)
         /\ Sound(IfLt(m, i, size), b) /\ Sound(IfGe(m, i, size), b)
         /\ Sound(IfGt(m, i, size), b) /\ Sound(IfNe(m, i, size), b)
<1>1. Sound(GotoOffset(m, i, size), b)
  BY BranchSound DEF GotoOffset
<1>2. Sound(Branch(m, i.lit, size), b) /\ Sound(Advance(m), b)
  BY BranchSound, AdvanceSound
<1>3. Sound(PackedSwitch(m, i, size), b)
  BY <1>2, StopSound DEF PackedSwitch, BranchIf, Whole, Registers, Ints, Need
<1>4. Sound(IfEqz(m, i, size), b) /\ Sound(IfNez(m, i, size), b)
  BY <1>2, StopSound DEF IfEqz, IfNez, BranchIf, Whole, Registers, Need
<1>5. Sound(IfLtz(m, i, size), b) /\ Sound(IfGtz(m, i, size), b)
  BY <1>2, StopSound DEF IfLtz, IfGtz, BranchIf, Whole, Registers, Need
<1>6. Sound(IfLt(m, i, size), b) /\ Sound(IfGe(m, i, size), b) /\ Sound(IfGt(m, i, size), b)
  BY <1>2, StopSound DEF IfLt, IfGe, IfGt, Compared, BranchIf, Whole, Registers, Ints, Need
<1>7. Sound(IfNe(m, i, size), b)
  BY <1>2, StopSound DEF IfNe, BranchIf, Whole, Registers, Need
<1>8. QED
  BY <1>1, <1>3, <1>4, <1>5, <1>6, <1>7

LEMMA StaticFieldsSound ==
  ASSUME NEW b, NEW m, Sound(m, b), NEW i PROVE Sound(Sget(m, i), b) /\ Sound(Sput(m, i), b)
<1>1. Sound(WithStatic(m, i.name), b)
  BY StaticsSound, MaterializeSound DEF WithStatic
<1>2. Sound(Sget(m, i), b)
  BY <1>1, AdvanceSound, SetRegSound, StopSound DEF Sget, Whole, Registers, Field, Need
<1>3. Sound(Sput(m, i), b)
  BY StaticsSound, AdvanceSound, StopSound DEF Sput, Whole, Registers, Field, Need
<1>4. QED
  BY <1>2, <1>3

LEMMA LoadingSound ==
  ASSUME NEW b, NEW m, Sound(m, b), NEW i, NEW rs, NEW after, Sound(after, b)
  PROVE  Sound(Loading(m, i, rs, after), b)
  BY StopSound DEF Loading, Whole, Registers, Receiver, Field, Known, Need

LEMMA FieldsSound ==
  ASSUME NEW b, NEW m, Sound(m, b), NEW i
  PROVE  /\ Sound(Iget(m, i), b) /\ Sound(IgetObject(m, i), b) /\ Sound(IgetBoolean(m, i), b)
         /\ Sound(IgetWide(m, i), b) /\ Sound(IputWide(m, i), b) /\ Sound(Iput(m, i), b)
<1>1. ASSUME NEW id, NEW field PROVE Sound(WithField(m, id, field), b)
  BY SetFieldSound, MaterializeSound DEF WithField
<1>2. Sound(Iget(m, i), b) /\ Sound(IgetObject(m, i), b) /\ Sound(IgetBoolean(m, i), b)
  BY <1>1, LoadingSound, AdvanceSound, SetRegSound DEF Iget, IgetObject, IgetBoolean
<1>3. Sound(IgetWide(m, i), b)
  BY <1>1, LoadingSound, AdvanceSound, SetPairSound DEF IgetWide
<1>4. Sound(IputWide(m, i), b)
  BY AdvanceSound, SetFieldSound, StopSound
     DEF IputWide, Whole, Registers, Receiver, Ints, Field, Known, Need
<1>5. Sound(Iput(m, i), b)
  BY LoadingSound, AdvanceSound, SetFieldSound DEF Iput
<1>6. QED
  BY <1>2, <1>3, <1>4, <1>5

LEMMA MoveResultSound ==
  ASSUME NEW b, NEW m, Sound(m, b), NEW i PROVE Sound(MoveResult(m, i), b)
<1>1. ASSUME NEW n, Sound(n, b)
      PROVE  Sound([n EXCEPT !.pending.valid = FALSE, !.pending.wide = FALSE], b)
  <2>1. PICK k : k = [n EXCEPT !.pending.valid = FALSE, !.pending.wide = FALSE]
    OBVIOUS
  <2>2. /\ DOMAIN k = DOMAIN n /\ k.next = n.next /\ k.lost = n.lost /\ k.heap = n.heap
        /\ k.stop = n.stop /\ DOMAIN k.pending = DOMAIN n.pending
        /\ k.pending.valid = FALSE
    BY <1>1, <2>1 DEF Sound, HoldsLatest
  <2>3. Sound(k, b)
    BY <1>1, <2>2 DEF Sound, HoldsLatest, OwnsIds
  <2>4. QED
    BY <2>1, <2>3
<1>2. QED
  BY <1>1, AdvanceSound, SetRegSound, SetPairSound, StopSound
     DEF MoveResult, Registers, Need

--------------------------------------------------------------------------------
(* The stubs.                                                                     *)

LEMMA CreatingSound ==
  ASSUME NEW b, NEW m, Sound(m, b), NEW class PROVE Sound(Creating(m, class), b)
  BY ReturningSound, MaterializeSound DEF Creating

LEMMA ArgumentsSound ==
  ASSUME NEW b, NEW m, Sound(m, b), NEW args, NEW kinds, NEW after, Sound(after, b)
  PROVE  Sound(Arguments(m, args, kinds, after), b)
  BY StopSound DEF Arguments, Need

LEMMA RememberedSound ==
  ASSUME NEW b, NEW m, Sound(m, b), NEW v, NEW after, Sound(after, b)
  PROVE  Sound(Remembered(m, v, after), b)
  BY StopSound DEF Remembered, Need

LEMMA SizedSound == ASSUME NEW b, NEW m, Sound(m, b), NEW id PROVE Sound(Sized(m, id), b)
  BY SetLengthSound DEF Sized

LEMMA YesSound ==
  ASSUME NEW b, NEW m, Sound(m, b), NEW name, NEW args
  PROVE  /\ Sound(VoidStub(m), b) /\ Sound(IdentityStub(m, name), b)
         /\ Sound(AssetStub(m, name), b)
         /\ Sound(Constructor(m, name, args), b) /\ Sound(StringStub(m, name, args), b)
<1>1. Sound(VoidStub(m), b) /\ Sound(IdentityStub(m, name), b) /\ Sound(AssetStub(m, name), b)
  BY CreatingSound DEF VoidStub, IdentityStub, AssetStub
<1>2. Sound(Constructor(m, name, args), b)
  BY ArgumentsSound DEF Constructor
<1>3. Sound(Creating(m, "String"), b)
      /\ Sound(Returning(MaterializeWith(m, "Chars", 1), Fresh(m, "Chars")), b)
  BY CreatingSound, ReturningSound, MaterializeSound
<1>4. Sound(StringStub(m, name, args), b)
  BY <1>3, ArgumentsSound DEF StringStub
<1>5. QED
  BY <1>1, <1>2, <1>4

LEMMA ListStubsSound ==
  ASSUME NEW b, NEW m, Sound(m, b), NEW args
  PROVE  /\ Sound(ListSize(m, args), b) /\ Sound(ArrayListWithCapacity(m, args), b)
         /\ Sound(SingletonList(m, args), b)
<1>1. Sound(ListSize(m, args), b)
  BY ArgumentsSound, RememberedSound, ReturningSound, SizedSound DEF ListSize
<1>2. Sound(ArrayListWithCapacity(m, args), b)
  BY ArgumentsSound, RememberedSound, SetFieldSound, SetLengthSound
     DEF ArrayListWithCapacity
<1>3. Sound(SingletonList(m, args), b)
  BY StopSound, MaterializeSound, CreatingSound, SetLengthSound, SetElementSound,
     SetFieldSound DEF SingletonList, Need
<1>4. QED
  BY <1>1, <1>2, <1>3

LEMMA IteratorStubsSound ==
  ASSUME NEW b, NEW m, Sound(m, b), NEW args
  PROVE  /\ Sound(ListIterator(m, args), b) /\ Sound(IteratorHasNext(m, args), b)
         /\ Sound(IteratorNext(m, args), b)
<1>1. Sound(ListIterator(m, args), b)
  BY ArgumentsSound, RememberedSound, SizedSound, CreatingSound, SetFieldSound
     DEF ListIterator
<1>2. Sound(IteratorHasNext(m, args), b)
  BY ArgumentsSound, RememberedSound, SizedSound, ReturningSound DEF IteratorHasNext
<1>3. ASSUME NEW n, Sound(n, b), NEW id, NEW index PROVE Sound(WithNextElement(n, id, index), b)
  BY <1>3, MaterializeSound, SetElementSound DEF WithNextElement
<1>4. Sound(IteratorNext(m, args), b)
  BY <1>3, ArgumentsSound, RememberedSound, StopSound, SizedSound, SetFieldSound,
     ReturningSound DEF IteratorNext, Need
<1>5. QED
  BY <1>1, <1>2, <1>4

(* System.arraycopy, element by element.  The states it goes through exist one by     *)
(* one, and so all of them do.                                                    *)
LEMMA CopyStepSound ==
  ASSUME NEW b, NEW m, Sound(m, b), NEW args
  PROVE  Sound(LongEnough(m, args), b) /\ \A k : Sound(CopyNext(m, args, k), b)
<1>1. ASSUME NEW n, Sound(n, b), NEW id, NEW length PROVE Sound(AtLeast(n, id, length), b)
  BY <1>1, SetLengthSound DEF AtLeast
<1>2. Sound(LongEnough(m, args), b)
  BY <1>1 DEF LongEnough
<1>3. ASSUME NEW k PROVE Sound(CopyNext(m, args, k), b)
  BY MaterializeSound, SetElementSound DEF CopyNext, CopyElement
<1>4. QED
  BY <1>2, <1>3

LEMMA CopyingSteps ==
  ASSUME NEW m, NEW args
  PROVE  /\ Copying(m, args)[0] = LongEnough(m, args)
         /\ \A n \in Nat : Copying(m, args)[n + 1] = CopyNext(Copying(m, args)[n], args, n)
<1> DEFINE Next(f, k) == IF k = 0 THEN LongEnough(m, args) ELSE CopyNext(f[k - 1], args, k - 1)
           Steps(f, n) == \A k \in 0 .. n : f[k] = Next(f, k)
<1>1. \A n \in Nat : \E f : Steps(f, n)
  <2> DEFINE T == {n \in Nat : \E f : Steps(f, n)}
  <2>1. 0 \in T
    <3>1. Steps([k \in {0} |-> LongEnough(m, args)], 0)
      OBVIOUS
    <3>2. QED
      BY <3>1
  <2>2. ASSUME NEW n \in T PROVE n + 1 \in T
    <3>1. PICK f : Steps(f, n)
      OBVIOUS
    <3>2. PICK g : g = [k \in 0 .. n + 1 |-> IF k = n + 1 THEN CopyNext(f[n], args, n)
                                            ELSE f[k]]
      OBVIOUS
    <3>3. n \in Nat /\ n + 1 # 0 /\ n + 1 - 1 = n /\ g[n] = f[n]
          /\ g[n + 1] = CopyNext(f[n], args, n)
      BY <3>2
    <3>4. ASSUME NEW k \in 0 .. n PROVE g[k] = Next(g, k)
      <4>1. g[k] = f[k] /\ f[k] = Next(f, k) /\ (k # 0 => g[k - 1] = f[k - 1])
        BY <3>1, <3>2
      <4>2. QED
        BY <4>1
    <3>5. Steps(g, n + 1)
      BY <3>3, <3>4
    <3>6. QED
      BY <3>3, <3>5
  <2>3. T \in SUBSET Nat
    OBVIOUS
  <2> HIDE DEF T
  <2>4. T = Nat
    BY <2>1, <2>2, <2>3, OneByOne
  <2>5. QED
    BY <2>4 DEF T
<1>2. \A n \in Nat : \A f, g : Steps(f, n) /\ Steps(g, n) => f[n] = g[n]
  <2> DEFINE T == {n \in Nat : \A f, g : Steps(f, n) /\ Steps(g, n) => f[n] = g[n]}
  <2>1. 0 \in T
    OBVIOUS
  <2>2. ASSUME NEW n \in T PROVE n + 1 \in T
    <3>1. ASSUME NEW f, NEW g, Steps(f, n + 1), Steps(g, n + 1) PROVE f[n + 1] = g[n + 1]
      <4>1. n \in Nat /\ n + 1 # 0 /\ n + 1 - 1 = n /\ n + 1 \in 0 .. n + 1
            /\ \A k \in 0 .. n : k \in 0 .. n + 1
        OBVIOUS
      <4>2. Steps(f, n) /\ Steps(g, n)
        BY <3>1, <4>1
      <4>3. f[n] = g[n]
        BY <4>2
      <4>4. f[n + 1] = CopyNext(f[n], args, n) /\ g[n + 1] = CopyNext(g[n], args, n)
        BY <3>1, <4>1
      <4>5. QED
        BY <4>3, <4>4
    <3>2. QED
      BY <3>1
  <2>3. T \in SUBSET Nat
    OBVIOUS
  <2> HIDE DEF T
  <2>4. T = Nat
    BY <2>1, <2>2, <2>3, OneByOne
  <2>5. QED
    BY <2>4 DEF T
<1>3. PICK all : all = [n \in Nat |-> (CHOOSE f : Steps(f, n))[n]]
  OBVIOUS
<1>4. all[0] = LongEnough(m, args)
  <2>1. PICK f : f = CHOOSE g : Steps(g, 0)
    OBVIOUS
  <2>2. Steps(f, 0)
    BY <1>1, <2>1
  <2>3. QED
    BY <1>3, <2>1, <2>2
<1>5. ASSUME NEW n \in Nat PROVE all[n + 1] = CopyNext(all[n], args, n)
  <2>1. PICK f, g : f = (CHOOSE h : Steps(h, n)) /\ g = (CHOOSE h : Steps(h, n + 1))
    OBVIOUS
  <2>2. Steps(f, n) /\ Steps(g, n + 1)
    <3>1. n + 1 \in Nat /\ (\A k \in Nat : \E h : Steps(h, k))
      BY <1>1
    <3> HIDE DEF Steps
    <3>2. QED
      BY <2>1, <3>1, Zenon
  <2>3. n + 1 # 0 /\ n + 1 - 1 = n /\ n + 1 \in 0 .. n + 1 /\ n + 1 \in Nat
        /\ \A k \in 0 .. n : k \in 0 .. n + 1
    OBVIOUS
  <2>4. Steps(g, n)
    BY <2>2, <2>3
  <2>5. f[n] = g[n] /\ g[n + 1] = CopyNext(g[n], args, n)
    BY <1>2, <2>2, <2>3, <2>4
  <2>6. all[n] = f[n] /\ all[n + 1] = g[n + 1]
    BY <1>3, <2>1, <2>3
  <2>7. QED
    BY <2>5, <2>6
<1>6. all = [k \in Nat |-> Next(all, k)]
  <2>1. ASSUME NEW k \in Nat PROVE all[k] = Next(all, k)
    <3>1. CASE k = 0
      BY <1>4, <3>1
    <3>2. CASE k # 0
      <4>1. k - 1 \in Nat /\ k - 1 + 1 = k
        BY <3>2
      <4>2. all[k] = CopyNext(all[k - 1], args, k - 1)
        BY <1>5, <4>1
      <4>3. QED
        BY <3>2, <4>2
    <3>3. QED
      BY <3>1, <3>2
  <2>2. QED
    BY <1>3, <2>1
<1>7. Copying(m, args) = [k \in Nat |-> Next(Copying(m, args), k)]
  BY <1>6, Zenon DEF Copying
<1>8. QED
  <2>1. Copying(m, args)[0] = LongEnough(m, args)
    BY <1>7
  <2>2. ASSUME NEW n \in Nat
        PROVE  Copying(m, args)[n + 1] = CopyNext(Copying(m, args)[n], args, n)
    <3>1. n + 1 \in Nat /\ n + 1 # 0 /\ n + 1 - 1 = n
      OBVIOUS
    <3>2. QED
      BY <1>7, <3>1
  <2>3. QED
    BY <2>1, <2>2

LEMMA CopyingSound ==
  ASSUME NEW b, NEW m, Sound(m, b), NEW args, NEW n \in Nat
  PROVE  Sound(Copying(m, args)[n], b)
<1> DEFINE T == {k \in Nat : Sound(Copying(m, args)[k], b)}
<1>1. 0 \in T
  BY CopyingSteps, CopyStepSound
<1>2. ASSUME NEW k \in T PROVE k + 1 \in T
  BY CopyingSteps, CopyStepSound
<1>3. T \in SUBSET Nat
  OBVIOUS
<1> HIDE DEF T
<1>4. T = Nat
  BY <1>1, <1>2, <1>3, OneByOne
<1>5. QED
  BY <1>4 DEF T

LEMMA ArrayCopySound ==
  ASSUME NEW b, NEW m, Sound(m, b), NEW args PROVE Sound(ArrayCopy(m, args), b)
<1>1. ASSUME NEW copied, Sound(copied, b) PROVE Sound(WithObjectsOf(m, copied), b)
  <2>1. PICK n : n = WithObjectsOf(m, copied)
    OBVIOUS
  <2>2. /\ DOMAIN n = DOMAIN m /\ n.next = copied.next /\ n.heap = copied.heap
        /\ n.lost = copied.lost /\ n.pending = m.pending /\ n.invoked = m.invoked
        /\ n.stop = m.stop
    BY <2>1 DEF WithObjectsOf, Sound, HoldsLatest
  <2>3. Sound(n, b)
    BY <1>1, <2>2 DEF Sound, HoldsLatest, OwnsIds
  <2>4. QED
    BY <2>1, <2>3
<1>2. (\A k \in {2, 4, 5} : args[k].n \in Nat)
        => Sound(WithObjectsOf(m, Copying(m, args)[args[5].n]), b)
  BY <1>1, CopyingSound
<1>3. QED
  BY <1>2, ArgumentsSound, RememberedSound, StopSound DEF ArrayCopy, Arguments, Remembered, Need

LEMMA OtherStubsSound ==
  ASSUME NEW b, NEW m, Sound(m, b), NEW args
  PROVE  /\ Sound(ThreadGetId(m), b) /\ Sound(MathMin(m, args), b) /\ Sound(SetIterator(m), b)
         /\ Sound(IterableIterator(m, args), b) /\ Sound(CloseableClose(m, args), b)
         /\ Sound(ReaderRead(m, args), b) /\ Sound(AtomicGetAndSet(m, args), b)
         /\ Sound(AtomicSet(m, args), b) /\ Sound(ArrayCopy(m, args), b)
<1>1. Sound(ThreadGetId(m), b)
  <2>1. PICK n : n = ThreadGetId(m)
    OBVIOUS
  <2>2. /\ DOMAIN n = DOMAIN m /\ n.next = m.next /\ n.invoked = m.invoked
        /\ n.pending = m.pending /\ n.lost = m.lost
        /\ DOMAIN n.heap = DOMAIN m.heap /\ n.stop # "class_missing"
    BY <2>1 DEF ThreadGetId, Sound, HoldsLatest
  <2>3. QED
    BY <2>1, <2>2, UntouchedSound
<1>2. /\ Sound(MathMin(m, args), b) /\ Sound(SetIterator(m), b)
      /\ Sound(IterableIterator(m, args), b)
  BY ArgumentsSound, ReturningSound, CreatingSound DEF MathMin, SetIterator, IterableIterator
<1>3. Sound(CloseableClose(m, args), b) /\ Sound(ReaderRead(m, args), b)
  BY ArgumentsSound, ReturningSound DEF CloseableClose, ReaderRead
<1>4. Sound(AtomicGetAndSet(m, args), b) /\ Sound(AtomicSet(m, args), b)
  BY ArgumentsSound, RememberedSound, ReturningSound, SetFieldSound, MaterializeSound
     DEF AtomicGetAndSet, AtomicSet
<1>5. QED
  BY <1>1, <1>2, <1>3, <1>4, ArrayCopySound

LEMMA StubSound ==
  ASSUME NEW b, NEW m, Sound(m, b), NEW name \in Stubbed, NEW args
  PROVE  Sound(Stub(m, name, args), b)
<1>1. name \in ListStubs => Sound(ListStub(m, name, args), b)
  BY ListStubsSound, IteratorStubsSound DEF ListStub, ListStubs
<1>2. name \in OtherStubs => Sound(OtherStub(m, name, args), b)
  BY OtherStubsSound DEF OtherStub, OtherStubs
<1>3. QED
  BY <1>1, <1>2, YesSound DEF Stub, Stubbed

--------------------------------------------------------------------------------
(* One instruction.                                                               *)

LEMMA SharedStepSound ==
  ASSUME NEW b, NEW m, Sound(m, b), NEW i, NEW size PROVE Sound(SharedStep(m, i, size), b)
<1>1. i.op \in {"nop", "move", "const/4", "const/16", "const-wide/16"} => Sound(Moves(m, i), b)
  BY MovesSound, AdvanceSound DEF Moves
<1>2. i.op \in {"long-to-int", "const-string", "goto"} => Sound(Conversions(m, i, size), b)
  BY ConversionsSound, BranchesSound DEF Conversions
<1>3. i.op \in {"array-length", "packed-switch"} => Sound(Lengths(m, i, size), b)
  BY ArraysSound, BranchesSound DEF Lengths
<1>4. Sound(Casts(m, i), b) /\ Sound(Queries(m, i), b) /\ Sound(Elements(m, i), b)
  BY TypesSound, ArraysSound DEF Casts, Queries, Elements
<1>5. i.op \in {"cmp-long", "int-to-long", "or-long"} => Sound(Longs(m, i), b)
  BY LongsSound, ConversionsSound DEF Longs
<1>6. i.op \in {"sub-int", "add-int", "rsub-int/lit16"} => Sound(Sums(m, i), b)
  BY IntegersSound DEF Sums
<1>7. i.op \in {"sub-long", "add-int/2addr", "sub-int/2addr"} => Sound(Differences(m, i), b)
  BY IntegersSound, LongsSound DEF Differences
<1>8. i.op \in {"and-long/2addr", "add-long/2addr", "sub-long/2addr"}
        => Sound(LongsInPlace(m, i), b)
  BY LongsSound DEF LongsInPlace
<1>9. i.op \in {"if-nez", "if-ltz", "if-gtz"} => Sound(ZeroTests(m, i, size), b)
  BY BranchesSound DEF ZeroTests
<1>10. i.op \in {"if-lt", "if-ne"} => Sound(Comparisons(m, i, size), b)
  BY BranchesSound DEF Comparisons
<1>11. i.op \in {"if-ge", "if-gt"} => Sound(Orderings(m, i, size), b)
  BY BranchesSound DEF Orderings
<1>12. Sound(StaticLoads(m, i), b) /\ Sound(StaticStores(m, i), b)
  BY StaticFieldsSound, MoveResultSound DEF StaticLoads, StaticStores
<1>13. i.op \in {"new-instance", "new-array"} => Sound(Allocations(m, i), b)
  BY TypesSound DEF Allocations
<1>14. Sound(WideStores(m, i), b) /\ Sound(IntStores(m, i), b) /\ Sound(ObjectStores(m, i), b)
  BY FieldsSound DEF WideStores, IntStores, ObjectStores
<1>15. Sound(Unsupported(m), b)
  BY StopSound DEF Unsupported
<1>16. QED
  BY <1>1, <1>2, <1>3, <1>4, <1>5, <1>6, <1>7, <1>8, <1>9, <1>10, <1>11, <1>12, <1>13,
     <1>14, <1>15 DEF SharedStep

LEMMA StepSound ==
  ASSUME NEW b, NEW m, Sound(m, b), NEW i, NEW size
  PROVE  Sound(ProbeStep(m, i, size), b) /\ Sound(InlineStep(m, i, size), b)
<1>1. /\ Sound(SharedStep(m, i, size), b) /\ Sound(Unsupported(m), b)
      /\ Sound(IfEqz(m, i, size), b)
  BY SharedStepSound, StopSound, BranchesSound DEF Unsupported
<1>2. /\ Sound(ProbeIget(m, i), b) /\ Sound(ProbeIgetObject(m, i), b)
      /\ Sound(ProbeIgetBoolean(m, i), b) /\ Sound(ProbeIgetWide(m, i), b)
  BY LoadingSound, AdvanceSound, SetRegSound, SetPairSound
     DEF ProbeIget, ProbeIgetObject, ProbeIgetBoolean, ProbeIgetWide
<1>3. Sound(ProbeStep(m, i, size), b)
  BY <1>1, <1>2 DEF ProbeStep
<1>4. Sound(InlineStep(m, i, size), b)
  BY <1>1, FieldsSound DEF InlineStep
<1>5. QED
  BY <1>3, <1>4

LEMMA CallsSound ==
  ASSUME NEW b, NEW m, Sound(m, b), NEW i
  PROVE  /\ Sound(CallChecks(m, i), b)
         /\ i.name \in Frameworks => Sound(SuperStub(m, i), b)
<1>1. Sound(CallChecks(m, i), b)
  BY StopSound DEF CallChecks, Whole, Registers, Need
<1>2. Sound(Materialize(m, "AssetManager"), b)
  BY MaterializeSound
<1>3. ASSUME i.name \in Frameworks PROVE Sound(SuperStub(m, i), b)
  BY <1>2, <1>3, StopSound, AdvanceSound DEF SuperStub, Frameworks, Need
<1>4. QED
  BY <1>1, <1>3

--------------------------------------------------------------------------------
(* The frames.                                                                    *)

AllHold(fs) ==
  /\ fs \in Seq({fs[k] : k \in DOMAIN fs})
  /\ \A k \in DOMAIN fs : HoldsLatest(fs[k])

(* Interpreting, there is a frame, and each one's pending result is the one of its   *)
(* last call.                                                                     *)
FramesHold ==
  /\ AllHold(frames)
  /\ dexPhase = "interpreting" => frames # <<>>

(* Every frame but the last is waiting for a call it has made; the last one owns its *)
(* ids as long as its method has made no call.                                     *)
IdsHold ==
  /\ DOMAIN code = DOMAIN Methods
  /\ BoundedIds(DOMAIN heap)
  /\ \A k \in DOMAIN frames : frames[k].method \in DOMAIN Methods
  /\ \A k \in DOMAIN frames : k < Len(frames) => HasCalled(frames[k].method)
  /\ dexPhase = "interpreting" =>
       HasCalled(Top.method) \/ \A id \in DOMAIN heap : id < Top.next

LEMMA HoldByElement ==
  ASSUME NEW fs, NEW n \in Nat, DOMAIN fs = 1 .. n,
         fs = [k \in 1 .. n |-> fs[k]], \A k \in 1 .. n : HoldsLatest(fs[k])
  PROVE  AllHold(fs)
<1>1. \A k \in 1 .. n : fs[k] \in {fs[j] : j \in DOMAIN fs}
  OBVIOUS
<1>2. fs \in [1 .. n -> {fs[j] : j \in DOMAIN fs}]
  BY <1>1
<1>3. QED
  BY <1>2 DEF AllHold

LEMMA NoFrameHolds == AllHold(<<>>)
<1>1. <<>> \in Seq({<<>>[k] : k \in DOMAIN <<>>}) /\ DOMAIN <<>> = {}
  OBVIOUS
<1>2. QED
  BY <1>1 DEF AllHold

LEMMA FramesAreNumbered ==
  ASSUME NEW fs, AllHold(fs)
  PROVE  /\ Len(fs) \in Nat /\ DOMAIN fs = 1 .. Len(fs)
         /\ fs # <<>> => Len(fs) >= 1 /\ HoldsLatest(fs[Len(fs)])
  BY DEF AllHold

LEMMA OneFrameHolds == ASSUME NEW f, HoldsLatest(f) PROVE AllHold(<<f>>)
<1>1. <<f>> \in Seq({f}) /\ \A k \in DOMAIN <<f>> : <<f>>[k] = f
  OBVIOUS
<1>2. {<<f>>[k] : k \in DOMAIN <<f>>} = {f}
  OBVIOUS
<1>3. QED
  BY <1>1, <1>2 DEF AllHold

LEMMA AppendHolds ==
  ASSUME NEW fs, AllHold(fs), NEW f, HoldsLatest(f)
  PROVE  AllHold(Append(fs, f))
<1> DEFINE S == {fs[k] : k \in DOMAIN fs} \cup {f}
<1>1. fs \in Seq(S) /\ f \in S
  BY DEF AllHold
<1>2. PICK gs : gs = Append(fs, f)
  OBVIOUS
<1>3. /\ gs \in Seq(S) /\ Len(fs) \in Nat /\ DOMAIN fs = 1 .. Len(fs)
      /\ Len(gs) = Len(fs) + 1 /\ Len(fs) + 1 \in Nat
      /\ \A k \in 1 .. Len(fs) : gs[k] = fs[k]
      /\ gs[Len(fs) + 1] = f
  BY <1>1, <1>2
<1> HIDE DEF S
<1>4. DOMAIN gs = 1 .. Len(fs) + 1 /\ gs = [k \in 1 .. Len(fs) + 1 |-> gs[k]]
  BY <1>3
<1>5. \A k \in 1 .. Len(fs) + 1 : HoldsLatest(gs[k])
  BY <1>3 DEF AllHold
<1>6. AllHold(gs)
  BY <1>3, <1>4, <1>5, HoldByElement
<1>7. QED
  BY <1>2, <1>6

LEMMA LastHolds ==
  ASSUME NEW fs, AllHold(fs), fs # <<>>, NEW f, HoldsLatest(f)
  PROVE  AllHold([fs EXCEPT ![Len(fs)] = f])
<1>1. PICK gs : gs = [fs EXCEPT ![Len(fs)] = f]
  OBVIOUS
<1>2. Len(fs) \in Nat /\ DOMAIN fs = 1 .. Len(fs)
  BY FramesAreNumbered
<1>3. /\ DOMAIN gs = 1 .. Len(fs) /\ gs = [k \in 1 .. Len(fs) |-> gs[k]]
      /\ \A k \in 1 .. Len(fs) : gs[k] = IF k = Len(fs) THEN f ELSE fs[k]
  BY <1>1, <1>2
<1>4. \A k \in 1 .. Len(fs) : HoldsLatest(gs[k])
  BY <1>2, <1>3 DEF AllHold
<1>5. AllHold(gs)
  BY <1>2, <1>3, <1>4, HoldByElement
<1>6. QED
  BY <1>1, <1>5

LEMMA FirstHold ==
  ASSUME NEW fs, AllHold(fs), NEW n \in Nat, n <= Len(fs)
  PROVE  AllHold(SubSeq(fs, 1, n))
<1>1. Len(fs) \in Nat /\ DOMAIN fs = 1 .. Len(fs)
  BY FramesAreNumbered
<1>2. PICK gs : gs = SubSeq(fs, 1, n)
  OBVIOUS
<1>3. /\ DOMAIN gs = 1 .. n /\ gs = [k \in 1 .. n |-> gs[k]]
      /\ \A k \in 1 .. n : gs[k] = fs[k]
  BY <1>1, <1>2
<1>4. \A k \in 1 .. n : HoldsLatest(gs[k])
  BY <1>1, <1>3 DEF AllHold
<1>5. QED
  BY <1>2, <1>3, <1>4, HoldByElement

--------------------------------------------------------------------------------
(* A step of the interpreter leaves the file to the frames, ends it with an answer  *)
(* that is never class_missing, or runs out of native stack.                       *)

Outcome ==
  /\ apk' = apk
  /\ \/ UNCHANGED <<fileAt, dexPhase, report>>
     \/ \E blocker : blocker # "class_missing" /\ Conclude(blocker)
     \/ dexPhase' = "crashed" /\ UNCHANGED <<fileAt, report>>
MethodsKnown == \A name \in DOMAIN Methods : Methods[name].state \in MethodStates
Interpreting == FramesHold /\ IdsHold /\ MethodsKnown /\ dexPhase = "interpreting"

LEMMA TopSound ==
  ASSUME Interpreting
  PROVE  Sound(Machine, Machine) /\ HoldsLatest(Top) /\ Len(frames) \in Nat
<1>1. HoldsLatest(frames[Len(frames)]) /\ Len(frames) \in Nat
  BY FramesAreNumbered DEF Interpreting, FramesHold
<1>2. BoundedIds(DOMAIN heap)
  BY DEF Interpreting, IdsHold
<1>3. QED
  BY <1>1, <1>2 DEF Machine, Top, Sound, HoldsLatest

(* A call starts above every id in use.                                            *)
LEMMA FirstIdFree ==
  ASSUME Interpreting
  PROVE  FirstFreeId \in Nat /\ \A id \in DOMAIN heap : id < FirstFreeId
<1>1. PICK n \in Nat : DOMAIN heap \in SUBSET Nat /\ \A id \in DOMAIN heap : id < n
  BY DEF Interpreting, IdsHold, BoundedIds
<1>2. CASE DOMAIN heap = {}
  BY <1>2 DEF FirstFreeId
<1>3. CASE DOMAIN heap # {}
  <2>1. Max(DOMAIN heap) \in Nat /\ \A id \in DOMAIN heap : id <= Max(DOMAIN heap)
    BY <1>1, <1>3, MaxIsGreatest
  <2>2. FirstFreeId = Max(DOMAIN heap) + 1
    BY <1>3 DEF FirstFreeId
  <2>3. QED
    BY <1>1, <2>1, <2>2
<1>4. QED
  BY <1>2, <1>3

LEMMA ConcludeHolds ==
  ASSUME NEW blocker, blocker # "class_missing", Conclude(blocker), apk' = apk
  PROVE  FramesHold' /\ Outcome
<1>1. frames' = <<>> /\ dexPhase' = "staging"
  BY DEF Conclude
<1>2. AllHold(frames')
  BY <1>1, NoFrameHolds
<1>3. FramesHold'
  BY <1>1, <1>2 DEF FramesHold, AllHold
<1>4. Outcome
  BY DEF Outcome
<1>5. QED
  BY <1>3, <1>4

LEMMA UpdatedHolds ==
  ASSUME NEW f, HoldsLatest(f), NEW b, NEW m, Sound(m, b) PROVE HoldsLatest(Updated(f, m))
<1>1. PICK g : g = Updated(f, m)
  OBVIOUS
<1>2. /\ DOMAIN g = DOMAIN f /\ g.next = m.next /\ g.pending = m.pending
      /\ g.invoked = m.invoked
  BY <1>1 DEF Updated, HoldsLatest
<1>3. HoldsLatest(g)
  BY <1>2 DEF HoldsLatest, Sound
<1>4. QED
  BY <1>1, <1>3

LEMMA InstallHolds ==
  ASSUME Interpreting, NEW m, Sound(m, Machine), Install(m), apk' = apk
  PROVE  FramesHold' /\ Outcome
<1>1. CASE m.stop = "none"
  <2>1. /\ frames' = [frames EXCEPT ![Len(frames)] = Updated(@, m)]
        /\ UNCHANGED <<fileAt, dexPhase, report>>
    BY <1>1 DEF Install, Continue
  <2>2. AllHold(frames) /\ frames # <<>> /\ HoldsLatest(frames[Len(frames)])
    BY FramesAreNumbered DEF Interpreting, FramesHold
  <2>3. frames' = [frames EXCEPT ![Len(frames)] = Updated(frames[Len(frames)], m)]
    BY <2>1, <2>2, FramesAreNumbered
  <2>4. HoldsLatest(Updated(frames[Len(frames)], m))
    BY <2>2, UpdatedHolds
  <2>5. AllHold(frames')
    BY <2>2, <2>3, <2>4, LastHolds
  <2>6. frames' # <<>>
    BY <2>2, <2>3, FramesAreNumbered
  <2>7. QED
    BY <2>1, <2>5, <2>6 DEF FramesHold, AllHold, Outcome
<1>2. CASE m.stop # "none"
  <2>1. Conclude(m.stop) /\ m.stop # "class_missing"
    BY <1>2 DEF Install, Sound
  <2>2. QED
    BY <2>1, ConcludeHolds
<1>3. QED
  BY <1>1, <1>2

LEMMA RefuseHolds ==
  ASSUME NEW blocker, blocker # "class_missing", Refuse(blocker), apk' = apk
  PROVE  FramesHold' /\ Outcome
  BY ConcludeHolds DEF Refuse

LEMMA RefuseCallHolds ==
  ASSUME Interpreting, NEW i, RefuseCall(i), apk' = apk
  PROVE  FramesHold' /\ Outcome
<1>1. Sound(CallChecks(Machine, i), Machine)
  BY TopSound, CallsSound
<1>2. CallChecks(Machine, i).stop # "class_missing"
  BY <1>1 DEF Sound
<1>3. QED
  BY <1>2, RefuseHolds DEF RefuseCall

LEMMA EnterHolds ==
  ASSUME Interpreting, NEW i, Enter(i), apk' = apk
  PROVE  FramesHold' /\ Outcome
<1>1. CASE MethodBlocker(i.name) # "code"
  <2>1. MethodBlocker(i.name) # "class_missing"
    BY DEF MethodBlocker, Interpreting, MethodsKnown, MethodStates
  <2>2. Refuse(MethodBlocker(i.name))
    BY <1>1 DEF Enter
  <2>3. QED
    BY <2>1, <2>2, RefuseHolds
<1>2. CASE MethodBlocker(i.name) = "code" /\ Len(frames) < MaxFrames
  <2>1. frames' = Append(frames, InlineFrame(i.name, Passed(i)))
        /\ UNCHANGED <<fileAt, dexPhase, report>>
    BY <1>2 DEF Enter, Deeper
  <2>2. HoldsLatest(InlineFrame(i.name, Passed(i)))
    BY FirstIdFree DEF HoldsLatest, InlineFrame, Frame, NoPending
  <2>3. AllHold(frames) /\ dexPhase = "interpreting"
    BY DEF Interpreting, FramesHold
  <2>4. AllHold(frames')
    BY <2>1, <2>2, <2>3, AppendHolds
  <2>5. frames' # <<>>
    <3>1. PICK S : S = {frames[k] : k \in DOMAIN frames} \cup {InlineFrame(i.name, Passed(i))}
      OBVIOUS
    <3>2. frames \in Seq(S) /\ InlineFrame(i.name, Passed(i)) \in S
      BY <2>3, <3>1 DEF AllHold
    <3>3. QED
      BY <2>1, <3>2
  <2>6. QED
    BY <2>1, <2>3, <2>4, <2>5 DEF FramesHold, AllHold, Outcome
<1>3. CASE MethodBlocker(i.name) = "code" /\ ~(Len(frames) < MaxFrames)
  <2>1. dexPhase' = "crashed" /\ UNCHANGED <<fileAt, report, frames>>
    BY <1>3 DEF Enter, Deeper
  <2>2. QED
    BY <2>1 DEF Interpreting, FramesHold, AllHold, Outcome
<1>4. QED
  BY <1>1, <1>2, <1>3

LEMMA InstructionHolds ==
  ASSUME Interpreting, ProbeInstruction \/ InlineInstruction
  PROVE  FramesHold' /\ Outcome
<1>1. PICK i : /\ apk' = apk
               /\ \/ Install(ProbeStep(Machine, i, Len(Body)))
                  \/ Install(InlineStep(Machine, i, Len(Body)))
  BY DEF ProbeInstruction, InlineInstruction, Decodes
<1>2. /\ Sound(ProbeStep(Machine, i, Len(Body)), Machine)
      /\ Sound(InlineStep(Machine, i, Len(Body)), Machine)
  BY TopSound, StepSound
<1>3. QED
  BY <1>1, <1>2, InstallHolds

LEMMA InvokeHolds ==
  ASSUME Interpreting, InvokeSuper \/ InvokeStatic \/ InvokeStaticRange \/ InvokeDirect
  PROVE  FramesHold' /\ Outcome
<1>1. PICK i : /\ apk' = apk
               /\ \/ RefuseCall(i) \/ Enter(i)
                  \/ i.name \in Frameworks /\ Install(SuperStub(Machine, i))
                  \/ Refuse("framework_boundary_unimplemented")
                  \/ Refuse("invoke_static_unimplemented")
  BY DEF InvokeSuper, InvokeStatic, InvokeStaticRange, InvokeDirect, Decodes
<1>2. i.name \in Frameworks => Sound(SuperStub(Machine, i), Machine)
  BY TopSound, CallsSound
<1>3. CASE RefuseCall(i)
  BY <1>1, <1>3, RefuseCallHolds
<1>4. CASE Enter(i)
  BY <1>1, <1>4, EnterHolds
<1>5. CASE i.name \in Frameworks /\ Install(SuperStub(Machine, i))
  BY <1>1, <1>2, <1>5, InstallHolds
<1>6. CASE Refuse("framework_boundary_unimplemented") \/ Refuse("invoke_static_unimplemented")
  BY <1>1, <1>6, RefuseHolds
<1>7. QED
  BY <1>1, <1>3, <1>4, <1>5, <1>6

(* The result a call leaves behind is counted as it is left.                        *)
LEMMA ResultHolds ==
  ASSUME NEW f, HoldsLatest(f), NEW b, NEW name, NEW result
  PROVE  /\ HoldsLatest(WithResult(f, name, result))
         /\ Sound(f, b) => Sound(WithResult(f, name, result), b)
<1>1. PICK valid \in BOOLEAN : valid = ~ReturnsVoid(name)
  OBVIOUS
<1>2. PICK p : p = PendingOf(name, result, f.invoked + 1)
  OBVIOUS
<1>3. /\ DOMAIN p = {"valid", "wide", "low", "high", "by"} /\ p.valid \in BOOLEAN
      /\ p.by = f.invoked + 1
  BY <1>1, <1>2 DEF PendingOf
<1>4. PICK g : g = [f EXCEPT !.pending = p, !.invoked = f.invoked + 1]
  OBVIOUS
<1>5. PICK h : h = [g EXCEPT !.pc = g.pc + 1]
  OBVIOUS
<1>6. h = WithResult(f, name, result)
  BY <1>2, <1>4, <1>5 DEF WithResult, Advance, Goto, HoldsLatest
<1>7. /\ DOMAIN h = DOMAIN f /\ h.pending = p /\ h.invoked = f.invoked + 1
      /\ h.next = f.next
      /\ "heap" \in DOMAIN f => h.heap = f.heap
      /\ "lost" \in DOMAIN f => h.lost = f.lost
      /\ "stop" \in DOMAIN f => h.stop = f.stop
  BY <1>4, <1>5 DEF HoldsLatest
<1>8. HoldsLatest(h)
  BY <1>3, <1>7 DEF HoldsLatest
<1>9. Sound(f, b) => Sound(h, b)
  BY <1>7, <1>8 DEF Sound, OwnsIds
<1>10. QED
  BY <1>6, <1>8, <1>9

LEMMA InlineCallHolds ==
  ASSUME Interpreting, InlineInvokeDirect \/ InlineInvoke \/ InlineInvokeRange
  PROVE  FramesHold' /\ Outcome
<1>1. PICK i : apk' = apk /\ (RefuseCall(i) \/ ExecuteOrStub(i))
  BY DEF InlineInvokeDirect, InlineInvoke, InlineInvokeRange, InlineCall, Decodes
<1>2. PICK m : m = Stub(Machine, i.name, Passed(i))
  OBVIOUS
<1>3. CASE RefuseCall(i)
  BY <1>1, <1>3, RefuseCallHolds
<1>4. CASE ExecuteOrStub(i) /\ i.name \notin Stubbed
  BY <1>1, <1>4, EnterHolds DEF ExecuteOrStub
<1>5. CASE ExecuteOrStub(i) /\ i.name \in Stubbed
  <2>1. Sound(m, Machine)
    BY <1>2, <1>5, TopSound, StubSound
  <2>2. Sound(WithResult(m, i.name, m.result), Machine)
    BY <2>1, ResultHolds DEF Sound
  <2>3. PICK n : n = IF m.stop # "none" THEN m ELSE WithResult(m, i.name, m.result)
    OBVIOUS
  <2>4. Install(n) /\ Sound(n, Machine)
    BY <1>2, <1>5, <2>1, <2>2, <2>3 DEF ExecuteOrStub
  <2>5. QED
    BY <1>1, <2>4, InstallHolds
<1>6. QED
  BY <1>1, <1>3, <1>4, <1>5

LEMMA InlineReturnHolds ==
  ASSUME Interpreting, InlineReturn PROVE FramesHold' /\ Outcome
<1>1. PICK result : frames' = Append(SubSeq(frames, 1, Len(frames) - 2),
                                     HandOver(Caller, Top.method, result))
  BY DEF InlineReturn
<1>2. UNCHANGED <<fileAt, dexPhase, report>> /\ apk' = apk
  BY DEF InlineReturn, Decodes
<1>3. AllHold(frames) /\ dexPhase = "interpreting" /\ frames # <<>> /\ Len(frames) # 1
  BY DEF Interpreting, FramesHold, InlineReturn, InProbe
<1>4. Len(frames) \in Nat /\ Len(frames) >= 2 /\ DOMAIN frames = 1 .. Len(frames)
  BY <1>3, FramesAreNumbered
<1>5. HoldsLatest(Caller)
  BY <1>3, <1>4 DEF AllHold, Caller
<1>6. HoldsLatest(Advance(Caller))
  BY <1>5 DEF Advance, Goto, HoldsLatest
<1>7. HoldsLatest(HandOver(Caller, Top.method, result))
  BY <1>5, <1>6, ResultHolds DEF HandOver
<1>8. AllHold(SubSeq(frames, 1, Len(frames) - 2))
  BY <1>3, <1>4, FirstHold
<1>9. PICK fs, f : /\ fs = SubSeq(frames, 1, Len(frames) - 2)
                   /\ f = HandOver(Caller, Top.method, result)
  OBVIOUS
<1>10. AllHold(frames')
  BY <1>1, <1>7, <1>8, <1>9, AppendHolds
<1>11. frames' # <<>>
  <2>1. PICK S : S = {fs[k] : k \in DOMAIN fs} \cup {f}
    OBVIOUS
  <2>2. fs \in Seq(S) /\ f \in S
    BY <1>8, <1>9, <2>1 DEF AllHold
  <2>3. Len(Append(fs, f)) = Len(fs) + 1 /\ Len(fs) \in Nat /\ Len(<<>>) = 0
    BY <2>2
  <2>4. QED
    BY <1>1, <1>9, <2>3
<1>12. QED
  BY <1>2, <1>3, <1>10, <1>11 DEF FramesHold, AllHold, Outcome

LEMMA EndHolds ==
  ASSUME Interpreting, FallOffEnd \/ ReturnOutOfRange \/ ProbeReturn
  PROVE  FramesHold' /\ Outcome
<1>1. PICK blocker \in {"fell_off_end", "register_out_of_range", "none"} :
        Conclude(blocker) /\ apk' = apk
  BY DEF FallOffEnd, ReturnOutOfRange, ProbeReturn, Decodes
<1>2. QED
  BY <1>1, ConcludeHolds

LEMMA InterpretHolds ==
  ASSUME FramesHold, IdsHold, MethodsKnown, Interpret PROVE FramesHold' /\ Outcome
<1>1. Interpreting
  BY DEF Interpreting, Interpret
<1>2. QED
  BY <1>1, InstructionHolds, InvokeHolds, InlineCallHolds, InlineReturnHolds, EndHolds
     DEF Interpret

--------------------------------------------------------------------------------
(* Ids.  A step never changes an instruction that has been decoded, so a method that  *)
(* has made a call stays one that has.                                             *)

Remembers ==
  /\ apk' = apk /\ DOMAIN code' = DOMAIN code
  /\ \A name \in DOMAIN code : \A pc \in DOMAIN code[name] :
       pc \in DOMAIN code'[name] /\ code'[name][pc] = code[name][pc]
IdsKept == IdsHold' /\ (lost' # lost => HasCalled(Top.method))

LEMMA CalledStays ==
  ASSUME Remembers, DOMAIN code = DOMAIN Methods, NEW name \in DOMAIN Methods, HasCalled(name)
  PROVE  HasCalled(name)'
  BY DEF Remembers, HasCalled, Methods

LEMMA DecodesRemembers ==
  ASSUME Interpreting, NEW i, Decodes(i)
  PROVE  /\ Remembers /\ Top.method \in DOMAIN Methods
         /\ Top.pc \in DOMAIN code'[Top.method] /\ code'[Top.method][Top.pc] = i
<1>1. Top.method \in DOMAIN Methods /\ DOMAIN code = DOMAIN Methods
  <2>1. AllHold(frames) /\ frames # <<>>
    BY DEF Interpreting, FramesHold
  <2>2. Len(frames) \in DOMAIN frames
    BY <2>1, FramesAreNumbered
  <2>3. QED
    BY <2>2 DEF Interpreting, IdsHold, Top
<1>2. code' = [code EXCEPT ![Top.method] = Put(code[Top.method], Top.pc, i)]
  BY <1>1 DEF Decodes
<1>3. /\ DOMAIN code' = DOMAIN code
      /\ code'[Top.method] = Put(code[Top.method], Top.pc, i)
      /\ \A name \in DOMAIN code : name # Top.method => code'[name] = code[name]
  BY <1>1, <1>2
<1>4. Top.pc \in DOMAIN code[Top.method] => i = code[Top.method][Top.pc]
  BY DEF Decodes, Readable
<1>5. /\ Top.pc \in DOMAIN code'[Top.method] /\ code'[Top.method][Top.pc] = i
      /\ \A pc \in DOMAIN code[Top.method] :
           pc \in DOMAIN code'[Top.method] /\ code'[Top.method][pc] = code[Top.method][pc]
  BY <1>3, <1>4 DEF Put
<1>6. QED
  BY <1>1, <1>3, <1>5 DEF Remembers, Decodes

LEMMA ConcludeKeepsIds ==
  ASSUME Interpreting, Remembers, NEW blocker, Conclude(blocker), UNCHANGED <<heap, lost>>
  PROVE  IdsKept
<1>1. frames' = <<>> /\ dexPhase' = "staging" /\ DOMAIN frames' = {}
  BY DEF Conclude
<1>2. QED
  BY <1>1 DEF IdsKept, IdsHold, Interpreting, Remembers, Methods

LEMMA InstallKeepsIds ==
  ASSUME Interpreting, Remembers, NEW m, Sound(m, Machine), Install(m)
  PROVE  IdsKept
<1>1. heap' = m.heap /\ lost' = m.lost
  BY DEF Install
<1>2. BoundedIds(DOMAIN heap')
  BY <1>1 DEF Sound
<1>3. AllHold(frames) /\ frames # <<>> /\ DOMAIN code = DOMAIN Methods /\ apk' = apk
      /\ DOMAIN code' = DOMAIN code
  BY DEF Interpreting, FramesHold, IdsHold, Remembers
<1>4. /\ Len(frames) \in Nat /\ DOMAIN frames = 1 .. Len(frames) /\ Len(frames) >= 1
      /\ Len(frames) \in DOMAIN frames /\ Top = frames[Len(frames)]
      /\ HoldsLatest(Top)
  BY <1>3, FramesAreNumbered DEF Top
<1>5. Top.method \in DOMAIN Methods
  BY <1>4 DEF Interpreting, IdsHold
<1>6. ~HasCalled(Top.method) => OwnsIds(m) /\ m.lost = lost
  <2>1. ~HasCalled(Top.method) => OwnsIds(Machine)
    BY DEF Interpreting, IdsHold, OwnsIds, Machine
  <2>2. Machine.lost = lost
    BY DEF Machine
  <2>3. QED
    BY <2>1, <2>2 DEF Sound
<1>7. lost' # lost => HasCalled(Top.method)
  BY <1>1, <1>6
<1>8. CASE m.stop # "none"
  <2>1. Conclude(m.stop) /\ dexPhase' = "staging" /\ DOMAIN frames' = {}
    BY <1>8 DEF Install, Conclude
  <2>2. QED
    BY <1>2, <1>3, <1>7, <2>1 DEF IdsKept, IdsHold, Methods
<1>9. CASE m.stop = "none"
  <2>1. PICK f : f = Updated(Top, m)
    OBVIOUS
  <2>2. frames' = [frames EXCEPT ![Len(frames)] = f]
    BY <1>4, <1>9, <2>1 DEF Install, Continue
  <2>3. f.method = Top.method /\ f.next = m.next
    BY <1>4, <2>1 DEF Updated, HoldsLatest
  <2>4. /\ DOMAIN frames' = DOMAIN frames /\ Len(frames') = Len(frames)
        /\ Top' = f /\ \A k \in DOMAIN frames : k # Len(frames) => frames'[k] = frames[k]
    BY <1>3, <1>4, <2>2 DEF Top, AllHold
  <2>5. ASSUME NEW k \in DOMAIN frames
        PROVE  /\ frames'[k].method = frames[k].method
               /\ frames[k].method \in DOMAIN Methods
               /\ k < Len(frames) => HasCalled(frames[k].method)
    BY <1>4, <2>2, <2>3, <2>4 DEF Interpreting, IdsHold
  <2>6. ASSUME NEW k \in DOMAIN frames', k < Len(frames')
        PROVE  HasCalled(frames[k].method)'
    <3>1. PICK name \in DOMAIN Methods : name = frames[k].method /\ HasCalled(name)
      BY <2>4, <2>5, <2>6
    <3>2. HasCalled(name)'
      BY <1>3, <3>1, CalledStays
    <3>3. frames'[k].method = name
      BY <2>4, <2>5, <3>1
    <3>4. QED
      BY <3>2, <3>3 DEF HasCalled
  <2>7. HasCalled(Top.method)' \/ \A id \in DOMAIN heap' : id < Top'.next
    <3>1. CASE HasCalled(Top.method)
      <4>1. PICK name \in DOMAIN Methods : name = Top.method /\ HasCalled(name)
        BY <1>5, <3>1
      <4>2. HasCalled(name)'
        BY <1>3, <4>1, CalledStays
      <4>3. Top'.method = name
        BY <2>3, <2>4, <4>1
      <4>4. QED
        BY <4>2, <4>3 DEF HasCalled
    <3>2. CASE ~HasCalled(Top.method)
      BY <1>1, <1>6, <2>3, <2>4, <3>2 DEF OwnsIds
    <3>3. QED
      BY <3>1, <3>2
  <2>8. QED
    BY <1>2, <1>3, <1>7, <2>4, <2>5, <2>6, <2>7 DEF IdsKept, IdsHold, Methods
<1>10. QED
  BY <1>8, <1>9

LEMMA CallsStay ==
  ASSUME Interpreting, Remembers
  PROVE  \A name \in DOMAIN Methods : HasCalled(name) => HasCalled(name)'
<1>1. DOMAIN code = DOMAIN Methods
  BY DEF Interpreting, IdsHold
<1>2. QED
  BY <1>1, CalledStays

LEMMA CallMade ==
  ASSUME Interpreting, NEW i, Decodes(i), i.op \in Calls, i.name \in DOMAIN Methods,
         NEW name, name = Top.method
  PROVE  HasCalled(name)'
<1>1. /\ apk' = apk /\ Top.pc \in DOMAIN code'[name] /\ code'[name][Top.pc] = i
  BY DecodesRemembers DEF Remembers
<1>2. PICK pc : pc = Top.pc
  OBVIOUS
<1>3. pc \in DOMAIN code'[name] /\ code'[name][pc] = i
  BY <1>1, <1>2
<1>4. QED
  BY <1>1, <1>3 DEF HasCalled, Methods

LEMMA EnterKeepsIds ==
  ASSUME Interpreting, NEW i, Decodes(i), i.op \in Calls, Enter(i)
  PROVE  IdsKept
<1>1. /\ Remembers /\ apk' = apk /\ DOMAIN code' = DOMAIN code
      /\ DOMAIN code = DOMAIN Methods
  BY DecodesRemembers DEF Remembers, Interpreting, IdsHold
<1>2. CASE MethodBlocker(i.name) # "code"
  <2>1. PICK blocker : Conclude(blocker) /\ UNCHANGED <<heap, lost>>
    BY <1>2 DEF Enter, Refuse
  <2>2. QED
    BY <1>1, <2>1, ConcludeKeepsIds
<1>3. AllHold(frames) /\ frames # <<>>
  BY DEF Interpreting, FramesHold
<1>4. /\ Len(frames) \in Nat /\ DOMAIN frames = 1 .. Len(frames)
      /\ Len(frames) \in DOMAIN frames
  BY <1>3, FramesAreNumbered
<1>5. \A k \in DOMAIN frames : frames[k].method \in DOMAIN Methods
  BY DEF Interpreting, IdsHold
<1>6. CASE MethodBlocker(i.name) = "code" /\ ~(Len(frames) < MaxFrames)
  <2>1. dexPhase' = "crashed" /\ UNCHANGED <<frames, heap, lost>>
    BY <1>6 DEF Enter, Deeper
  <2>2. \A k \in DOMAIN frames : k < Len(frames) => HasCalled(frames[k].method)
    BY DEF Interpreting, IdsHold
  <2>3. ASSUME NEW k \in DOMAIN frames, k < Len(frames)
        PROVE  HasCalled(frames[k].method)'
    <3>1. PICK name \in DOMAIN Methods : name = frames[k].method
      BY <1>5
    <3>2. HasCalled(name)'
      BY <1>1, <2>2, <2>3, <3>1, CallsStay
    <3>3. frames'[k].method = name
      BY <2>1, <3>1
    <3>4. QED
      BY <3>2, <3>3 DEF HasCalled
  <2>4. BoundedIds(DOMAIN heap')
    BY <2>1 DEF Interpreting, IdsHold
  <2>5. QED
    BY <1>1, <1>5, <2>1, <2>3, <2>4 DEF IdsKept, IdsHold, Methods
<1>7. CASE MethodBlocker(i.name) = "code" /\ Len(frames) < MaxFrames
  <2>1. PICK f : f = InlineFrame(i.name, Passed(i))
    OBVIOUS
  <2>2. f.method = i.name /\ f.next = FirstFreeId
    BY <2>1 DEF InlineFrame, Frame
  <2>3. i.name \in DOMAIN Methods
    BY <1>7 DEF MethodBlocker
  <2>4. frames' = Append(frames, f) /\ UNCHANGED <<dexPhase, heap, lost>>
    BY <1>7, <2>1 DEF Enter, Deeper
  <2>5. PICK S : S = {frames[k] : k \in DOMAIN frames} \cup {f}
    OBVIOUS
  <2>6. frames \in Seq(S) /\ f \in S
    BY <1>3, <2>5 DEF AllHold
  <2>7. /\ DOMAIN frames' = 1 .. Len(frames) + 1 /\ Len(frames') = Len(frames) + 1
        /\ frames'[Len(frames) + 1] = f
        /\ \A k \in DOMAIN frames : frames'[k] = frames[k]
    BY <1>4, <2>4, <2>6
  <2>8. Top' = f
    BY <2>7 DEF Top
  <2>9. ASSUME NEW k \in DOMAIN frames' PROVE frames'[k].method \in DOMAIN Methods
    BY <1>4, <1>5, <2>2, <2>3, <2>7
  <2>10. ASSUME NEW k \in DOMAIN frames', k < Len(frames')
         PROVE  HasCalled(frames[k].method)'
    <3>1. k \in DOMAIN frames /\ frames'[k] = frames[k]
      BY <1>4, <2>7, <2>10
    <3>2. PICK name \in DOMAIN Methods : name = frames[k].method
      BY <1>5, <3>1
    <3>3. CASE k < Len(frames)
      <4>1. HasCalled(name)
        BY <3>1, <3>2, <3>3 DEF Interpreting, IdsHold
      <4>2. HasCalled(name)'
        BY <1>1, <4>1, CallsStay
      <4>3. QED
        BY <3>1, <3>2, <4>2 DEF HasCalled
    <3>4. CASE k = Len(frames)
      <4>1. name = Top.method
        BY <3>2, <3>4 DEF Top
      <4>2. HasCalled(name)'
        BY <2>3, <4>1, CallMade
      <4>3. QED
        BY <3>1, <3>2, <4>2 DEF HasCalled
    <3>5. QED
      BY <1>4, <3>1, <3>3, <3>4
  <2>11. BoundedIds(DOMAIN heap') /\ \A id \in DOMAIN heap' : id < Top'.next
    BY <2>2, <2>4, <2>8, FirstIdFree DEF Interpreting, IdsHold
  <2>12. QED
    BY <1>1, <2>4, <2>9, <2>10, <2>11 DEF IdsKept, IdsHold, Methods
<1>8. QED
  BY <1>2, <1>6, <1>7

LEMMA ReturnKeepsIds == ASSUME Interpreting, InlineReturn PROVE IdsKept
<1>1. PICK i, result :
        /\ Decodes(i)
        /\ heap' = ReturnMachine(i).heap /\ lost' = ReturnMachine(i).lost
        /\ frames' = Append(SubSeq(frames, 1, Len(frames) - 2),
                            HandOver(Caller, Top.method, result))
  BY DEF InlineReturn
<1>2. /\ Remembers /\ apk' = apk /\ DOMAIN code' = DOMAIN code
      /\ DOMAIN code = DOMAIN Methods
  BY <1>1, DecodesRemembers DEF Remembers, Interpreting, IdsHold
<1>3. Sound(ReturnMachine(i), Machine)
  BY TopSound, MaterializeSound DEF ReturnMachine
<1>4. BoundedIds(DOMAIN heap')
  BY <1>1, <1>3 DEF Sound
<1>5. lost' # lost => HasCalled(Top.method)
  <2>1. ~HasCalled(Top.method) => OwnsIds(Machine)
    BY DEF Interpreting, IdsHold, OwnsIds, Machine
  <2>2. Machine.lost = lost
    BY DEF Machine
  <2>3. QED
    BY <1>1, <1>3, <2>1, <2>2 DEF Sound
<1>6. AllHold(frames) /\ frames # <<>> /\ Len(frames) # 1
  BY DEF Interpreting, FramesHold, InlineReturn, InProbe
<1>7. Len(frames) \in Nat /\ Len(frames) >= 2 /\ DOMAIN frames = 1 .. Len(frames)
  <2>1. Len(frames) \in Nat /\ Len(frames) >= 1 /\ DOMAIN frames = 1 .. Len(frames)
    BY <1>6, FramesAreNumbered
  <2>2. QED
    BY <1>6, <2>1
<1>8. PICK n \in Nat : n = Len(frames) - 2
  <2>1. Len(frames) - 2 \in Nat
    BY <1>7
  <2>2. QED
    BY <2>1
<1>9. PICK f : f = HandOver(Caller, Top.method, result)
  OBVIOUS
<1>10. f.method = Caller.method
  <2>1. HoldsLatest(Caller)
    BY <1>6, <1>7 DEF AllHold, Caller
  <2>2. QED
    BY <1>9, <2>1 DEF HandOver, WithResult, Advance, Goto
<1>11. PICK gs : gs = SubSeq(frames, 1, n)
  OBVIOUS
<1>12. /\ AllHold(gs) /\ DOMAIN gs = 1 .. n /\ Len(gs) = n
       /\ \A k \in 1 .. n : gs[k] = frames[k]
  BY <1>6, <1>7, <1>8, <1>11, FirstHold
<1>13. PICK S : S = {gs[k] : k \in DOMAIN gs} \cup {f}
  OBVIOUS
<1>14. gs \in Seq(S) /\ f \in S /\ frames' = Append(gs, f)
  BY <1>1, <1>8, <1>9, <1>11, <1>12, <1>13 DEF AllHold
<1>15. /\ DOMAIN frames' = 1 .. n + 1 /\ Len(frames') = n + 1 /\ frames'[n + 1] = f
       /\ \A k \in 1 .. n : frames'[k] = frames[k]
  BY <1>12, <1>14
<1>16. /\ \A k \in 1 .. n + 1 : k \in DOMAIN frames /\ k < Len(frames)
       /\ Caller = frames[n + 1]
  BY <1>7, <1>8 DEF Caller
<1>17. ASSUME NEW k \in DOMAIN frames' PROVE frames'[k].method = frames[k].method
  <2>1. k \in 1 .. n \/ k = n + 1
    BY <1>15
  <2>2. QED
    BY <1>10, <1>15, <1>16, <2>1
<1>18. ASSUME NEW k \in DOMAIN frames'
       PROVE  /\ frames'[k].method \in DOMAIN Methods
              /\ HasCalled(frames[k].method)'
  <2>1. k \in DOMAIN frames /\ k < Len(frames)
    BY <1>15, <1>16
  <2>2. PICK name \in DOMAIN Methods : name = frames[k].method /\ HasCalled(name)
    BY <2>1 DEF Interpreting, IdsHold
  <2>3. HasCalled(name)' /\ frames'[k].method = name
    BY <1>2, <1>17, <2>2, CallsStay
  <2>4. QED
    BY <2>3 DEF HasCalled
<1>19. HasCalled(Top.method)'
  <2>1. n + 1 \in DOMAIN frames' /\ Len(frames') = n + 1
    BY <1>8, <1>15
  <2>2. QED
    BY <1>18, <2>1 DEF Top
<1>20. QED
  BY <1>2, <1>4, <1>5, <1>18, <1>19 DEF IdsKept, IdsHold, Methods

LEMMA InvokeKeepsIds ==
  ASSUME Interpreting, InvokeSuper \/ InvokeStatic \/ InvokeStaticRange \/ InvokeDirect
  PROVE  IdsKept
<1>1. PICK i : /\ Decodes(i) /\ i.op \in Calls
               /\ \/ RefuseCall(i) \/ Enter(i)
                  \/ i.name \in Frameworks /\ Install(SuperStub(Machine, i))
                  \/ Refuse("framework_boundary_unimplemented")
                  \/ Refuse("invoke_static_unimplemented")
  BY DEF InvokeSuper, InvokeStatic, InvokeStaticRange, InvokeDirect, Calls
<1>2. Remembers
  BY <1>1, DecodesRemembers
<1>3. CASE Enter(i)
  BY <1>1, <1>3, EnterKeepsIds
<1>4. CASE i.name \in Frameworks /\ Install(SuperStub(Machine, i))
  <2>1. Sound(SuperStub(Machine, i), Machine)
    BY <1>4, TopSound, CallsSound
  <2>2. QED
    BY <1>2, <1>4, <2>1, InstallKeepsIds
<1>5. ASSUME NEW blocker, Refuse(blocker) PROVE IdsKept
  BY <1>2, <1>5, ConcludeKeepsIds DEF Refuse
<1>6. QED
  BY <1>1, <1>3, <1>4, <1>5 DEF RefuseCall

LEMMA InlineCallKeepsIds ==
  ASSUME Interpreting, InlineInvokeDirect \/ InlineInvoke \/ InlineInvokeRange
  PROVE  IdsKept
<1>1. PICK i : /\ Decodes(i) /\ i.op \in Calls
               /\ RefuseCall(i) \/ ExecuteOrStub(i)
  BY DEF InlineInvokeDirect, InlineInvoke, InlineInvokeRange, InlineCall, Calls
<1>2. Remembers
  BY <1>1, DecodesRemembers
<1>3. PICK m : m = Stub(Machine, i.name, Passed(i))
  OBVIOUS
<1>4. CASE RefuseCall(i)
  BY <1>2, <1>4, ConcludeKeepsIds DEF RefuseCall, Refuse
<1>5. CASE ExecuteOrStub(i) /\ i.name \notin Stubbed
  BY <1>1, <1>5, EnterKeepsIds DEF ExecuteOrStub
<1>6. CASE ExecuteOrStub(i) /\ i.name \in Stubbed
  <2>1. Sound(m, Machine)
    BY <1>3, <1>6, TopSound, StubSound
  <2>2. Sound(WithResult(m, i.name, m.result), Machine)
    BY <2>1, ResultHolds DEF Sound
  <2>3. PICK n : n = IF m.stop # "none" THEN m ELSE WithResult(m, i.name, m.result)
    OBVIOUS
  <2>4. Install(n) /\ Sound(n, Machine)
    BY <1>3, <1>6, <2>1, <2>2, <2>3 DEF ExecuteOrStub
  <2>5. QED
    BY <1>2, <2>4, InstallKeepsIds
<1>7. QED
  BY <1>1, <1>4, <1>5, <1>6

LEMMA InstructionKeepsIds ==
  ASSUME Interpreting, ProbeInstruction \/ InlineInstruction
  PROVE  IdsKept
<1>1. PICK i : /\ Decodes(i)
               /\ \/ Install(ProbeStep(Machine, i, Len(Body)))
                  \/ Install(InlineStep(Machine, i, Len(Body)))
  BY DEF ProbeInstruction, InlineInstruction
<1>2. /\ Sound(ProbeStep(Machine, i, Len(Body)), Machine)
      /\ Sound(InlineStep(Machine, i, Len(Body)), Machine)
  BY TopSound, StepSound
<1>3. QED
  BY <1>1, <1>2, DecodesRemembers, InstallKeepsIds

LEMMA EndKeepsIds ==
  ASSUME Interpreting, FallOffEnd \/ ReturnOutOfRange \/ ProbeReturn
  PROVE  IdsKept
<1>1. PICK blocker : Conclude(blocker) /\ UNCHANGED <<heap, lost>>
  BY DEF FallOffEnd, ReturnOutOfRange, ProbeReturn
<1>2. Remembers
  <2>1. CASE FallOffEnd
    BY <2>1 DEF FallOffEnd, Remembers
  <2>2. CASE ReturnOutOfRange \/ ProbeReturn
    <3>1. PICK i : Decodes(i)
      BY <2>2 DEF ReturnOutOfRange, ProbeReturn
    <3>2. QED
      BY <3>1, DecodesRemembers
  <2>3. QED
    BY <2>1, <2>2
<1>3. QED
  BY <1>1, <1>2, ConcludeKeepsIds

LEMMA InterpretKeepsIds ==
  ASSUME FramesHold, IdsHold, MethodsKnown, Interpret PROVE IdsKept
<1>1. Interpreting
  BY DEF Interpreting, Interpret
<1>2. QED
  BY <1>1, InstructionKeepsIds, InvokeKeepsIds, InlineCallKeepsIds, ReturnKeepsIds,
     EndKeepsIds DEF Interpret
--------------------------------------------------------------------------------
(* What an APK's files and methods answer.                                         *)

LEMMA ApkKnown ==
  ASSUME apk \in Apks
  PROVE  /\ apk.files \in Seq(DexFiles) /\ MethodsKnown
         /\ Len(apk.files) \in Nat /\ DOMAIN apk.files = 1 .. Len(apk.files)
         /\ \A k \in DOMAIN apk.files :
              apk.files[k] \in DexFiles /\ Range(apk.files[k].defines) \subseteq DOMAIN Methods
<1>1. apk.files \in Seq(DexFiles) /\ MethodsKnown
      /\ \A k \in DOMAIN apk.files : Range(apk.files[k].defines) \subseteq DOMAIN Methods
  BY DexAssumption DEF MethodsKnown, Methods
<1>2. QED
  BY <1>1

(* No damage and no method is called class_missing.                                *)
LEMMA TableErrorNamed ==
  ASSUME NEW file \in DexFiles, ~TablesParse(file)
  PROVE  FirstTableError(file) # "class_missing"
<1> DEFINE found == {k \in DOMAIN TableErrors : TableErrors[k] \in file.damage}
<1>1. file.damage \subseteq Range(TableErrors) /\ file.damage # {}
  BY DEF DexFiles, TablesParse
<1>2. DOMAIN TableErrors = 1 .. 6
  BY DEF TableErrors
<1>3. found # {}
  BY <1>1 DEF Range
<1>4. found \in SUBSET Nat
  BY <1>2
<1>5. Min(found) \in 1 .. 6
  BY <1>2, <1>3, <1>4, MinIsLeast
<1> HIDE DEF found
<1>6. TableErrors[Min(found)] # "class_missing"
  BY <1>5 DEF TableErrors
<1>7. QED
  BY <1>6 DEF FirstTableError, found

LEMMA EntrypointKnown ==
  ASSUME apk \in Apks, NEW k \in DOMAIN apk.files, Candidates(apk.files[k]) # {}
  PROVE  Entrypoint(apk.files[k]) \in DOMAIN Methods
<1>1. PICK file : file = apk.files[k]
  OBVIOUS
<1>2. file.defines \in Seq(STRING) /\ Range(file.defines) \subseteq DOMAIN Methods
  BY <1>1, ApkKnown DEF DexFiles
<1>3. Candidates(file) \in SUBSET Nat /\ Candidates(file) \subseteq DOMAIN file.defines
  BY <1>2 DEF Candidates
<1>4. Min(Candidates(file)) \in DOMAIN file.defines
  BY <1>1, <1>3, MinIsLeast
<1>5. QED
  BY <1>1, <1>2, <1>4 DEF Entrypoint, Range

LEMMA LookupNamed ==
  ASSUME apk \in Apks, NEW k \in DOMAIN apk.files
  PROVE  LookupBlocker(apk.files[k]) # "class_missing"
<1>1. PICK file : file = apk.files[k]
  OBVIOUS
<1>2. CASE file.class = "no_data" \/ Candidates(file) = {}
  BY <1>1, <1>2 DEF LookupBlocker
<1>3. CASE file.class # "no_data" /\ Candidates(file) # {}
  <2>1. Methods[Entrypoint(file)].state \in MethodStates
    BY <1>1, <1>3, EntrypointKnown, ApkKnown DEF MethodsKnown
  <2>2. QED
    BY <1>1, <1>3, <2>1 DEF LookupBlocker, MethodStates
<1>4. QED
  BY <1>2, <1>3

--------------------------------------------------------------------------------
(* The answer so far.                                                             *)

Parses(file) == file.access = "ok" /\ TablesParse(file)
Seen == IF dexPhase = "interpreting" THEN fileAt ELSE fileAt - 1

(* Only the first file that decides answers, and only a file that is no DEX file    *)
(* or cannot be read counts as an error.  Before the answer nothing has been run.   *)
Answered ==
  /\ report.errors <=> \E k \in 1 .. fileAt - 1 : ~Parses(apk.files[k])
  /\ report.by = 0 => \A k \in 1 .. Seen : k \notin Deciding
  /\ report.by # 0 =>
       report.by \in Deciding /\ report.by <= Seen /\ \A k \in Deciding : report.by <= k
  /\ report.by = 0 => lost = {}
  /\ report.blocker # "class_missing"
  /\ report.returned => /\ report.blocker = "none" /\ report.by # 0
                        /\ TablesParse(apk.files[report.by])
  /\ dexPhase = "interpreting" =>
       fileAt \in DOMAIN apk.files /\ Parses(File) /\ report.by = fileAt

FilesKept ==
  /\ apk \in Apks
  /\ DOMAIN report = {"ready", "staged", "errors", "by", "blocker", "returned"}
  /\ report.errors \in BOOLEAN /\ report.returned \in BOOLEAN
  /\ fileAt \in 1 .. Len(apk.files) + 1
  /\ dexPhase \in {"staging", "interpreting"} => Answered
  /\ ProofTellsItsFiles

DexIInv == FramesHold /\ IdsHold /\ FilesKept

LEMMA InitDexIInv == ASSUME DexInit PROVE DexIInv
<1>1. FramesHold
  BY NoFrameHolds DEF DexInit, FramesHold
<1>2. IdsHold
  <2>1. DOMAIN frames = {} /\ DOMAIN heap = {}
    BY DEF DexInit
  <2>2. QED
    BY <2>1 DEF DexInit, IdsHold, BoundedIds, Methods
<1>3. Len(apk.files) \in Nat /\ apk \in Apks
  BY ApkKnown DEF DexInit
<1>4. FilesKept
  BY <1>3 DEF DexInit, FilesKept, Answered, NoReport, Seen, ProofTellsItsFiles
<1>5. QED
  BY <1>1, <1>2, <1>4 DEF DexIInv

(* A run that ends hands its blocker to the report, whatever file it was.           *)
LEMMA InterpretKeepsFiles ==
  ASSUME FilesKept, dexPhase = "interpreting", Outcome PROVE FilesKept'
<1>1. /\ apk' = apk /\ Answered /\ fileAt \in DOMAIN apk.files
      /\ Parses(File) /\ report.by = fileAt
  BY DEF FilesKept, Answered, Outcome
<1>2. Len(apk.files) \in Nat /\ DOMAIN apk.files = 1 .. Len(apk.files)
  BY ApkKnown DEF FilesKept
<1>3. Deciding' = Deciding
  BY <1>1 DEF Deciding, TablesParse
<1>4. CASE UNCHANGED <<fileAt, dexPhase, report>>
  BY <1>1, <1>3, <1>4
     DEF FilesKept, Answered, Seen, ProofTellsItsFiles, Parses, TablesParse, File
<1>5. CASE dexPhase' = "crashed" /\ UNCHANGED <<fileAt, report>>
  BY <1>1, <1>5 DEF FilesKept, ProofTellsItsFiles
<1>6. ASSUME NEW blocker, blocker # "class_missing", Conclude(blocker)
      PROVE  FilesKept'
  <2>1. /\ report' = [report EXCEPT !.blocker = blocker, !.returned = blocker = "none"]
        /\ dexPhase' = "staging" /\ fileAt' = fileAt + 1
    BY <1>6 DEF Conclude
  <2>2. /\ DOMAIN report' = DOMAIN report /\ report'.by = report.by
        /\ report'.errors = report.errors /\ report'.blocker = blocker
        /\ report'.returned \in BOOLEAN /\ report'.returned => blocker = "none"
    BY <2>1 DEF FilesKept
  <2>3. (\E k \in 1 .. fileAt : ~Parses(apk.files[k]))
          <=> (\E k \in 1 .. fileAt - 1 : ~Parses(apk.files[k]))
    BY <1>1, <1>2 DEF File
  <2>4. Seen = fileAt /\ Seen' = fileAt
    BY <1>1, <1>2, <2>1 DEF Seen
  <2>5. TablesParse(apk.files[report.by]) /\ fileAt # 0
    BY <1>1, <1>2 DEF Parses, File
  <2>6. Answered'
    BY <1>1, <1>2, <1>3, <1>6, <2>1, <2>2, <2>3, <2>4, <2>5
       DEF Answered, Parses, TablesParse
  <2>7. QED
    BY <1>1, <1>2, <2>1, <2>2, <2>6 DEF FilesKept, ProofTellsItsFiles
<1>7. QED
  BY <1>4, <1>5, <1>6 DEF Outcome

(* The next file is looked at in turn; it answers if it is the first to decide.     *)
LEMMA NextFile ==
  ASSUME FilesKept, Staging, apk' = apk, fileAt' = fileAt + 1,
         dexPhase' = dexPhase, lost' = lost,
         DOMAIN report' = DOMAIN report, report'.returned = report.returned,
         report'.errors \in BOOLEAN,
         report'.errors <=> report.errors \/ ~Parses(File),
         report'.by = IF Resolved \/ fileAt \notin Deciding THEN report.by ELSE fileAt,
         Resolved => report'.blocker = report.blocker,
         report'.blocker # "class_missing"
  PROVE  FilesKept'
<1>1. /\ Answered /\ dexPhase = "staging" /\ fileAt <= Len(apk.files)
      /\ fileAt \in 1 .. Len(apk.files) + 1
      /\ report.errors \in BOOLEAN /\ report.returned \in BOOLEAN
  BY DEF FilesKept, Staging
<1>2. /\ Len(apk.files) \in Nat /\ DOMAIN apk.files = 1 .. Len(apk.files)
      /\ fileAt \in DOMAIN apk.files
  BY <1>1, ApkKnown DEF FilesKept
<1>3. Deciding' = Deciding /\ Deciding \subseteq DOMAIN apk.files
  BY DEF Deciding, TablesParse
<1>4. Seen = fileAt - 1 /\ Seen' = fileAt
  BY <1>1, <1>2 DEF Seen
<1>5. report'.errors <=> \E k \in 1 .. fileAt : ~Parses(apk.files[k])
  <2>1. report.errors <=> \E k \in 1 .. fileAt - 1 : ~Parses(apk.files[k])
    BY <1>1 DEF Answered
  <2>2. 1 .. fileAt = (1 .. fileAt - 1) \cup {fileAt}
    BY <1>1, <1>2
  <2>3. (\E k \in 1 .. fileAt : ~Parses(apk.files[k]))
          <=> ~Parses(File) \/ \E k \in 1 .. fileAt - 1 : ~Parses(apk.files[k])
    BY <2>2 DEF File
  <2>4. QED
    BY <2>1, <2>3
<1>6. report.by = 0 => \A k \in Deciding : fileAt <= k
  BY <1>1, <1>2, <1>3, <1>4 DEF Answered
<1>7. report'.by = 0 => \A k \in 1 .. fileAt : k \notin Deciding
  BY <1>1, <1>2, <1>4 DEF Answered, Resolved
<1>8. report'.by # 0 => /\ report'.by \in Deciding /\ report'.by <= fileAt
                        /\ \A k \in Deciding : report'.by <= k
  BY <1>1, <1>2, <1>3, <1>4, <1>6 DEF Answered, Resolved
<1>9. report'.returned => /\ report'.blocker = "none" /\ report'.by # 0
                          /\ TablesParse(apk.files[report'.by])
  BY <1>1 DEF Answered, Resolved
<1>10. fileAt' - 1 = fileAt /\ dexPhase' = "staging" /\ fileAt' \in 1 .. Len(apk.files) + 1
  BY <1>1, <1>2
<1>11. report'.by = 0 => lost' = {}
  BY <1>1, <1>2 DEF Answered
<1>12. Answered'
  BY <1>3, <1>4, <1>5, <1>7, <1>8, <1>9, <1>10, <1>11 DEF Answered, Parses, TablesParse
<1>13. QED
  BY <1>1, <1>10, <1>12 DEF FilesKept, ProofTellsItsFiles

LEMMA StagingFacts ==
  ASSUME FilesKept, Staging
  PROVE  /\ fileAt \in DOMAIN apk.files /\ File \in DexFiles /\ fileAt # 0
         /\ report.errors \in BOOLEAN /\ report.blocker # "class_missing"
         /\ DOMAIN report = {"ready", "staged", "errors", "by", "blocker", "returned"}
         /\ fileAt \in Deciding <=> /\ File.access = "ok"
                                    /\ ~TablesParse(File) \/ File.class # "missing"
  BY ApkKnown DEF FilesKept, Answered, Staging, File, Deciding

LEMMA SkipFileKeeps == ASSUME FilesKept, SkipFile PROVE FilesKept'
<1>1. Staging /\ File.access # "ok"
  BY DEF SkipFile, AccessErrors, HeaderErrors
<1>2. fileAt \notin Deciding /\ ~Parses(File)
  BY <1>1, StagingFacts DEF Parses
<1>3. /\ DOMAIN report' = DOMAIN report /\ report'.returned = report.returned
      /\ report'.errors = TRUE /\ report'.by = report.by
      /\ report'.blocker = report.blocker
  BY <1>1, StagingFacts DEF SkipFile
<1>4. apk' = apk /\ fileAt' = fileAt + 1 /\ dexPhase' = dexPhase /\ lost' = lost
  BY DEF SkipFile, MachineUnchanged
<1>5. report'.errors \in BOOLEAN /\ (report'.errors <=> report.errors \/ ~Parses(File))
  BY <1>2, <1>3
<1>6. QED
  BY <1>1, <1>2, <1>3, <1>4, <1>5, StagingFacts, NextFile

LEMMA RejectTablesKeeps == ASSUME FilesKept, RejectTables PROVE FilesKept'
<1>1. Staging /\ File.access = "ok" /\ ~TablesParse(File)
  BY DEF RejectTables
<1>2. fileAt \in Deciding /\ ~Parses(File) /\ FirstTableError(File) # "class_missing"
  BY <1>1, StagingFacts, TableErrorNamed DEF Parses
<1>3. /\ DOMAIN report' = DOMAIN report /\ report'.returned = report.returned
      /\ report'.errors = TRUE
      /\ report'.by = IF Resolved THEN report.by ELSE fileAt
      /\ report'.blocker = IF Resolved THEN report.blocker ELSE FirstTableError(File)
  BY <1>1, StagingFacts DEF RejectTables
<1>4. apk' = apk /\ fileAt' = fileAt + 1 /\ dexPhase' = dexPhase /\ lost' = lost
  BY DEF RejectTables, MachineUnchanged
<1>5. report'.errors \in BOOLEAN /\ (report'.errors <=> report.errors \/ ~Parses(File))
  BY <1>2, <1>3
<1>6. /\ report'.blocker # "class_missing"
      /\ Resolved => report'.blocker = report.blocker
      /\ report'.by = IF Resolved \/ fileAt \notin Deciding THEN report.by ELSE fileAt
  BY <1>1, <1>2, <1>3, StagingFacts
<1>7. QED
  BY <1>1, <1>3, <1>4, <1>5, <1>6, NextFile

LEMMA PassFileKeeps == ASSUME FilesKept, PassFile PROVE FilesKept'
<1>1. Staging /\ File.access = "ok" /\ TablesParse(File) /\ (Resolved \/ File.class = "missing")
  BY DEF PassFile, LooksUp, GoesOn
<1>2. (Resolved \/ fileAt \notin Deciding) /\ Parses(File)
  BY <1>1, StagingFacts DEF Parses
<1>3. /\ DOMAIN report' = DOMAIN report /\ report'.returned = report.returned
      /\ report'.errors = report.errors /\ report'.by = report.by
      /\ report'.blocker = report.blocker
  BY <1>1, StagingFacts DEF PassFile, Recorded
<1>4. apk' = apk /\ fileAt' = fileAt + 1 /\ dexPhase' = dexPhase /\ lost' = lost
  BY DEF PassFile, MachineUnchanged
<1>5. report'.errors \in BOOLEAN /\ (report'.errors <=> report.errors \/ ~Parses(File))
  BY <1>1, <1>2, <1>3, StagingFacts
<1>6. QED
  BY <1>1, <1>2, <1>3, <1>4, <1>5, StagingFacts, NextFile

LEMMA BlockLookupKeeps == ASSUME FilesKept, BlockLookup PROVE FilesKept'
<1>1. /\ Staging /\ File.access = "ok" /\ TablesParse(File) /\ ~Resolved
      /\ File.class # "missing"
  BY DEF BlockLookup, LooksUp, GoesOn
<1>2. fileAt \in Deciding /\ Parses(File)
  BY <1>1, StagingFacts DEF Parses
<1>3. LookupBlocker(File) # "class_missing"
  BY <1>1, StagingFacts, LookupNamed DEF FilesKept, File
<1>4. /\ DOMAIN report' = DOMAIN report /\ report'.returned = report.returned
      /\ report'.errors = report.errors /\ report'.by = fileAt
      /\ report'.blocker = LookupBlocker(File)
  BY <1>1, StagingFacts DEF BlockLookup, Recorded
<1>5. apk' = apk /\ fileAt' = fileAt + 1 /\ dexPhase' = dexPhase /\ lost' = lost
  BY DEF BlockLookup, MachineUnchanged
<1>6. report'.errors \in BOOLEAN /\ (report'.errors <=> report.errors \/ ~Parses(File))
  BY <1>1, <1>2, <1>4, StagingFacts
<1>7. QED
  BY <1>1, <1>2, <1>3, <1>4, <1>5, <1>6, NextFile

(* The file is answered for before its method runs.                                *)
LEMMA EnterProbeKeeps == ASSUME FilesKept, EnterProbe PROVE FilesKept'
<1>1. /\ Staging /\ File.access = "ok" /\ TablesParse(File) /\ ~Resolved
      /\ File.class # "missing"
  BY DEF EnterProbe, LooksUp, GoesOn
<1>2. fileAt \in Deciding /\ Parses(File)
  BY <1>1, StagingFacts DEF Parses
<1>3. /\ DOMAIN report' = DOMAIN report /\ report'.returned = report.returned
      /\ report'.errors = report.errors /\ report'.by = fileAt
      /\ report'.blocker = report.blocker
  BY <1>1, StagingFacts DEF EnterProbe, Recorded
<1>4. apk' = apk /\ fileAt' = fileAt /\ dexPhase' = "interpreting"
  BY DEF EnterProbe
<1>5. /\ Answered /\ dexPhase = "staging" /\ report.by = 0
      /\ fileAt \in 1 .. Len(apk.files) + 1
      /\ report.errors \in BOOLEAN /\ report.returned \in BOOLEAN
  BY <1>1 DEF FilesKept, Staging, Resolved
<1>6. /\ Len(apk.files) \in Nat /\ DOMAIN apk.files = 1 .. Len(apk.files)
      /\ fileAt \in DOMAIN apk.files
  BY <1>1, StagingFacts, ApkKnown DEF FilesKept
<1>7. Deciding' = Deciding /\ Deciding \subseteq DOMAIN apk.files
  BY <1>4 DEF Deciding, TablesParse
<1>8. Seen = fileAt - 1 /\ Seen' = fileAt
  BY <1>4, <1>5 DEF Seen
<1>9. \A k \in Deciding : fileAt <= k
  BY <1>5, <1>6, <1>7, <1>8 DEF Answered
<1>10. ~report'.returned /\ report'.blocker # "class_missing"
  BY <1>3, <1>5 DEF Answered
<1>11. fileAt' \in DOMAIN apk'.files /\ Parses(File)' /\ report'.by = fileAt' /\ fileAt' # 0
  BY <1>2, <1>3, <1>4, <1>6 DEF Parses, TablesParse, File
<1>12. report'.errors <=> \E k \in 1 .. fileAt' - 1 : ~Parses(apk.files[k])
  BY <1>3, <1>4, <1>5 DEF Answered
<1>13. Answered'
  BY <1>2, <1>3, <1>4, <1>6, <1>7, <1>8, <1>9, <1>10, <1>11, <1>12
     DEF Answered, Parses, TablesParse
<1>14. QED
  BY <1>3, <1>4, <1>5, <1>13 DEF FilesKept, ProofTellsItsFiles

LEMMA FinishProofKeeps == ASSUME FilesKept, FinishProof PROVE FilesKept'
<1>1. /\ Answered /\ dexPhase = "staging" /\ fileAt = Len(apk.files) + 1
      /\ Len(apk.files) \in Nat /\ DOMAIN apk.files = 1 .. Len(apk.files)
      /\ apk.files \in Seq(DexFiles)
  BY ApkKnown DEF FilesKept, FinishProof
<1>2. /\ DOMAIN report' = DOMAIN report /\ report'.by = report.by
      /\ report'.returned = report.returned
      /\ report'.ready <=> (apk.files # <<>> /\ ~report.errors)
      /\ report'.errors \in BOOLEAN
      /\ report'.blocker = IF Resolved \/ apk.files = <<>> THEN report.blocker
                           ELSE "class_missing"
  BY DEF FilesKept, FinishProof
<1>3. apk' = apk /\ fileAt' = fileAt /\ dexPhase' = "done"
  BY DEF FinishProof
<1>4. Deciding' = Deciding /\ Deciding \subseteq DOMAIN apk.files /\ Seen = Len(apk.files)
  BY <1>1, <1>3 DEF Deciding, TablesParse, Seen
<1>5. report'.ready <=> apk.files # <<>> /\ \A k \in DOMAIN apk.files : Parses(apk.files[k])
  BY <1>1, <1>2 DEF Answered
<1>6. report.by = IF Deciding = {} THEN 0 ELSE Min(Deciding)
  <2>1. CASE report.by = 0
    BY <1>1, <1>4, <2>1 DEF Answered
  <2>2. CASE report.by # 0
    <3>1. Deciding \in SUBSET Nat /\ Deciding # {} /\ report.by \in Deciding
          /\ \A k \in Deciding : report.by <= k
      BY <1>1, <1>4, <2>2 DEF Answered
    <3>2. Min(Deciding) = report.by
      <4>1. /\ Min(Deciding) \in Deciding
            /\ \A k \in Deciding : Min(Deciding) <= k
        BY <3>1, MinIsLeast
      <4>2. report.by <= Min(Deciding) /\ Min(Deciding) <= report.by
        BY <3>1, <4>1
      <4>3. report.by \in Nat /\ Min(Deciding) \in Nat
        BY <3>1, <4>1
      <4>4. QED
        BY <4>2, <4>3
    <3>3. QED
      BY <3>1, <3>2
  <2>3. QED
    BY <2>1, <2>2
<1>7. report.by = 0 <=> Deciding = {}
  BY <1>1, <1>4 DEF Answered
<1>8. report'.blocker = "class_missing" <=> apk.files # <<>> /\ Deciding = {}
  BY <1>1, <1>2, <1>7 DEF Answered, Resolved
<1>9. report'.returned => report'.blocker = "none" /\ TablesParse(apk.files[report'.by])
  BY <1>1, <1>2 DEF Answered, Resolved
<1>10. ProofTellsItsFiles'
  BY <1>2, <1>3, <1>4, <1>5, <1>6, <1>8, <1>9 DEF ProofTellsItsFiles, Parses, TablesParse
<1>11. QED
  BY <1>2, <1>3, <1>10 DEF FilesKept

--------------------------------------------------------------------------------
(* Every step.                                                                    *)

(* The entry point starts with ids of its own.                                      *)
Starts(m) ==
  /\ DOMAIN m = {"regs", "heap", "next", "born", "lost"}
  /\ m.next \in Nat /\ BoundedIds(DOMAIN m.heap) /\ OwnsIds(m) /\ m.lost = {}

LEMMA SetRegBegins ==
  ASSUME NEW m, Starts(m), NEW r, NEW value PROVE Starts(SetReg(m, r, value))
<1>1. PICK n : n = SetReg(m, r, value)
  OBVIOUS
<1>2. DOMAIN n = DOMAIN m /\ n.next = m.next /\ n.heap = m.heap /\ n.lost = m.lost
  BY <1>1 DEF SetReg, Starts
<1>3. Starts(n)
  BY <1>2 DEF Starts, OwnsIds
<1>4. QED
  BY <1>1, <1>3

LEMMA MaterializeBegins ==
  ASSUME NEW m, Starts(m), NEW class PROVE Starts(Materialize(m, class))
<1>1. PICK n : n = Materialize(m, class)
  OBVIOUS
<1>2. m.next \in Nat /\ DOMAIN m.heap \in SUBSET Nat /\ m.next \notin DOMAIN m.heap
  BY DEF Starts, OwnsIds, BoundedIds
<1>3. /\ DOMAIN n = DOMAIN m /\ n.next = m.next + 1 /\ n.lost = m.lost
      /\ DOMAIN n.heap = DOMAIN m.heap \cup {m.next}
  BY <1>1, <1>2 DEF Materialize, MaterializeWith, Put, Starts
<1>4. BoundedIds(DOMAIN n.heap)
  BY <1>2, <1>3, OneMoreId DEF Starts
<1>5. OwnsIds(n)
  BY <1>2, <1>3 DEF OwnsIds, Starts
<1>6. Starts(n)
  BY <1>2, <1>3, <1>4, <1>5 DEF Starts
<1>7. QED
  BY <1>1, <1>6

LEMMA EntryBegins == ASSUME NEW method PROVE Starts(EntryMachine(method))
<1>1. PICK size : size = Max({method.registers, ProbeRegisters})
  OBVIOUS
<1>2. PICK bare : bare = [regs |-> [r \in 0 .. size - 1 |-> Unknown], heap |-> <<>>,
                          next |-> 1, born |-> 0, lost |-> {}]
  OBVIOUS
<1>3. Starts(bare)
  <2>1. DOMAIN bare.heap = {}
    BY <1>2
  <2>2. QED
    BY <1>2, <2>1 DEF Starts, OwnsIds, BoundedIds
<1>4. PICK self : self = SetReg(Materialize(bare, method.class), ReceiverAt(method),
                                Fresh(bare, method.class))
  OBVIOUS
<1>5. Starts(self)
  BY <1>3, <1>4, MaterializeBegins, SetRegBegins
<1>6. Starts(SetReg(Materialize(self, method.params[1]), ParameterAt(method),
                    Fresh(self, method.params[1])))
  BY <1>5, MaterializeBegins, SetRegBegins
<1>7. QED
  BY <1>1, <1>2, <1>4, <1>5, <1>6 DEF EntryMachine

LEMMA EnterProbeHolds ==
  ASSUME FilesKept, IdsHold, EnterProbe PROVE FramesHold' /\ IdsHold' /\ lost' = lost
<1>1. PICK name, m :
        /\ name = Entrypoint(File) /\ m = EntryMachine(Methods[name])
        /\ frames' = <<Frame(name, m.regs, m.next)>>
        /\ heap' = m.heap /\ lost' = m.lost
  BY DEF EnterProbe
<1>2. Starts(m)
  BY <1>1, EntryBegins
<1>3. PICK f : f = Frame(name, m.regs, m.next)
  OBVIOUS
<1>4. f.method = name /\ f.next = m.next /\ HoldsLatest(f)
  BY <1>2, <1>3 DEF Frame, HoldsLatest, NoPending, Starts
<1>5. /\ AllHold(frames') /\ frames' # <<>> /\ Len(frames') = 1
      /\ DOMAIN frames' = {1} /\ frames'[1] = f /\ Top' = f
  BY <1>1, <1>3, <1>4, OneFrameHolds DEF Top
<1>6. FramesHold'
  BY <1>5 DEF FramesHold, AllHold
<1>7. Staging /\ ~Resolved /\ LookupBlocker(File) = "code" /\ File.class # "missing"
      /\ apk' = apk /\ code' = code
  BY DEF EnterProbe, LooksUp, GoesOn
<1>8. name \in DOMAIN Methods
  <2>1. Candidates(File) # {}
    BY <1>7 DEF LookupBlocker
  <2>2. apk \in Apks /\ fileAt \in DOMAIN apk.files
    BY <1>7, StagingFacts DEF FilesKept
  <2>3. QED
    BY <1>1, <2>1, <2>2, EntrypointKnown DEF File
<1>9. IdsHold'
  BY <1>1, <1>2, <1>4, <1>5, <1>7, <1>8 DEF IdsHold, Starts, OwnsIds, Methods
<1>10. lost = {}
  BY <1>7 DEF FilesKept, Answered, Staging, Resolved
<1>11. QED
  BY <1>1, <1>2, <1>6, <1>9, <1>10 DEF Starts

--------------------------------------------------------------------------------
(* Every step.                                                                    *)

Overwrites == lost' # lost => HasCalled(Top.method)

LEMMA StageHolds ==
  ASSUME DexIInv, Stage PROVE DexIInv' /\ Overwrites
<1>1. FilesKept'
  BY SkipFileKeeps, RejectTablesKeeps, PassFileKeeps, BlockLookupKeeps, EnterProbeKeeps,
     FinishProofKeeps DEF Stage, DexIInv
<1>2. CASE EnterProbe
  BY <1>1, <1>2, EnterProbeHolds DEF DexIInv, Overwrites
<1>3. CASE ~EnterProbe
  <2>1. UNCHANGED <<apk, code, frames, heap, lost>> /\ dexPhase' # "interpreting"
    BY <1>3 DEF Stage, SkipFile, RejectTables, PassFile, BlockLookup, FinishProof, Staging,
              LooksUp, MachineUnchanged
  <2>2. FramesHold'
    BY <2>1 DEF DexIInv, FramesHold, AllHold
  <2>3. IdsHold'
    BY <2>1 DEF DexIInv, IdsHold, HasCalled, Methods
  <2>4. QED
    BY <1>1, <2>1, <2>2, <2>3 DEF DexIInv, Overwrites
<1>4. QED
  BY <1>2, <1>3

LEMMA NextDexIInv ==
  ASSUME DexIInv, [DexNext]_dexVars PROVE DexIInv' /\ Overwrites
<1>1. FramesHold /\ IdsHold /\ FilesKept /\ MethodsKnown
  BY ApkKnown DEF DexIInv, FilesKept
<1>2. CASE Stage
  BY <1>2, StageHolds
<1>3. CASE Interpret
  <2>1. FramesHold' /\ Outcome /\ IdsKept /\ dexPhase = "interpreting"
    BY <1>1, <1>3, InterpretHolds, InterpretKeepsIds DEF Interpret
  <2>2. QED
    BY <1>1, <2>1, InterpretKeepsFiles DEF DexIInv, IdsKept, Overwrites
<1>4. CASE DexOver \/ UNCHANGED dexVars
  <2>1. UNCHANGED dexVars
    BY <1>4 DEF DexOver
  <2>2. FramesHold'
    BY <1>1, <2>1 DEF dexVars, FramesHold, AllHold
  <2>3. IdsHold'
    BY <1>1, <2>1 DEF dexVars, IdsHold, HasCalled, Methods, Top
  <2>4. FilesKept'
    BY <1>1, <2>1
       DEF dexVars, FilesKept, Answered, Seen, Parses, TablesParse, File, Deciding,
           ProofTellsItsFiles
  <2>5. QED
    BY <2>1, <2>2, <2>3, <2>4 DEF DexIInv, dexVars, Overwrites
<1>5. QED
  BY <1>2, <1>3, <1>4 DEF DexNext

THEOREM DexInvariant == DexSpec => []DexIInv
<1>1. DexInit => DexIInv
  BY InitDexIInv
<1>2. DexIInv /\ [DexNext]_dexVars => DexIInv'
  BY NextDexIInv
<1>3. QED
  BY <1>1, <1>2, PTL DEF DexSpec

--------------------------------------------------------------------------------
(* The theorems.                                                                  *)

(* However the calls nest, a result that can still be moved is the one of the call  *)
(* its frame made last (the pending_result_valid assignments after each invoke).    *)
THEOREM ResultsAreTheLatest == DexSpec => []PendingIsLatest
<1>1. DexIInv => PendingIsLatest
  BY DEF DexIInv, FramesHold, AllHold, HoldsLatest, PendingIsLatest
<1>2. QED
  BY <1>1, DexInvariant, PTL

(* However many files an APK has and whatever their methods do, the proof gives the  *)
(* answer of the first file that decides (RunDexProof).                            *)
THEOREM AnswersTellTheirFiles == DexSpec => []ProofTellsItsFiles
<1>1. DexIInv => ProofTellsItsFiles
  BY DEF DexIInv, FilesKept
<1>2. QED
  BY <1>1, DexInvariant, PTL

(* Whatever a method that calls no other one does, and however deep it was called,   *)
(* it writes over no object (next_object_id of ExecuteInlineInvokedMethod).         *)
THEOREM LeavesWriteOverNothing == DexSpec => LeavesNeverAlias
<1>1. DexIInv /\ [DexNext]_dexVars => Overwrites
  BY NextDexIInv
<1>2. DexIInv /\ [DexNext]_dexVars => [lost' # lost => HasCalled(Top.method)]_dexVars
  BY <1>1 DEF Overwrites
<1>3. QED
  BY <1>2, DexInvariant, PTL DEF DexSpec, LeavesNeverAlias

--------------------------------------------------------------------------------
(* Powers of two: a set of n elements has 2^n subsets, and with one element more twice *)
(* as many.                                                                       *)

LEMMA PowersDouble ==
  ASSUME NEW n \in Nat PROVE 2 ^ n \in Nat /\ 2 ^ (n + 1) = 2 * 2 ^ n
<1>1. PICK S : S = 1 .. n
  OBVIOUS
<1>2. FS!IsFiniteSet(S) /\ FS!Cardinality(S) = n /\ n + 1 \notin S
  <2>1. FS!IsFiniteSet(1 .. n) /\ FS!Cardinality(1 .. n) = IF 1 > n THEN 0 ELSE n - 1 + 1
    BY FS!FS_Interval
  <2>2. QED
    BY <1>1, <2>1
<1>3. PICK T : T = S \cup {n + 1}
  OBVIOUS
<1>4. FS!IsFiniteSet(T) /\ FS!Cardinality(T) = n + 1
  BY <1>2, <1>3, FS!FS_AddElement
<1>5. PICK A, B : A = SUBSET S /\ B = {X \cup {n + 1} : X \in A}
  OBVIOUS
<1>6. FS!IsFiniteSet(A) /\ FS!Cardinality(A) = 2 ^ n
  BY <1>2, <1>5, FS!FS_SUBSET
<1>7. FS!Cardinality(SUBSET T) = 2 ^ (n + 1)
  BY <1>4, FS!FS_SUBSET
<1>8. SUBSET T = A \cup B
  <2>1. ASSUME NEW Y \in SUBSET T, n + 1 \in Y PROVE Y \in B
    <3>1. Y \ {n + 1} \in A /\ Y = (Y \ {n + 1}) \cup {n + 1}
      BY <1>3, <1>5, <2>1
    <3>2. QED
      BY <1>5, <3>1
  <2>2. \A Y \in SUBSET T : n + 1 \notin Y => Y \in A
    BY <1>3, <1>5
  <2>3. A \subseteq SUBSET T /\ B \subseteq SUBSET T
    BY <1>3, <1>5
  <2>4. QED
    BY <2>1, <2>2, <2>3
<1>9. A \cap B = {}
  BY <1>2, <1>5
<1>10. FS!IsFiniteSet(B) /\ FS!Cardinality(B) = 2 ^ n
  <2>1. PICK f : f = [X \in A |-> X \cup {n + 1}]
    OBVIOUS
  <2>2. ASSUME NEW X \in A, NEW Y \in A, f[X] = f[Y] PROVE X = Y
    <3>1. X \cup {n + 1} = Y \cup {n + 1} /\ n + 1 \notin X /\ n + 1 \notin Y
      BY <1>2, <1>5, <2>1, <2>2
    <3>2. QED
      BY <3>1
  <2>3. f \in [A -> B] /\ \A Y \in B : \E X \in A : f[X] = Y
    BY <1>5, <2>1
  <2>4. FS!ExistsBijection(A, B)
    BY <2>2, <2>3 DEF FS!ExistsBijection, FS!Bijection, FS!Injection, FS!Surjection, FS!IsInjective
  <2>5. QED
    BY <1>6, <2>4, FS!FS_Bijection
<1>11. 2 ^ n \in Nat
  BY <1>6, FS!FS_CardinalityType
<1>12. FS!Cardinality(A \cup B) = FS!Cardinality(A) + FS!Cardinality(B)
  <2>1. FS!Cardinality(A \cup B) = FS!Cardinality(A) + FS!Cardinality(B) - FS!Cardinality(A \cap B)
    BY <1>6, <1>10, FS!FS_Union
  <2>2. FS!Cardinality(A \cap B) = 0
    BY <1>9, FS!FS_EmptySet
  <2>3. QED
    BY <1>6, <1>10, <1>11, <2>1, <2>2
<1>13. 2 ^ (n + 1) = 2 ^ n + 2 ^ n
  BY <1>6, <1>7, <1>8, <1>10, <1>12, Zenon
<1>14. QED
  <2>1. PICK p, q : p = 2 ^ n /\ q = 2 ^ (n + 1)
    OBVIOUS
  <2>2. p \in Nat /\ q = p + p
    BY <1>11, <1>13, <2>1, Zenon
  <2>3. p + p = 2 * p
    BY <2>2
  <2>4. QED
    BY <2>1, <2>2, <2>3, Zenon

LEMMA PowersAre ==
  /\ 2 ^ 0 = 1
  /\ \A n \in Nat : 2 ^ n \in Nat /\ 2 ^ n > 0 /\ 2 ^ (n + 1) = 2 * 2 ^ n
<1>1. 2 ^ 0 = 1
  OBVIOUS
<1>2. PICK T : T = {n \in Nat : 2 ^ n > 0}
  OBVIOUS
<1>3. 0 \in T
  BY <1>1, <1>2
<1>4. ASSUME NEW n \in T PROVE n + 1 \in T
  <2>1. PICK p, q : p = 2 ^ n /\ q = 2 ^ (n + 1)
    OBVIOUS
  <2>2. n \in Nat /\ p \in Nat /\ p > 0 /\ q = 2 * p
    BY <1>2, <2>1, PowersDouble
  <2>3. n + 1 \in Nat /\ q > 0
    BY <2>2
  <2>4. QED
    BY <1>2, <2>1, <2>3
<1>5. T \in SUBSET Nat
  BY <1>2
<1>6. T = Nat
  BY <1>3, <1>4, <1>5, OneByOne
<1>7. QED
  BY <1>1, <1>2, <1>6, PowersDouble

LEMMA PowersMultiply ==
  ASSUME NEW i \in Nat, NEW j \in Nat PROVE 2 ^ (i + j) = 2 ^ i * 2 ^ j
<1>1. PICK p \in Nat : p = 2 ^ i
  BY PowersAre
<1>2. PICK T : T = {n \in Nat : 2 ^ (i + n) = p * 2 ^ n}
  OBVIOUS
<1>3. 0 \in T
  <2>1. i + 0 = i /\ p * 1 = p /\ 2 ^ 0 = 1
    BY PowersAre
  <2>2. QED
    BY <1>1, <1>2, <2>1
<1>4. ASSUME NEW n \in T PROVE n + 1 \in T
  <2>1. PICK a, b, c, d : /\ a = 2 ^ (i + n) /\ b = 2 ^ n
                          /\ c = 2 ^ (i + n + 1) /\ d = 2 ^ (n + 1)
    OBVIOUS
  <2>2. n \in Nat /\ i + n \in Nat /\ a = p * b
    BY <1>2, <2>1
  <2>3. b \in Nat /\ c = 2 * a /\ d = 2 * b
    BY <2>1, <2>2, PowersAre
  <2>4. c = p * d /\ n + 1 \in Nat /\ i + (n + 1) = i + n + 1
    BY <2>2, <2>3
  <2>5. 2 ^ (i + (n + 1)) = p * 2 ^ (n + 1)
    BY <2>1, <2>4
  <2>6. QED
    BY <1>2, <2>4, <2>5
<1>5. T \in SUBSET Nat
  BY <1>2
<1>6. T = Nat
  BY <1>3, <1>4, <1>5, OneByOne
<1>7. QED
  BY <1>1, <1>2, <1>6

--------------------------------------------------------------------------------
(* Types: what registers, fields and elements hold.                                *)

Words == -(Modulus \div 2) .. Modulus - Modulus \div 2 - 1

(* A value: an int of the width, and a reference to one of the objects there are.    *)
ValueFits(v, ids) ==
  /\ DOMAIN v = {"kind", "n", "id", "class", "born"}
  /\ v.kind \in {"unknown", "int", "object"}
  /\ v.n \in Words
  /\ IsObject(v) => v.id \in ids
AllFit(f, ids) == \A k \in DOMAIN f : ValueFits(f[k], ids)

(* Four values fit into two bits, and half of them are not negative.                *)
LEMMA ModulusIs ==
  Modulus \in Nat /\ Modulus >= 4 /\ Modulus \div 2 \in Nat /\ Modulus = 2 * (Modulus \div 2)
<1>1. PICK k \in Nat : WordBits = k + 2
  <2>1. WordBits \in Nat /\ WordBits > 1
    BY DexValuesAssumption
  <2>2. WordBits - 2 \in Nat /\ WordBits = WordBits - 2 + 2
    BY <2>1
  <2>3. QED
    BY <2>2
<1>2. PICK p \in Nat : p = 2 ^ k /\ p > 0
  BY PowersAre
<1>3. 2 ^ (k + 1) = 2 * p
  BY <1>2, PowersAre
<1>4. k + 1 \in Nat /\ k + 1 + 1 = WordBits
  BY <1>1
<1>5. 2 ^ (k + 1 + 1) = 2 * (2 * p)
  BY <1>3, <1>4, PowersAre
<1>6. Modulus = 2 * (2 * p)
  BY <1>4, <1>5 DEF Modulus
<1>7. 2 * (2 * p) \in Nat /\ 2 * (2 * p) >= 4 /\ (2 * (2 * p)) \div 2 = 2 * p /\ 2 * p \in Nat
  BY <1>2
<1>8. QED
  BY <1>6, <1>7

LEMMA WrapIsWord ==
  ASSUME NEW n \in Int
  PROVE  Wrap(n) \in Words /\ (n \in Words => Wrap(n) = n) /\ Words \subseteq Int
<1>1. PICK M \in Nat : M = Modulus /\ M >= 4
  BY ModulusIs
<1>2. /\ ((n + M \div 2) % M) - M \div 2 \in -(M \div 2) .. M - M \div 2 - 1
      /\ n \in -(M \div 2) .. M - M \div 2 - 1 => ((n + M \div 2) % M) - M \div 2 = n
      /\ -(M \div 2) .. M - M \div 2 - 1 \subseteq Int
  BY <1>1
<1>3. QED
  BY <1>1, <1>2 DEF Wrap, Words

LEMMA SmallWords == {-1, 0, 1} \subseteq Words /\ Words \subseteq Int
<1>1. PICK M \in Nat : M = Modulus /\ M >= 4
  BY ModulusIs
<1>2. M \div 2 \in Nat /\ M \div 2 >= 2 /\ M \div 2 <= M - 2
  BY <1>1
<1>3. QED
  BY <1>1, <1>2 DEF Words

(* The next index is an int if there is a length above it.                          *)
LEMMA NextWord ==
  ASSUME NEW length \in Words, NEW n \in Nat, n < length
  PROVE  n \in Words /\ Wrap(n + 1) = n + 1
<1>1. PICK M \in Nat : M = Modulus /\ M >= 4
  BY ModulusIs
<1>2. M \div 2 \in Nat
  BY <1>1
<1>3. n \in Words /\ n + 1 \in Words
  BY <1>1, <1>2 DEF Words
<1>4. QED
  BY <1>3, WrapIsWord

LEMMA ValuesFit ==
  ASSUME NEW ids
  PROVE  /\ ValueFits(Unknown, ids)
         /\ \A n \in Words : ValueFits(Num(n), ids)
         /\ \A id \in ids : \A class, since : ValueFits(Ref(id, class, since), ids)
         /\ \A v : ValueFits(Truth(v), ids)
<1>1. \A n \in Words : ValueFits(Num(n), ids)
  BY DEF ValueFits, Num, Value, IsObject
<1>2. \A v : ValueFits(Truth(v), ids)
  BY <1>1, SmallWords DEF Truth
<1>3. QED
  BY <1>1, <1>2, SmallWords DEF ValueFits, Unknown, Ref, Value, IsObject

LEMMA FitsMore ==
  ASSUME NEW ids, NEW more, ids \subseteq more
  PROVE  /\ \A v : ValueFits(v, ids) => ValueFits(v, more)
         /\ \A f : AllFit(f, ids) => AllFit(f, more)
BY DEF ValueFits, AllFit

LEMMA PutFits ==
  ASSUME NEW f, NEW ids, AllFit(f, ids), NEW key, NEW value, ValueFits(value, ids)
  PROVE  AllFit(Put(f, key, value), ids)
BY DEF AllFit, Put

(* An object: its elements are at positions that are ints.                          *)
ObjectFits(o, ids) ==
  /\ DOMAIN o = {"class", "length", "fields", "elements", "born"}
  /\ o.length \in Words
  /\ o.elements = [k \in DOMAIN o.elements |-> o.elements[k]]
  /\ DOMAIN o.elements \subseteq Words
  /\ AllFit(o.elements, ids) /\ AllFit(o.fields, ids)
HeapFits(h) == \A id \in DOMAIN h : ObjectFits(h[id], DOMAIN h)

(* How long a collection is for its iterators; an iterator is within it.             *)
KnownSize(o) == IF o.length >= 0 THEN o.length ELSE 0
Within(o, h) ==
  "collection" \in DOMAIN o.fields =>
    /\ IsObject(o.fields["collection"]) /\ o.fields["collection"].id \in DOMAIN h
    /\ "index" \in DOMAIN o.fields /\ IsInt(o.fields["index"])
    /\ o.fields["index"].n \in 0 .. KnownSize(h[o.fields["collection"].id])
(* An object nobody has asked the length of has no elements.                        *)
HoldsItsOwn(o) ==
  /\ DOMAIN o.elements \subseteq 0 .. KnownSize(o) - 1
  /\ o.length < 0 => "singleton" \notin DOMAIN o.fields
HeapHolds(h) == \A id \in DOMAIN h : HoldsItsOwn(h[id]) /\ Within(h[id], h)

LEMMA NoneIn == ASSUME NEW f, f = [k \in DOMAIN f |-> f[k]], DOMAIN f = {} PROVE f = <<>>
  OBVIOUS

LEMMA MaxIsIn ==
  ASSUME NEW S, S \subseteq Words, S # {} PROVE Max(S) \in S /\ \A k \in S : k <= Max(S)
<1>1. PICK M \in Nat : M = Modulus
  BY ModulusIs
<1>2. \A k \in S : k \in Int /\ M - k \in Nat
  BY <1>1 DEF Words
<1>3. PICK T : T = {M - k : k \in S}
  OBVIOUS
<1>4. T \in SUBSET Nat /\ T # {}
  BY <1>2, <1>3
<1>5. PICK least \in T : \A j \in T : least <= j
  BY <1>4, MinIsLeast
<1>6. PICK greatest \in S : least = M - greatest
  BY <1>3, <1>5
<1>7. ASSUME NEW k \in S PROVE greatest >= k
  <2>1. M - k \in T /\ k \in Int /\ greatest \in Int /\ M \in Int
    BY <1>2, <1>3
  <2>2. M - greatest <= M - k
    BY <1>5, <1>6, <2>1
  <2>3. QED
    BY <2>1, <2>2
<1>8. Max(S) \in S /\ \A k \in S : Max(S) >= k
  BY <1>7 DEF Max
<1>9. QED
  BY <1>2, <1>8

LEMMA InferredFits ==
  ASSUME NEW o, NEW ids, ObjectFits(o, ids)
  PROVE  /\ InferredSize(o) \in Words /\ InferredSize(o) >= 0 /\ InferredSize(o) >= o.length
<1>1. o.length \in Words /\ o.length \in Int /\ Words \subseteq Int
  BY SmallWords DEF ObjectFits
<1>2. CASE o.elements = <<>>
  BY <1>1, <1>2, SmallWords DEF InferredSize
<1>3. CASE o.elements # <<>>
  <2>1. DOMAIN o.elements # {} /\ DOMAIN o.elements \subseteq Words
    BY <1>3, NoneIn DEF ObjectFits
  <2>2. PICK top : top = Max(DOMAIN o.elements) /\ top \in Words
    BY <2>1, MaxIsIn
  <2>3. PICK w : w = Wrap(top + 1) /\ w \in Words
    BY <1>1, <2>2, WrapIsWord
  <2>4. PICK known : known = Max({o.length, w}) /\ known \in Words /\ known >= o.length
    BY <1>1, <2>3, MaxIsIn
  <2>5. InferredSize(o) = IF known >= 0 THEN known
                          ELSE IF "singleton" \in DOMAIN o.fields THEN 1 ELSE 0
    BY <1>3, <2>2, <2>3, <2>4 DEF InferredSize
  <2>6. QED
    BY <1>1, <2>4, <2>5, SmallWords
<1>4. QED
  BY <1>2, <1>3

(* A collection that holds its own is inferred to be as long as it is.               *)
LEMMA InferredIsSize ==
  ASSUME NEW o, NEW ids, ObjectFits(o, ids), HoldsItsOwn(o)
  PROVE  InferredSize(o) = KnownSize(o)
<1>1. o.length \in Words /\ o.length \in Int /\ Words \subseteq Int
  BY SmallWords DEF ObjectFits
<1>2. CASE o.elements = <<>>
  BY <1>1, <1>2 DEF InferredSize, KnownSize, HoldsItsOwn
<1>3. CASE o.elements # <<>>
  <2>1. DOMAIN o.elements # {} /\ DOMAIN o.elements \subseteq Words
    BY <1>3, NoneIn DEF ObjectFits
  <2>2. PICK top : top = Max(DOMAIN o.elements) /\ top \in DOMAIN o.elements
    BY <2>1, MaxIsIn
  <2>3. top \in Nat /\ top < o.length
    BY <1>1, <2>2 DEF HoldsItsOwn, KnownSize
  <2>4. Wrap(top + 1) = top + 1 /\ top + 1 <= o.length /\ top + 1 \in Words
    BY <1>1, <2>3, NextWord, WrapIsWord
  <2>5. PICK known : known = Max({o.length, top + 1}) /\ known \in {o.length, top + 1}
                     /\ o.length <= known
    BY <1>1, <2>4, MaxIsIn
  <2>6. known = o.length
    BY <1>1, <2>3, <2>4, <2>5
  <2>7. InferredSize(o) = IF known >= 0 THEN known
                          ELSE IF "singleton" \in DOMAIN o.fields THEN 1 ELSE 0
    BY <1>3, <2>2, <2>4, <2>5 DEF InferredSize
  <2>8. known >= 0 /\ KnownSize(o) = o.length
    BY <1>1, <2>3, <2>6 DEF KnownSize
  <2>9. QED
    BY <2>6, <2>7, <2>8
<1>4. QED
  BY <1>2, <1>3

(* What becomes of the heap when one object changes, or a new one is put into it.    *)
WithFieldPut(h, id, field, value)   == [h EXCEPT ![id].fields = Put(@, field, value)]
WithElementPut(h, id, index, value) == [h EXCEPT ![id].elements = Put(@, index, value)]
WithLength(h, id, length)           == [h EXCEPT ![id].length = length]
WithClass(h, id, class)             == [h EXCEPT ![id].class = class]
WithObject(h, id, class, length, birth) == Put(h, id, Object(class, length, birth))

LEMMA ObjectFitsMore ==
  ASSUME NEW o, NEW ids, ObjectFits(o, ids), NEW more, ids \subseteq more
  PROVE  ObjectFits(o, more)
BY FitsMore DEF ObjectFits

LEMMA SizeIsNat == ASSUME NEW o, NEW ids, ObjectFits(o, ids) PROVE KnownSize(o) \in Nat
BY SmallWords DEF ObjectFits, KnownSize

(* No collection gets shorter: what was within it still is.                         *)
LEMMA WithinStays ==
  ASSUME NEW h, NEW g, DOMAIN h \subseteq DOMAIN g,
         \A k \in DOMAIN h : KnownSize(h[k]) \in Nat /\ KnownSize(g[k]) \in Nat /\ KnownSize(h[k]) <= KnownSize(g[k]),
         NEW o, Within(o, h)
  PROVE  Within(o, g)
<1>1. CASE "collection" \in DOMAIN o.fields
  <2>1. PICK c : c = o.fields["collection"].id /\ c \in DOMAIN h
    BY <1>1 DEF Within
  <2>2. o.fields["index"].n \in 0 .. KnownSize(h[c])
    BY <1>1, <2>1 DEF Within
  <2>3. KnownSize(h[c]) \in Nat /\ KnownSize(g[c]) \in Nat /\ KnownSize(h[c]) <= KnownSize(g[c])
    BY <2>1
  <2>4. o.fields["index"].n \in 0 .. KnownSize(g[c])
    BY <2>2, <2>3
  <2>5. QED
    BY <1>1, <2>1, <2>4 DEF Within
<1>2. QED
  BY <1>1 DEF Within

(* One object becomes another one that is no shorter.                              *)
LEMMA OneChanges ==
  ASSUME NEW h, HeapFits(h), NEW id \in DOMAIN h, NEW o, ObjectFits(o, DOMAIN h),
         NEW g, g = [h EXCEPT ![id] = o]
  PROVE  /\ HeapFits(g) /\ DOMAIN g = DOMAIN h
         /\ g[id] = o /\ \A k \in DOMAIN h : k # id => g[k] = h[k]
         /\ HeapHolds(h) /\ HoldsItsOwn(o) /\ Within(o, h) /\ KnownSize(o) >= KnownSize(h[id])
              => HeapHolds(g)
<1>1. /\ DOMAIN g = DOMAIN h
      /\ g[id] = o /\ \A k \in DOMAIN h : k # id => g[k] = h[k]
  OBVIOUS
<1>2. HeapFits(g)
  BY <1>1 DEF HeapFits
<1>3. ASSUME HeapHolds(h), HoldsItsOwn(o), Within(o, h), KnownSize(o) >= KnownSize(h[id])
      PROVE  HeapHolds(g)
  <2>1. \A k \in DOMAIN h : KnownSize(h[k]) \in Nat /\ KnownSize(g[k]) \in Nat
    BY <1>1, <1>2, SizeIsNat DEF HeapFits
  <2>2. \A k \in DOMAIN h : KnownSize(h[k]) <= KnownSize(g[k])
    BY <1>1, <1>3, <2>1
  <2>3. \A p : Within(p, h) => Within(p, g)
    BY <1>1, <2>1, <2>2, WithinStays
  <2>4. ASSUME NEW k \in DOMAIN h PROVE HoldsItsOwn(g[k]) /\ Within(g[k], g)
    <3>1. CASE k = id
      BY <1>1, <1>3, <2>3, <3>1
    <3>2. CASE k # id
      <4>1. g[k] = h[k] /\ HoldsItsOwn(h[k]) /\ Within(h[k], h)
        BY <1>1, <1>3, <3>2 DEF HeapHolds
      <4>2. QED
        BY <2>3, <4>1
    <3>3. QED
      BY <3>1, <3>2
  <2>5. QED
    BY <1>1, <2>4 DEF HeapHolds
<1>4. QED
  BY <1>1, <1>2, <1>3

LEMMA FieldChanges ==
  ASSUME NEW h, HeapFits(h), NEW id \in DOMAIN h, NEW field, NEW value,
         ValueFits(value, DOMAIN h), NEW g, g = WithFieldPut(h, id, field, value)
  PROVE  /\ HeapFits(g) /\ DOMAIN g = DOMAIN h
         /\ HeapHolds(h) /\ field \notin {"collection", "index"}
              /\ (field = "singleton" => h[id].length >= 0)
              => HeapHolds(g)
         /\ g[id].fields = Put(h[id].fields, field, value) /\ g[id].length = h[id].length
         /\ g[id].elements = h[id].elements
         /\ \A k \in DOMAIN h : k # id => g[k] = h[k]
<1>1. PICK o : o = [h[id] EXCEPT !.fields = Put(h[id].fields, field, value)]
  OBVIOUS
<1>2. g = [h EXCEPT ![id] = o] /\ ObjectFits(h[id], DOMAIN h)
  BY <1>1 DEF HeapFits, WithFieldPut
<1>3. /\ DOMAIN o = {"class", "length", "fields", "elements", "born"}
      /\ o.length = h[id].length /\ o.elements = h[id].elements
      /\ o.fields = Put(h[id].fields, field, value)
  BY <1>1, <1>2 DEF ObjectFits
<1>4. AllFit(o.fields, DOMAIN h)
  BY <1>2, <1>3, PutFits DEF ObjectFits
<1>5. ObjectFits(o, DOMAIN h)
  BY <1>2, <1>3, <1>4 DEF ObjectFits
<1>6. /\ HeapFits(g) /\ DOMAIN g = DOMAIN h
      /\ g[id] = o /\ \A k \in DOMAIN h : k # id => g[k] = h[k]
      /\ HeapHolds(h) /\ HoldsItsOwn(o) /\ Within(o, h) /\ KnownSize(o) >= KnownSize(h[id])
              => HeapHolds(g)
  BY <1>2, <1>5, OneChanges
<1>7. ASSUME HeapHolds(h), field \notin {"collection", "index"},
             field = "singleton" => h[id].length >= 0
      PROVE  HeapHolds(g)
  <2>1. KnownSize(o) = KnownSize(h[id]) /\ KnownSize(o) \in Nat
    BY <1>3, <1>5, SizeIsNat DEF KnownSize
  <2>2. DOMAIN o.fields = DOMAIN h[id].fields \cup {field}
        /\ \A k \in DOMAIN h[id].fields : k # field => o.fields[k] = h[id].fields[k]
    BY <1>3 DEF Put
  <2>3. HoldsItsOwn(h[id]) /\ Within(h[id], h)
    BY <1>7 DEF HeapHolds
  <2>4. h[id].length < 0 => field # "singleton"
    BY <1>2, <1>7, SmallWords DEF ObjectFits
  <2>5. HoldsItsOwn(o)
    BY <1>3, <2>1, <2>2, <2>3, <2>4 DEF HoldsItsOwn
  <2>6. Within(o, h)
    BY <1>7, <2>2, <2>3 DEF Within
  <2>7. QED
    BY <1>6, <1>7, <2>1, <2>5, <2>6
<1>8. QED
  BY <1>3, <1>6, <1>7

LEMMA ElementChanges ==
  ASSUME NEW h, HeapFits(h), NEW id \in DOMAIN h, NEW index \in Words, NEW value,
         ValueFits(value, DOMAIN h), NEW g, g = WithElementPut(h, id, index, value)
  PROVE  /\ HeapFits(g) /\ DOMAIN g = DOMAIN h
         /\ HeapHolds(h) /\ index \in 0 .. KnownSize(h[id]) - 1 => HeapHolds(g)
         /\ g[id].fields = h[id].fields /\ g[id].length = h[id].length
         /\ \A k \in DOMAIN h : k # id => g[k] = h[k]
<1>1. PICK o : o = [h[id] EXCEPT !.elements = Put(h[id].elements, index, value)]
  OBVIOUS
<1>2. g = [h EXCEPT ![id] = o] /\ ObjectFits(h[id], DOMAIN h)
  BY <1>1 DEF HeapFits, WithElementPut
<1>3. /\ DOMAIN o = {"class", "length", "fields", "elements", "born"}
      /\ o.length = h[id].length /\ o.fields = h[id].fields
      /\ o.elements = Put(h[id].elements, index, value)
  BY <1>1, <1>2 DEF ObjectFits
<1>4. AllFit(o.elements, DOMAIN h)
  <2>1. AllFit(h[id].elements, DOMAIN h)
    BY <1>2 DEF ObjectFits
  <2>2. AllFit(Put(h[id].elements, index, value), DOMAIN h)
    BY <2>1, PutFits
  <2>3. QED
    BY <1>3, <2>2
<1>5. o.elements = [k \in DOMAIN o.elements |-> o.elements[k]]
      /\ DOMAIN o.elements = DOMAIN h[id].elements \cup {index}
  BY <1>3 DEF Put
<1>6. ObjectFits(o, DOMAIN h)
  BY <1>2, <1>3, <1>4, <1>5 DEF ObjectFits
<1>7. /\ HeapFits(g) /\ DOMAIN g = DOMAIN h
      /\ g[id] = o /\ \A k \in DOMAIN h : k # id => g[k] = h[k]
      /\ HeapHolds(h) /\ HoldsItsOwn(o) /\ Within(o, h) /\ KnownSize(o) >= KnownSize(h[id])
              => HeapHolds(g)
  BY <1>2, <1>6, OneChanges
<1>8. ASSUME HeapHolds(h), index \in 0 .. KnownSize(h[id]) - 1 PROVE HeapHolds(g)
  <2>1. KnownSize(o) = KnownSize(h[id]) /\ KnownSize(o) \in Nat
    BY <1>3, <1>6, SizeIsNat DEF KnownSize
  <2>2. HoldsItsOwn(h[id]) /\ Within(h[id], h)
    BY <1>8 DEF HeapHolds
  <2>3. DOMAIN o.elements \subseteq 0 .. KnownSize(o) - 1
    BY <1>5, <1>8, <2>1, <2>2 DEF HoldsItsOwn
  <2>4. HoldsItsOwn(o)
    BY <1>3, <2>2, <2>3 DEF HoldsItsOwn
  <2>5. Within(o, h)
    BY <1>3, <2>2 DEF Within
  <2>6. QED
    BY <1>7, <1>8, <2>1, <2>4, <2>5
<1>9. QED
  BY <1>3, <1>7, <1>8

LEMMA LengthChanges ==
  ASSUME NEW h, HeapFits(h), NEW id \in DOMAIN h, NEW length \in Words,
         NEW g, g = WithLength(h, id, length)
  PROVE  /\ HeapFits(g) /\ DOMAIN g = DOMAIN h
         /\ HeapHolds(h) /\ length >= 0 /\ length >= h[id].length => HeapHolds(g)
         /\ g[id].fields = h[id].fields /\ g[id].length = length
         /\ g[id].elements = h[id].elements /\ g[id].class = h[id].class
         /\ \A k \in DOMAIN h : k # id => g[k] = h[k]
<1>1. PICK o : o = [h[id] EXCEPT !.length = length]
  OBVIOUS
<1>2. g = [h EXCEPT ![id] = o] /\ ObjectFits(h[id], DOMAIN h)
  BY <1>1 DEF HeapFits, WithLength
<1>3. /\ DOMAIN o = {"class", "length", "fields", "elements", "born"}
      /\ o.length = length /\ o.fields = h[id].fields /\ o.elements = h[id].elements
      /\ o.class = h[id].class
  BY <1>1, <1>2 DEF ObjectFits
<1>4. ObjectFits(o, DOMAIN h)
  BY <1>2, <1>3 DEF ObjectFits
<1>5. /\ HeapFits(g) /\ DOMAIN g = DOMAIN h
      /\ g[id] = o /\ \A k \in DOMAIN h : k # id => g[k] = h[k]
      /\ HeapHolds(h) /\ HoldsItsOwn(o) /\ Within(o, h) /\ KnownSize(o) >= KnownSize(h[id])
              => HeapHolds(g)
  BY <1>2, <1>4, OneChanges
<1>6. ASSUME HeapHolds(h), length >= 0, length >= h[id].length PROVE HeapHolds(g)
  <2>1. length \in Int /\ h[id].length \in Int
    BY <1>2, SmallWords DEF ObjectFits
  <2>2. KnownSize(o) = length /\ KnownSize(o) >= KnownSize(h[id]) /\ KnownSize(h[id]) \in Nat
    BY <1>2, <1>3, <1>6, <2>1, SizeIsNat DEF KnownSize
  <2>3. HoldsItsOwn(h[id]) /\ Within(h[id], h)
    BY <1>6 DEF HeapHolds
  <2>4. DOMAIN o.elements \subseteq 0 .. KnownSize(o) - 1
    BY <1>3, <2>1, <2>2, <2>3 DEF HoldsItsOwn
  <2>5. HoldsItsOwn(o)
    BY <1>3, <1>6, <2>1, <2>4 DEF HoldsItsOwn
  <2>6. Within(o, h)
    BY <1>3, <2>3 DEF Within
  <2>7. QED
    BY <1>5, <1>6, <2>2, <2>5, <2>6
<1>7. QED
  BY <1>3, <1>5, <1>6

LEMMA ClassChanges ==
  ASSUME NEW h, HeapFits(h), NEW id \in DOMAIN h, NEW class,
         NEW g, g = WithClass(h, id, class)
  PROVE  /\ HeapFits(g) /\ DOMAIN g = DOMAIN h
         /\ HeapHolds(h) => HeapHolds(g)
<1>1. PICK o : o = [h[id] EXCEPT !.class = class]
  OBVIOUS
<1>2. g = [h EXCEPT ![id] = o] /\ ObjectFits(h[id], DOMAIN h)
  BY <1>1 DEF HeapFits, WithClass
<1>3. /\ DOMAIN o = {"class", "length", "fields", "elements", "born"}
      /\ o.length = h[id].length /\ o.fields = h[id].fields /\ o.elements = h[id].elements
  BY <1>1, <1>2 DEF ObjectFits
<1>4. ObjectFits(o, DOMAIN h)
  BY <1>2, <1>3 DEF ObjectFits
<1>5. /\ HeapFits(g) /\ DOMAIN g = DOMAIN h
      /\ HeapHolds(h) /\ HoldsItsOwn(o) /\ Within(o, h) /\ KnownSize(o) >= KnownSize(h[id])
              => HeapHolds(g)
  <2>1. PICK p : p = [h EXCEPT ![id] = o]
    OBVIOUS
  <2>2. /\ HeapFits(p) /\ DOMAIN p = DOMAIN h
        /\ HeapHolds(h) /\ HoldsItsOwn(o) /\ Within(o, h) /\ KnownSize(o) >= KnownSize(h[id])
              => HeapHolds(p)
    BY <1>4, <2>1, OneChanges
  <2>3. QED
    BY <1>2, <2>1, <2>2
<1>6. ASSUME HeapHolds(h) PROVE HeapHolds(g)
  <2>1. KnownSize(o) = KnownSize(h[id]) /\ KnownSize(o) \in Nat
    BY <1>3, <1>4, SizeIsNat DEF KnownSize
  <2>2. HoldsItsOwn(h[id]) /\ Within(h[id], h)
    BY <1>6 DEF HeapHolds
  <2>3. HoldsItsOwn(o)
    BY <1>3, <2>1, <2>2 DEF HoldsItsOwn
  <2>4. Within(o, h)
    BY <1>3, <2>2 DEF Within
  <2>5. QED
    BY <1>5, <1>6, <2>1, <2>3, <2>4
<1>7. QED
  BY <1>5, <1>6

LEMMA HeapGrows ==
  ASSUME NEW h, HeapFits(h), NEW id, NEW class, NEW length \in Words, NEW birth,
         NEW g, g = WithObject(h, id, class, length, birth)
  PROVE  /\ HeapFits(g) /\ DOMAIN h \subseteq DOMAIN g /\ id \in DOMAIN g
         /\ HeapHolds(h) /\ id \notin DOMAIN h => HeapHolds(g)
         /\ \A k \in DOMAIN h : k # id => g[k] = h[k]
         /\ g[id] = Object(class, length, birth)
<1>1. PICK o : o = Object(class, length, birth)
  OBVIOUS
<1>2. /\ DOMAIN o = {"class", "length", "fields", "elements", "born"}
      /\ o.length = length /\ o.fields = <<>> /\ o.elements = <<>>
  BY <1>1 DEF Object
<1>3. DOMAIN <<>> = {} /\ <<>> = [k \in DOMAIN <<>> |-> <<>>[k]]
  OBVIOUS
<1>4. \A ids : AllFit(<<>>, ids)
  BY <1>3 DEF AllFit
<1>5. \A ids : ObjectFits(o, ids)
  <2>1. DOMAIN o.elements \subseteq Words /\ o.elements = [k \in DOMAIN o.elements |-> o.elements[k]]
    BY <1>2, <1>3
  <2>2. QED
    BY <1>2, <1>4, <2>1 DEF ObjectFits
<1>6. /\ DOMAIN g = DOMAIN h \cup {id} /\ g[id] = o
      /\ \A k \in DOMAIN h : k # id => g[k] = h[k]
  BY <1>1 DEF Put, WithObject
<1>7. HeapFits(g)
  <2>1. \A k \in DOMAIN h : ObjectFits(h[k], DOMAIN g)
    BY <1>6, ObjectFitsMore DEF HeapFits
  <2>2. QED
    BY <1>5, <1>6, <2>1 DEF HeapFits
<1>8. ASSUME HeapHolds(h), id \notin DOMAIN h PROVE HeapHolds(g)
  <2>1. HoldsItsOwn(o) /\ Within(o, g)
    BY <1>2, <1>3 DEF HoldsItsOwn, Within
  <2>2. \A k \in DOMAIN h : g[k] = h[k] /\ KnownSize(h[k]) \in Nat
    BY <1>6, <1>8, SizeIsNat DEF HeapFits
  <2>3. \A k \in DOMAIN h : KnownSize(h[k]) <= KnownSize(g[k]) /\ KnownSize(g[k]) \in Nat
    BY <2>2
  <2>4. \A p : Within(p, h) => Within(p, g)
    BY <1>6, <2>2, <2>3, WithinStays
  <2>5. QED
    BY <1>6, <1>8, <2>1, <2>2, <2>4 DEF HeapHolds
<1>9. QED
  BY <1>1, <1>6, <1>7, <1>8

(* What an instruction has made of its state `b` so far: values and objects of the    *)
(* right types, and, if `own`, collections that hold their own as long as no object  *)
(* has been written over.                                                           *)
Fit(m, b, own) ==
  /\ Sound(m, b)
  /\ m.pc = b.pc
  /\ DOMAIN m.result = {"value", "high", "wide"}
  /\ LET ids == DOMAIN m.heap IN
     /\ DOMAIN b.heap \subseteq ids
     /\ AllFit(m.regs, ids) /\ AllFit(m.statics, ids)
     /\ ValueFits(m.pending.low, ids) /\ ValueFits(m.pending.high, ids)
     /\ ValueFits(m.result.value, ids) /\ ValueFits(m.result.high, ids)
  /\ HeapFits(m.heap)
  /\ own /\ m.lost = {} => HeapHolds(m.heap)

(* What it has made of it in the end: it is at an instruction of its method, or has   *)
(* run over the end.                                                               *)
Fitting(m, b, own, size) ==
  /\ Sound(m, b)
  /\ m.pc \in 0 .. size
  /\ DOMAIN m.result = {"value", "high", "wide"}
  /\ LET ids == DOMAIN m.heap IN
     /\ DOMAIN b.heap \subseteq ids
     /\ AllFit(m.regs, ids) /\ AllFit(m.statics, ids)
     /\ ValueFits(m.pending.low, ids) /\ ValueFits(m.pending.high, ids)
     /\ ValueFits(m.result.value, ids) /\ ValueFits(m.result.high, ids)
  /\ HeapFits(m.heap)
  /\ own /\ m.lost = {} => HeapHolds(m.heap)

(* An instruction of its method.                                                    *)
AtInstruction(b, size) == size \in Nat /\ b.pc \in 0 .. size - 1

LEMMA GotoFits ==
  ASSUME NEW size, NEW b, NEW own, NEW m, Fit(m, b, own), NEW pc, pc \in 0 .. size
  PROVE  Fitting(Goto(m, pc), b, own, size)
<1>1. PICK n : n = Goto(m, pc)
  OBVIOUS
<1>2. /\ n.pc = pc /\ n.heap = m.heap /\ n.lost = m.lost /\ n.regs = m.regs
      /\ n.statics = m.statics /\ n.pending = m.pending /\ n.result = m.result
  BY <1>1 DEF Goto, Fit, Sound, HoldsLatest
<1>3. Sound(n, b)
  BY <1>1, GotoSound DEF Fit
<1>4. Fitting(n, b, own, size)
  BY <1>2, <1>3 DEF Fit, Fitting
<1>5. QED
  BY <1>1, <1>4

LEMMA AdvanceFits ==
  ASSUME NEW size, NEW b, AtInstruction(b, size), NEW own, NEW m, Fit(m, b, own)
  PROVE  Fitting(Advance(m), b, own, size)
<1>1. m.pc + 1 \in 0 .. size
  BY DEF Fit, AtInstruction
<1>2. QED
  BY <1>1, GotoFits DEF Advance

LEMMA StopFits ==
  ASSUME NEW size, NEW b, AtInstruction(b, size), NEW own, NEW m, Fit(m, b, own), NEW reason,
         reason # "class_missing"
  PROVE  /\ Fit(Stop(m, reason), b, own)
         /\ Fitting(Stop(m, reason), b, own, size)
<1>1. PICK n : n = Stop(m, reason)
  OBVIOUS
<1>2. /\ n.pc = m.pc /\ n.heap = m.heap /\ n.lost = m.lost /\ n.regs = m.regs
      /\ n.statics = m.statics /\ n.pending = m.pending /\ n.result = m.result
  BY <1>1 DEF Stop, Fit, Sound, HoldsLatest
<1>3. Sound(n, b)
  BY <1>1, StopSound DEF Fit
<1>4. n.pc \in 0 .. size
  BY <1>2 DEF Fit, AtInstruction
<1>5. Fit(n, b, own) /\ Fitting(n, b, own, size)
  BY <1>2, <1>3, <1>4 DEF Fit, Fitting
<1>6. QED
  BY <1>1, <1>5

LEMMA BranchFits ==
  ASSUME NEW size, NEW b, AtInstruction(b, size), NEW own, NEW m, Fit(m, b, own),
         NEW distance
  PROVE  Fitting(Branch(m, distance, size), b, own, size)
<1>1. CASE m.pc + distance \in 0 .. size - 1
  <2>1. m.pc + distance \in 0 .. size
    BY <1>1 DEF AtInstruction
  <2>2. QED
    BY <1>1, <2>1, GotoFits DEF Branch, Need
<1>2. CASE m.pc + distance \notin 0 .. size - 1
  BY <1>2, StopFits DEF Branch, Need
<1>3. QED
  BY <1>1, <1>2

(* The registers, the statics and the result are replaced by ones that fit.          *)
LEMMA SetRegFits ==
  ASSUME NEW b, NEW own, NEW m, Fit(m, b, own), NEW r, NEW value,
         ValueFits(value, DOMAIN m.heap)
  PROVE  Fit(SetReg(m, r, value), b, own)
<1>1. PICK n : n = SetReg(m, r, value)
  OBVIOUS
<1>2. /\ n.pc = m.pc /\ n.heap = m.heap /\ n.lost = m.lost
      /\ n.regs = [m.regs EXCEPT ![r] = value]
      /\ n.statics = m.statics /\ n.pending = m.pending /\ n.result = m.result
  BY <1>1 DEF SetReg, Fit, Sound, HoldsLatest
<1>3. AllFit(n.regs, DOMAIN m.heap)
  BY <1>2 DEF AllFit, Fit
<1>4. Sound(n, b)
  BY <1>1, SetRegSound DEF Fit
<1>5. Fit(n, b, own)
  BY <1>2, <1>3, <1>4 DEF Fit
<1>6. QED
  BY <1>1, <1>5

LEMMA SetRegKeeps ==
  ASSUME NEW b, NEW m, Sound(m, b), NEW r, NEW value
  PROVE  SetReg(m, r, value).heap = m.heap
  BY DEF SetReg, Sound, HoldsLatest

LEMMA SetPairFits ==
  ASSUME NEW b, NEW own, NEW m, Fit(m, b, own), NEW r, NEW low, NEW high,
         ValueFits(low, DOMAIN m.heap), ValueFits(high, DOMAIN m.heap)
  PROVE  Fit(SetPair(m, r, low, high), b, own)
<1>1. PICK n : n = SetReg(m, r, low) /\ n.heap = m.heap
  BY SetRegKeeps DEF Fit
<1>2. Fit(n, b, own)
  BY <1>1, SetRegFits
<1>3. Fit(SetReg(n, r + 1, high), b, own)
  BY <1>1, <1>2, SetRegFits
<1>4. QED
  BY <1>1, <1>3 DEF SetPair

LEMMA StaticsFit ==
  ASSUME NEW b, NEW own, NEW m, Fit(m, b, own), NEW value, AllFit(value, DOMAIN m.heap)
  PROVE  Fit([m EXCEPT !.statics = value], b, own)
<1>1. PICK n : n = [m EXCEPT !.statics = value]
  OBVIOUS
<1>2. /\ n.pc = m.pc /\ n.heap = m.heap /\ n.lost = m.lost /\ n.regs = m.regs
      /\ n.statics = value /\ n.pending = m.pending /\ n.result = m.result
  BY <1>1 DEF Fit, Sound, HoldsLatest
<1>3. Sound(n, b)
  BY <1>1, StaticsSound DEF Fit
<1>4. Fit(n, b, own)
  BY <1>2, <1>3 DEF Fit
<1>5. QED
  BY <1>1, <1>4

LEMMA ReturningFits ==
  ASSUME NEW b, NEW own, NEW m, Fit(m, b, own), NEW value, ValueFits(value, DOMAIN m.heap)
  PROVE  Fit(Returning(m, value), b, own)
<1>1. PICK n : n = Returning(m, value)
  OBVIOUS
<1>2. /\ n.pc = m.pc /\ n.heap = m.heap /\ n.lost = m.lost /\ n.regs = m.regs
      /\ n.statics = m.statics /\ n.pending = m.pending
      /\ n.result = [NoResult EXCEPT !.value = value]
  BY <1>1 DEF Returning, Fit, Sound, HoldsLatest
<1>3. /\ DOMAIN n.result = {"value", "high", "wide"} /\ n.result.value = value
      /\ n.result.high = Unknown
  BY <1>2 DEF NoResult
<1>4. Sound(n, b)
  BY <1>1, ReturningSound DEF Fit
<1>5. Fit(n, b, own)
  BY <1>2, <1>3, <1>4, ValuesFit DEF Fit
<1>6. QED
  BY <1>1, <1>5

(* One object changes.                                                              *)
LEMMA SetFieldFits ==
  ASSUME NEW b, NEW own, NEW m, Fit(m, b, own), NEW id \in DOMAIN m.heap, NEW field,
         NEW value, ValueFits(value, DOMAIN m.heap),
         own => field \notin {"collection", "index"}
                /\ (field = "singleton" => m.heap[id].length >= 0),
         NEW n, n = SetField(m, id, field, value)
  PROVE  /\ Fit(n, b, own)
         /\ DOMAIN n.heap = DOMAIN m.heap /\ n.lost = m.lost /\ n.next = m.next
         /\ n.heap[id].length = m.heap[id].length
         /\ n.heap[id].fields = Put(m.heap[id].fields, field, value)
         /\ n.heap[id].elements = m.heap[id].elements
         /\ \A k \in DOMAIN m.heap : k # id => n.heap[k] = m.heap[k]
<1>1. n.next = m.next
  BY DEF SetField, Fit, Sound, HoldsLatest
<1>2. /\ n.pc = m.pc /\ n.heap = WithFieldPut(m.heap, id, field, value)
      /\ n.lost = m.lost /\ n.regs = m.regs
      /\ n.statics = m.statics /\ n.pending = m.pending /\ n.result = m.result
  BY DEF SetField, WithFieldPut, Fit, Sound, HoldsLatest
<1>3. /\ HeapFits(n.heap) /\ DOMAIN n.heap = DOMAIN m.heap
      /\ own /\ HeapHolds(m.heap) => HeapHolds(n.heap)
      /\ n.heap[id].length = m.heap[id].length
      /\ n.heap[id].fields = Put(m.heap[id].fields, field, value)
      /\ n.heap[id].elements = m.heap[id].elements
      /\ \A k \in DOMAIN m.heap : k # id => n.heap[k] = m.heap[k]
  BY <1>2, FieldChanges DEF Fit
<1>4. Sound(n, b)
  BY SetFieldSound DEF Fit
<1>5. Fit(n, b, own)
  BY <1>2, <1>3, <1>4 DEF Fit
<1>6. QED
  BY <1>1, <1>2, <1>3, <1>5

LEMMA SetElementFits ==
  ASSUME NEW b, NEW own, NEW m, Fit(m, b, own), NEW id \in DOMAIN m.heap,
         NEW index \in Words, NEW value, ValueFits(value, DOMAIN m.heap),
         own /\ m.lost = {} => index \in 0 .. KnownSize(m.heap[id]) - 1,
         NEW n, n = SetElement(m, id, index, value)
  PROVE  /\ Fit(n, b, own)
         /\ DOMAIN n.heap = DOMAIN m.heap /\ n.lost = m.lost /\ n.next = m.next
         /\ n.heap[id].length = m.heap[id].length /\ n.heap[id].fields = m.heap[id].fields
         /\ \A k \in DOMAIN m.heap : k # id => n.heap[k] = m.heap[k]
<1>1. n.next = m.next
  BY DEF SetElement, Fit, Sound, HoldsLatest
<1>2. /\ n.pc = m.pc /\ n.heap = WithElementPut(m.heap, id, index, value)
      /\ n.lost = m.lost /\ n.regs = m.regs
      /\ n.statics = m.statics /\ n.pending = m.pending /\ n.result = m.result
  BY DEF SetElement, WithElementPut, Fit, Sound, HoldsLatest
<1>3. /\ HeapFits(n.heap) /\ DOMAIN n.heap = DOMAIN m.heap
      /\ n.heap[id].length = m.heap[id].length /\ n.heap[id].fields = m.heap[id].fields
      /\ \A k \in DOMAIN m.heap : k # id => n.heap[k] = m.heap[k]
      /\ HeapHolds(m.heap) /\ index \in 0 .. KnownSize(m.heap[id]) - 1 => HeapHolds(n.heap)
  BY <1>2, ElementChanges DEF Fit
<1>4. Sound(n, b)
  BY SetElementSound DEF Fit
<1>5. Fit(n, b, own)
  BY <1>2, <1>3, <1>4 DEF Fit
<1>6. QED
  BY <1>1, <1>2, <1>3, <1>5

LEMMA SetLengthFits ==
  ASSUME NEW b, NEW own, NEW m, Fit(m, b, own), NEW id \in DOMAIN m.heap,
         NEW length \in Words,
         own /\ m.lost = {} => length >= 0 /\ length >= m.heap[id].length,
         NEW n, n = SetLength(m, id, length)
  PROVE  /\ Fit(n, b, own)
         /\ DOMAIN n.heap = DOMAIN m.heap /\ n.lost = m.lost /\ n.next = m.next
         /\ n.heap[id].length = length /\ n.heap[id].fields = m.heap[id].fields
         /\ n.heap[id].elements = m.heap[id].elements
         /\ \A k \in DOMAIN m.heap : k # id => n.heap[k] = m.heap[k]
<1>1. n.next = m.next
  BY DEF SetLength, Fit, Sound, HoldsLatest
<1>2. /\ n.pc = m.pc /\ n.heap = WithLength(m.heap, id, length)
      /\ n.lost = m.lost /\ n.regs = m.regs
      /\ n.statics = m.statics /\ n.pending = m.pending /\ n.result = m.result
  BY DEF SetLength, WithLength, Fit, Sound, HoldsLatest
<1>3. /\ HeapFits(n.heap) /\ DOMAIN n.heap = DOMAIN m.heap
      /\ n.heap[id].length = length /\ n.heap[id].fields = m.heap[id].fields
      /\ n.heap[id].elements = m.heap[id].elements
      /\ \A k \in DOMAIN m.heap : k # id => n.heap[k] = m.heap[k]
      /\ HeapHolds(m.heap) /\ length >= 0 /\ length >= m.heap[id].length => HeapHolds(n.heap)
  BY <1>2, LengthChanges DEF Fit
<1>4. Sound(n, b)
  BY SetLengthSound DEF Fit
<1>5. Fit(n, b, own)
  BY <1>2, <1>3, <1>4 DEF Fit
<1>6. QED
  BY <1>1, <1>2, <1>3, <1>5

LEMMA NarrowFits ==
  ASSUME NEW b, NEW own, NEW m, Fit(m, b, own), NEW r \in DOMAIN m.regs,
         m.regs[r].id \in DOMAIN m.heap, NEW class
  PROVE  Fit(Narrow(m, r, class), b, own) /\ DOMAIN Narrow(m, r, class).heap = DOMAIN m.heap
<1>1. PICK n : n = Narrow(m, r, class)
  OBVIOUS
<1>2. /\ n.pc = m.pc /\ n.heap = WithClass(m.heap, m.regs[r].id, class)
      /\ n.lost = m.lost /\ n.regs = [m.regs EXCEPT ![r].class = class]
      /\ n.statics = m.statics /\ n.pending = m.pending /\ n.result = m.result
  BY <1>1 DEF Narrow, WithClass, Fit, Sound, HoldsLatest
<1>3. /\ HeapFits(n.heap) /\ DOMAIN n.heap = DOMAIN m.heap
      /\ HeapHolds(m.heap) => HeapHolds(n.heap)
  BY <1>2, ClassChanges DEF Fit
<1>4. AllFit(n.regs, DOMAIN m.heap)
  <2>1. ValueFits(m.regs[r], DOMAIN m.heap)
    BY DEF Fit, AllFit
  <2>2. PICK v : v = [m.regs[r] EXCEPT !.class = class]
    OBVIOUS
  <2>3. ValueFits(v, DOMAIN m.heap)
    BY <2>1, <2>2 DEF ValueFits, IsObject
  <2>4. n.regs = [m.regs EXCEPT ![r] = v]
    BY <1>2, <2>2
  <2>5. QED
    BY <2>3, <2>4 DEF Fit, AllFit
<1>5. Sound(n, b)
  BY <1>1, NarrowSound DEF Fit
<1>6. Fit(n, b, own)
  BY <1>2, <1>3, <1>4, <1>5 DEF Fit
<1>7. QED
  BY <1>1, <1>3, <1>6

(* A new object is one to refer to.                                                 *)
LEMMA MaterializeFits ==
  ASSUME NEW b, NEW own, NEW m, Fit(m, b, own), NEW class, NEW length \in Words,
         NEW n, n = MaterializeWith(m, class, length)
  PROVE  /\ Fit(n, b, own)
         /\ DOMAIN m.heap \subseteq DOMAIN n.heap /\ m.next \in DOMAIN n.heap
         /\ \A k \in DOMAIN m.heap : k # m.next => n.heap[k] = m.heap[k]
         /\ n.heap[m.next] = Object(class, length, m.born + 1)
         /\ n.lost = {} => m.lost = {} /\ m.next \notin DOMAIN m.heap
         /\ n.regs = m.regs /\ n.pending = m.pending /\ n.statics = m.statics
         /\ ValueFits(Fresh(m, class), DOMAIN n.heap)
<1>1. /\ n.pc = m.pc /\ n.heap = WithObject(m.heap, m.next, class, length, m.born + 1)
      /\ n.lost = IF m.next \in DOMAIN m.heap THEN m.lost \cup {m.next} ELSE m.lost
      /\ n.regs = m.regs
      /\ n.statics = m.statics /\ n.pending = m.pending /\ n.result = m.result
  BY DEF MaterializeWith, WithObject, Fit, Sound, HoldsLatest
<1>2. /\ HeapFits(n.heap)
      /\ DOMAIN m.heap \subseteq DOMAIN n.heap /\ m.next \in DOMAIN n.heap
      /\ HeapHolds(m.heap) /\ m.next \notin DOMAIN m.heap => HeapHolds(n.heap)
      /\ \A k \in DOMAIN m.heap : k # m.next => n.heap[k] = m.heap[k]
      /\ n.heap[m.next] = Object(class, length, m.born + 1)
  BY <1>1, HeapGrows DEF Fit
<1>3. n.lost = {} => m.lost = {} /\ m.next \notin DOMAIN m.heap
  BY <1>1
<1>4. Sound(n, b)
  BY MaterializeSound DEF Fit
<1>5. /\ AllFit(m.regs, DOMAIN n.heap) /\ AllFit(m.statics, DOMAIN n.heap)
      /\ ValueFits(m.pending.low, DOMAIN n.heap) /\ ValueFits(m.pending.high, DOMAIN n.heap)
      /\ ValueFits(m.result.value, DOMAIN n.heap) /\ ValueFits(m.result.high, DOMAIN n.heap)
      /\ DOMAIN b.heap \subseteq DOMAIN n.heap
  BY <1>2, FitsMore DEF Fit
<1>6. Fit(n, b, own)
  BY <1>1, <1>2, <1>3, <1>4, <1>5 DEF Fit
<1>7. ValueFits(Fresh(m, class), DOMAIN n.heap)
  BY <1>2, ValuesFit DEF Fresh
<1>8. QED
  BY <1>1, <1>2, <1>3, <1>6, <1>7

LEMMA RegFits ==
  ASSUME NEW b, NEW own, NEW m, Fit(m, b, own), NEW r \in DOMAIN m.regs
  PROVE  /\ ValueFits(m.regs[r], DOMAIN m.heap)
         /\ m.regs[r].n \in Words /\ m.regs[r].n \in Int
         /\ IsObject(m.regs[r]) => m.regs[r].id \in DOMAIN m.heap
<1>1. ValueFits(m.regs[r], DOMAIN m.heap)
  BY DEF Fit, AllFit
<1>2. QED
  BY <1>1, SmallWords DEF ValueFits

LEMMA LongsAreInts ==
  /\ \A n \in Int : LowHalf(n) \in Words /\ HighHalf(n) \in Words /\ WrapLong(n) \in Int
  /\ \A low, high \in Int : LongOf(low, high) \in Int
<1>1. PICK M \in Nat : M = Modulus /\ M >= 4
  BY ModulusIs
<1>2. PICK L \in Nat : L = LongModulus /\ L > 0
  <2>1. M * M \in Nat /\ M * M > 0
    BY <1>1
  <2>2. QED
    BY <1>1, <2>1 DEF LongModulus
<1>3. \A n \in Int : WrapLong(n) \in Int
  BY <1>2 DEF WrapLong
<1>4. \A n \in Int : LowHalf(n) \in Words
  BY WrapIsWord DEF LowHalf
<1>5. \A n \in Int : (n % L) \div M \in Int
  BY <1>1, <1>2
<1>6. \A n \in Int : HighHalf(n) \in Words
  BY <1>1, <1>2, <1>5, WrapIsWord DEF HighHalf
<1>7. ASSUME NEW low \in Int, NEW high \in Int PROVE LongOf(low, high) \in Int
  <2>1. PICK l, h \in Int : l = Unsigned(low) /\ h = Unsigned(high)
    BY <1>1 DEF Unsigned
  <2>2. h * M + l \in Int
    BY <1>1, <2>1
  <2>3. QED
    BY <1>1, <1>3, <2>1, <2>2 DEF LongOf
<1>8. QED
  BY <1>3, <1>4, <1>6, <1>7

(* The bits are read one by one, and so all of them are.                            *)
LEMMA BitsRead ==
  ASSUME NEW bits
  PROVE  \E read : /\ read = [k \in Nat |-> IF k = 0 THEN 0
                                ELSE 2 * read[k - 1] + (IF WordBits - k \in bits THEN 1 ELSE 0)]
                   /\ OfBits(bits) = Wrap(read[WordBits])
<1> DEFINE Read(v, k)  == 2 * v + (IF WordBits - k \in bits THEN 1 ELSE 0)
           Next(f, k)  == IF k = 0 THEN 0 ELSE Read(f[k - 1], k)
           Steps(f, n) == \A k \in 0 .. n : f[k] = Next(f, k)
<1>1. \E f : f = [k \in Nat |-> Next(f, k)]
  <2> HIDE DEF Read
  <2>1. \A n \in Nat : \E f : Steps(f, n)
    <3> DEFINE T == {n \in Nat : \E f : Steps(f, n)}
    <3>1. 0 \in T
      <4>1. Steps([k \in {0} |-> 0], 0)
        OBVIOUS
      <4>2. QED
        BY <4>1
    <3>2. ASSUME NEW n \in T PROVE n + 1 \in T
      <4>1. PICK f : Steps(f, n)
        OBVIOUS
      <4>2. PICK g : g = [k \in 0 .. n + 1 |-> IF k = n + 1 THEN Read(f[n], n + 1) ELSE f[k]]
        OBVIOUS
      <4>3. n \in Nat /\ n + 1 # 0 /\ n + 1 - 1 = n /\ g[n] = f[n]
            /\ g[n + 1] = Read(f[n], n + 1)
        BY <4>2
      <4>4. ASSUME NEW k \in 0 .. n PROVE g[k] = Next(g, k)
        <5>1. g[k] = f[k] /\ f[k] = Next(f, k) /\ (k # 0 => g[k - 1] = f[k - 1])
          BY <4>1, <4>2
        <5>2. QED
          BY <5>1
      <4>5. Steps(g, n + 1)
        BY <4>3, <4>4
      <4>6. QED
        BY <4>3, <4>5
    <3>3. T \in SUBSET Nat
      OBVIOUS
    <3> HIDE DEF T
    <3>4. T = Nat
      BY <3>1, <3>2, <3>3, OneByOne
    <3>5. QED
      BY <3>4 DEF T
  <2>2. \A n \in Nat : \A f, g : Steps(f, n) /\ Steps(g, n) => f[n] = g[n]
    <3> DEFINE T == {n \in Nat : \A f, g : Steps(f, n) /\ Steps(g, n) => f[n] = g[n]}
    <3>1. 0 \in T
      OBVIOUS
    <3>2. ASSUME NEW n \in T PROVE n + 1 \in T
      <4>1. ASSUME NEW f, NEW g, Steps(f, n + 1), Steps(g, n + 1) PROVE f[n + 1] = g[n + 1]
        <5>1. n \in Nat /\ n + 1 # 0 /\ n + 1 - 1 = n /\ n + 1 \in 0 .. n + 1
              /\ \A k \in 0 .. n : k \in 0 .. n + 1
          OBVIOUS
        <5>2. Steps(f, n) /\ Steps(g, n)
          BY <4>1, <5>1
        <5>3. f[n] = g[n]
          BY <5>2
        <5>4. f[n + 1] = Read(f[n], n + 1) /\ g[n + 1] = Read(g[n], n + 1)
          BY <4>1, <5>1
        <5>5. QED
          BY <5>3, <5>4
      <4>2. QED
        BY <4>1
    <3>3. T \in SUBSET Nat
      OBVIOUS
    <3> HIDE DEF T
    <3>4. T = Nat
      BY <3>1, <3>2, <3>3, OneByOne
    <3>5. QED
      BY <3>4 DEF T
  <2>3. PICK all : all = [n \in Nat |-> (CHOOSE f : Steps(f, n))[n]]
    OBVIOUS
  <2>4. all[0] = 0
    <3>1. PICK f : f = CHOOSE g : Steps(g, 0)
      OBVIOUS
    <3>2. Steps(f, 0)
      BY <2>1, <3>1
    <3>3. QED
      BY <2>3, <3>1, <3>2
  <2>5. ASSUME NEW n \in Nat PROVE all[n + 1] = Read(all[n], n + 1)
    <3>1. PICK f, g : f = (CHOOSE h : Steps(h, n)) /\ g = (CHOOSE h : Steps(h, n + 1))
      OBVIOUS
    <3>2. Steps(f, n) /\ Steps(g, n + 1)
      <4>1. n + 1 \in Nat /\ (\A k \in Nat : \E h : Steps(h, k))
        BY <2>1
      <4> HIDE DEF Steps
      <4>2. QED
        BY <3>1, <4>1, Zenon
    <3>3. n + 1 # 0 /\ n + 1 - 1 = n /\ n + 1 \in 0 .. n + 1 /\ n + 1 \in Nat
          /\ \A k \in 0 .. n : k \in 0 .. n + 1
      OBVIOUS
    <3>4. Steps(g, n)
      BY <3>2, <3>3
    <3>5. f[n] = g[n] /\ g[n + 1] = Read(g[n], n + 1)
      BY <2>2, <3>2, <3>3, <3>4
    <3>6. all[n] = f[n] /\ all[n + 1] = g[n + 1]
      BY <2>3, <3>1, <3>3
    <3>7. QED
      BY <3>5, <3>6
  <2>6. ASSUME NEW k \in Nat PROVE all[k] = Next(all, k)
    <3>1. CASE k = 0
      BY <2>4, <3>1
    <3>2. CASE k # 0
      <4>1. k - 1 \in Nat /\ k - 1 + 1 = k
        BY <3>2
      <4>2. all[k] = Read(all[k - 1], k)
        BY <2>5, <4>1
      <4>3. QED
        BY <3>2, <4>2
    <3>3. QED
      BY <3>1, <3>2
  <2>7. all = [k \in Nat |-> Next(all, k)]
    BY <2>3, <2>6
  <2>8. QED
    BY <2>7
<1>2. QED
  BY <1>1, Zenon DEF OfBits

LEMMA BitsAreRead == ASSUME NEW bits PROVE OfBits(bits) \in Words
<1>1. PICK read : /\ read = [k \in Nat |-> IF k = 0 THEN 0
                               ELSE 2 * read[k - 1] + (IF WordBits - k \in bits THEN 1 ELSE 0)]
                  /\ OfBits(bits) = Wrap(read[WordBits])
  BY BitsRead
<1>2. \A n \in Nat : read[n] \in Int
  <2> DEFINE T == {n \in Nat : read[n] \in Int}
  <2>1. 0 \in T
    BY <1>1
  <2>2. ASSUME NEW n \in T PROVE n + 1 \in T
    <3>1. n + 1 \in Nat /\ n + 1 # 0 /\ n + 1 - 1 = n /\ read[n] \in Int
      OBVIOUS
    <3>2. read[n + 1]
            = 2 * read[n] + (IF WordBits - (n + 1) \in bits THEN 1 ELSE 0)
      BY <1>1, <3>1
    <3>3. QED
      BY <3>1, <3>2
  <2>3. T \in SUBSET Nat
    OBVIOUS
  <2> HIDE DEF T
  <2>4. T = Nat
    BY <2>1, <2>2, <2>3, OneByOne
  <2>5. QED
    BY <2>4 DEF T
<1>3. QED
  BY <1>1, <1>2, WrapIsWord, DexValuesAssumption

LEMMA SetRegAdvances ==
  ASSUME NEW size, NEW b, AtInstruction(b, size), NEW own, NEW m, Fit(m, b, own), NEW r,
         NEW value, ValueFits(value, DOMAIN m.heap)
  PROVE  Fitting(Advance(SetReg(m, r, value)), b, own, size)
<1>1. Fit(SetReg(m, r, value), b, own)
  BY SetRegFits
<1>2. QED
  BY <1>1, AdvanceFits

LEMMA SetPairAdvances ==
  ASSUME NEW size, NEW b, AtInstruction(b, size), NEW own, NEW m, Fit(m, b, own), NEW r,
         NEW low, NEW high, ValueFits(low, DOMAIN m.heap), ValueFits(high, DOMAIN m.heap)
  PROVE  Fitting(Advance(SetPair(m, r, low, high)), b, own, size)
<1>1. Fit(SetPair(m, r, low, high), b, own)
  BY SetPairFits
<1>2. QED
  BY <1>1, AdvanceFits

LEMMA MovesFit ==
  ASSUME NEW size, NEW b, AtInstruction(b, size), NEW own, NEW m, Fit(m, b, own),
         NEW i, i.lit \in Int
  PROVE  /\ Fitting(Move(m, i), b, own, size)
         /\ i.lit \in Words => /\ Fitting(Const4(m, i), b, own, size)
                               /\ Fitting(Const16(m, i), b, own, size)
         /\ Fitting(ConstWide16(m, i), b, own, size)
<1>1. Fitting(Move(m, i), b, own, size)
  BY RegFits, SetRegAdvances, StopFits DEF Move, Registers, Need
<1>2. ASSUME i.lit \in Words
      PROVE  Fitting(Const4(m, i), b, own, size) /\ Fitting(Const16(m, i), b, own, size)
  BY <1>2, ValuesFit, SetRegAdvances, StopFits DEF Const4, Const16, Whole, Registers, Need
<1>3. LowHalf(i.lit) \in Words /\ HighHalf(i.lit) \in Words
  BY LongsAreInts
<1>4. Fitting(ConstWide16(m, i), b, own, size)
  BY <1>3, ValuesFit, SetPairAdvances, StopFits DEF ConstWide16, Whole, Registers, Need
<1>5. QED
  BY <1>1, <1>2, <1>4

LEMMA NewObjectAdvances ==
  ASSUME NEW size, NEW b, AtInstruction(b, size), NEW own, NEW m, Fit(m, b, own), NEW r,
         NEW class
  PROVE  /\ Fitting(Advance(SetReg(Materialize(m, class), r, Fresh(m, class))), b, own, size)
         /\ \A length \in Words :
              Fitting(Advance(SetReg(MaterializeWith(m, class, length), r, Fresh(m, class))),
                      b, own, size)
<1>1. ASSUME NEW length \in Words
      PROVE  Fitting(Advance(SetReg(MaterializeWith(m, class, length), r, Fresh(m, class))),
                     b, own, size)
  <2>1. PICK n : n = MaterializeWith(m, class, length)
    OBVIOUS
  <2>2. Fit(n, b, own) /\ ValueFits(Fresh(m, class), DOMAIN n.heap)
    BY <2>1, MaterializeFits
  <2>3. QED
    BY <2>1, <2>2, SetRegAdvances
<1>2. QED
  BY <1>1, SmallWords DEF Materialize

LEMMA ConversionsFit ==
  ASSUME NEW size, NEW b, AtInstruction(b, size), NEW own, NEW m, Fit(m, b, own), NEW i
  PROVE  /\ Fitting(LongToInt(m, i), b, own, size)
         /\ Fitting(IntToLong(m, i), b, own, size)
         /\ Fitting(ConstString(m, i), b, own, size)
<1>1. Fitting(LongToInt(m, i), b, own, size)
  <2>1. ASSUME {i.a} \cup Wide(i.b) \subseteq DOMAIN m.regs
        PROVE  Wrap(Pair(m, i.b)) \in Words
    <3>1. m.regs[i.b].n \in Int /\ m.regs[i.b + 1].n \in Int
      BY <2>1, RegFits DEF Wide
    <3>2. Pair(m, i.b) \in Int
      BY <3>1, LongsAreInts DEF Pair
    <3>3. QED
      BY <3>2, WrapIsWord
  <2>2. QED
    BY <2>1, ValuesFit, SetRegAdvances, StopFits DEF LongToInt, Registers, Ints, Need
<1>2. Fitting(IntToLong(m, i), b, own, size)
  <2>1. ASSUME Wide(i.a) \cup {i.b} \subseteq DOMAIN m.regs
        PROVE  ValueFits(m.regs[i.b], DOMAIN m.heap)
    BY <2>1, RegFits
  <2>2. ValueFits(Num(0), DOMAIN m.heap)
    BY ValuesFit, SmallWords
  <2>3. QED
    BY <2>1, <2>2, SetPairAdvances, StopFits DEF IntToLong, Registers, Ints, Need
<1>3. Fitting(ConstString(m, i), b, own, size)
  BY NewObjectAdvances, StopFits DEF ConstString, Whole, Registers, Need
<1>4. QED
  BY <1>1, <1>2, <1>3

LEMMA TypesFit ==
  ASSUME NEW size, NEW b, AtInstruction(b, size), NEW own, NEW m, Fit(m, b, own), NEW i
  PROVE  /\ Fitting(CheckCast(m, i), b, own, size)
         /\ Fitting(InstanceOf(m, i), b, own, size)
         /\ Fitting(NewInstance(m, i), b, own, size)
         /\ Fitting(NewArray(m, i), b, own, size)
<1>1. Fitting(CheckCast(m, i), b, own, size)
  <2>1. Fitting(Advance(m), b, own, size)
    BY AdvanceFits
  <2>2. ASSUME i.a \in DOMAIN m.regs, m.regs[i.a].id \in DOMAIN m.heap
        PROVE  Fitting(Advance(Narrow(m, i.a, i.name)), b, own, size)
    BY <2>2, NarrowFits, AdvanceFits
  <2>3. QED
    BY <2>1, <2>2, StopFits DEF CheckCast, Whole, Registers, Holds, Type, Known, Need
<1>2. Fitting(InstanceOf(m, i), b, own, size)
  <2>1. ASSUME NEW n \in {0, 1} PROVE Fitting(Advance(SetReg(m, i.a, Num(n))), b, own, size)
    BY <2>1, SmallWords, ValuesFit, SetRegAdvances
  <2>2. ASSUME NEW n \in {0, 1}, i.b \in DOMAIN m.regs, m.regs[i.b].id \in DOMAIN m.heap
        PROVE  Fitting(Advance(SetReg(Narrow(m, i.b, i.name), i.a, Num(n))), b, own, size)
    BY <2>2, SmallWords, ValuesFit, NarrowFits, SetRegAdvances
  <2>3. QED
    BY <2>1, <2>2, StopFits DEF InstanceOf, Whole, Registers, Holds, Type, Known, Need
<1>3. Fitting(NewInstance(m, i), b, own, size)
  BY NewObjectAdvances, StopFits DEF NewInstance, Whole, Registers, Type, Need
<1>4. Fitting(NewArray(m, i), b, own, size)
  BY NewObjectAdvances, RegFits, StopFits DEF NewArray, Whole, Registers, Ints, Type, Need
<1>5. QED
  BY <1>1, <1>2, <1>3, <1>4

LEMMA HeapHasWords ==
  ASSUME NEW b, NEW own, NEW m, Fit(m, b, own), NEW id \in DOMAIN m.heap
  PROVE  /\ ObjectFits(m.heap[id], DOMAIN m.heap)
         /\ m.heap[id].length \in Words /\ m.heap[id].length \in Int
         /\ KnownSize(m.heap[id]) \in Nat
<1>1. ObjectFits(m.heap[id], DOMAIN m.heap)
  BY DEF Fit, HeapFits
<1>2. QED
  BY <1>1, SizeIsNat, SmallWords DEF ObjectFits

LEMMA ArrayLengthFits ==
  ASSUME NEW size, NEW b, AtInstruction(b, size), NEW own, NEW m, Fit(m, b, own), NEW i
  PROVE  Fitting(ArrayLength(m, i), b, own, size)
<1>1. ASSUME i.b \in DOMAIN m.regs, m.regs[i.b].id \in DOMAIN m.heap
      PROVE  Fitting(Advance(SetReg(m, i.a, Num(m.heap[m.regs[i.b].id].length))), b, own, size)
  BY <1>1, HeapHasWords, ValuesFit, SetRegAdvances
<1>2. QED
  BY <1>1, StopFits DEF ArrayLength, Registers, Holds, Known, Need

(* A missing element is invented within the array.                                  *)
LEMMA ElementFits ==
  ASSUME NEW b, NEW own, NEW m, Fit(m, b, own), NEW id \in DOMAIN m.heap, NEW index \in Nat,
         index < m.heap[id].length
  PROVE  /\ Fit(WithElementAt(m, id, index), b, own)
         /\ ValueFits(ElementAt(m, id, index), DOMAIN WithElementAt(m, id, index).heap)
<1>1. CASE index \in DOMAIN m.heap[id].elements
  <2>1. ValueFits(m.heap[id].elements[index], DOMAIN m.heap)
    BY <1>1, HeapHasWords DEF ObjectFits, AllFit
  <2>2. QED
    BY <1>1, <2>1 DEF WithElementAt, ElementAt
<1>2. CASE index \notin DOMAIN m.heap[id].elements
  <2>1. PICK class, value, n :
          /\ class = ElementType(m.heap[id].class) /\ value = Fresh(m, class)
          /\ n = MaterializeWith(m, class, -1)
    OBVIOUS
  <2>2. /\ Fit(n, b, own) /\ ValueFits(value, DOMAIN n.heap) /\ id \in DOMAIN n.heap
        /\ n.lost = {} => n.heap[id] = m.heap[id]
    BY <2>1, MaterializeFits, SmallWords
  <2>3. index \in Words
    BY HeapHasWords, NextWord
  <2>4. n.lost = {} => index \in 0 .. KnownSize(n.heap[id]) - 1
    BY <2>2, HeapHasWords DEF KnownSize
  <2>5. PICK k : k = SetElement(n, id, index, value)
    OBVIOUS
  <2>6. Fit(k, b, own) /\ DOMAIN k.heap = DOMAIN n.heap
    BY <2>2, <2>3, <2>4, <2>5, SetElementFits
  <2>7. WithElementAt(m, id, index) = k /\ ElementAt(m, id, index) = value
    BY <1>2, <2>1, <2>5 DEF WithElementAt, ElementAt, Materialize
  <2>8. QED
    BY <2>2, <2>6, <2>7
<1>3. QED
  BY <1>1, <1>2

LEMMA AgetObjectFits ==
  ASSUME NEW size, NEW b, AtInstruction(b, size), NEW own, NEW m, Fit(m, b, own), NEW i
  PROVE  Fitting(AgetObject(m, i), b, own, size)
<1>1. PICK id, index, length : /\ id = m.regs[i.b].id /\ index = m.regs[i.c].n
                               /\ length = m.heap[id].length
  OBVIOUS
<1>2. PICK sized : sized = IF length < 0 THEN SetLength(m, id, Wrap(index + 1)) ELSE m
  OBVIOUS
<1>3. PICK whole : whole = Advance(SetReg(WithElementAt(sized, id, index), i.a,
                                          ElementAt(sized, id, index)))
  OBVIOUS
<1>4. ASSUME {i.a, i.b, i.c} \subseteq DOMAIN m.regs, id \in DOMAIN m.heap,
             index >= 0, index < sized.heap[id].length
      PROVE  Fitting(whole, b, own, size)
  <2>1. index \in Words /\ index \in Int /\ index \in Nat
    BY <1>1, <1>4, RegFits
  <2>2. length \in Words /\ length \in Int
    BY <1>1, <1>4, HeapHasWords
  <2>3. Fit(sized, b, own) /\ DOMAIN sized.heap = DOMAIN m.heap
    <3>1. CASE length < 0
      <4>1. PICK w : w = Wrap(index + 1) /\ w \in Words /\ w \in Int
        <5>1. PICK n : n = index + 1 /\ n \in Int
          BY <2>1
        <5>2. QED
          BY <5>1, WrapIsWord
      <4>2. sized = SetLength(m, id, w)
        BY <1>2, <3>1, <4>1
      <4>3. sized.heap[id].length = w
        <5>1. sized.heap = WithLength(m.heap, id, w)
          BY <1>4, <4>2 DEF SetLength, WithLength, Fit, Sound, HoldsLatest
        <5>2. QED
          BY <1>4, <4>1, <5>1, LengthChanges DEF Fit
      <4>4. w >= 0 /\ w >= m.heap[id].length
        BY <1>1, <1>4, <2>1, <2>2, <3>1, <4>1, <4>3
      <4>5. QED
        BY <1>4, <4>1, <4>2, <4>4, SetLengthFits
    <3>2. CASE ~(length < 0)
      BY <1>2, <3>2
    <3>3. QED
      BY <3>1, <3>2
  <2>4. /\ Fit(WithElementAt(sized, id, index), b, own)
        /\ ValueFits(ElementAt(sized, id, index), DOMAIN WithElementAt(sized, id, index).heap)
    BY <1>4, <2>1, <2>3, ElementFits
  <2>5. QED
    BY <1>3, <2>4, SetRegAdvances
<1>5. QED
  BY <1>1, <1>2, <1>3, <1>4, StopFits
     DEF AgetObject, Whole, Registers, Holds, Ints, Known, Need

LEMMA IntegersFit ==
  ASSUME NEW size, NEW b, AtInstruction(b, size), NEW own, NEW m, Fit(m, b, own),
         NEW i, i.lit \in Int
  PROVE  /\ Fitting(AddInt(m, i), b, own, size) /\ Fitting(SubInt(m, i), b, own, size)
         /\ Fitting(RsubIntLit16(m, i), b, own, size)
         /\ Fitting(AddOrSubInt2Addr(m, i), b, own, size)
<1>1. ASSUME NEW dest, NEW left, NEW right, NEW n,
             {left, right} \subseteq DOMAIN m.regs => n \in Int
      PROVE  Fitting(IntOperation(m, dest, left, right, n), b, own, size)
  <2>1. ASSUME n \in Int PROVE Fitting(Advance(SetReg(m, dest, Num(Wrap(n)))), b, own, size)
    BY <2>1, WrapIsWord, ValuesFit, SetRegAdvances
  <2>2. QED
    BY <1>1, <2>1, StopFits DEF IntOperation, Registers, Ints, Need
<1>2. \A r \in DOMAIN m.regs : m.regs[r].n \in Int
  BY RegFits
<1>3. /\ Fitting(IntOperation(m, i.a, i.b, i.c, m.regs[i.b].n + m.regs[i.c].n), b, own, size)
      /\ Fitting(IntOperation(m, i.a, i.b, i.c, m.regs[i.b].n - m.regs[i.c].n), b, own, size)
      /\ Fitting(IntOperation(m, i.a, i.b, i.b, i.lit - m.regs[i.b].n), b, own, size)
      /\ Fitting(IntOperation(m, i.a, i.a, i.b, m.regs[i.a].n + m.regs[i.b].n), b, own, size)
      /\ Fitting(IntOperation(m, i.a, i.a, i.b, m.regs[i.a].n - m.regs[i.b].n), b, own, size)
  BY <1>1, <1>2
<1>4. QED
  BY <1>3, StopFits DEF AddInt, SubInt, RsubIntLit16, AddOrSubInt2Addr, Whole, Need

LEMMA LongsFit ==
  ASSUME NEW size, NEW b, AtInstruction(b, size), NEW own, NEW m, Fit(m, b, own), NEW i
  PROVE  /\ Fitting(CmpLong(m, i), b, own, size) /\ Fitting(SubLong(m, i), b, own, size)
         /\ Fitting(AddOrSubLong2Addr(m, i), b, own, size)
         /\ Fitting(OrLong(m, i), b, own, size) /\ Fitting(AndLong2Addr(m, i), b, own, size)
<1>1. ASSUME NEW r, NEW n \in Int PROVE Fitting(SetLong(m, r, n), b, own, size)
  BY LongsAreInts, ValuesFit, SetPairAdvances DEF SetLong
<1>2. ASSUME NEW left, NEW right PROVE Fitting(HalfByHalf(m, i, left, right), b, own, size)
  <2>1. \A n, k : ValueFits(Num(Bits(i, n, k)), DOMAIN m.heap)
    BY BitsAreRead, ValuesFit DEF Bits, BitOr, BitAnd
  <2>2. PICK low : low = SetReg(m, i.a, Num(Bits(i, m.regs[left].n, m.regs[right].n)))
    OBVIOUS
  <2>3. Fit(low, b, own) /\ low.heap = m.heap
    BY <2>1, <2>2, SetRegFits, SetRegKeeps DEF Fit
  <2>4. QED
    BY <2>1, <2>2, <2>3, SetRegAdvances DEF HalfByHalf
<1>3. \A r : r \in DOMAIN m.regs /\ r + 1 \in DOMAIN m.regs => Pair(m, r) \in Int
  BY RegFits, LongsAreInts DEF Pair
<1>4. Fitting(CmpLong(m, i), b, own, size)
  <2>1. ASSUME NEW n \in {-1, 0, 1} PROVE Fitting(Advance(SetReg(m, i.a, Num(n))), b, own, size)
    BY <2>1, SmallWords, ValuesFit, SetRegAdvances
  <2>2. QED
    BY <2>1, StopFits DEF CmpLong, LongOperands, Whole, Registers, Ints, Need
<1>5. Fitting(SubLong(m, i), b, own, size)
  <2>1. ASSUME Wide(i.b) \cup Wide(i.c) \subseteq DOMAIN m.regs
        PROVE  Fitting(SetLong(m, i.a, WrapLong(Pair(m, i.b) - Pair(m, i.c))), b, own, size)
    <3>1. Pair(m, i.b) \in Int /\ Pair(m, i.c) \in Int
      BY <1>3, <2>1 DEF Wide
    <3>2. Pair(m, i.b) - Pair(m, i.c) \in Int
      BY <3>1
    <3>3. QED
      BY <1>1, <3>2, LongsAreInts
  <2>2. QED
    BY <2>1, StopFits DEF SubLong, LongOperands, Whole, Registers, Ints, Need
<1>6. Fitting(AddOrSubLong2Addr(m, i), b, own, size)
  <2>1. ASSUME Wide(i.a) \cup Wide(i.b) \subseteq DOMAIN m.regs
        PROVE  /\ Fitting(SetLong(m, i.a, WrapLong(Pair(m, i.a) + Pair(m, i.b))), b, own, size)
               /\ Fitting(SetLong(m, i.a, WrapLong(Pair(m, i.a) - Pair(m, i.b))), b, own, size)
    <3>1. Pair(m, i.a) \in Int /\ Pair(m, i.b) \in Int
      BY <1>3, <2>1 DEF Wide
    <3>2. Pair(m, i.a) + Pair(m, i.b) \in Int /\ Pair(m, i.a) - Pair(m, i.b) \in Int
      BY <3>1
    <3>3. QED
      BY <1>1, <3>2, LongsAreInts
  <2>2. QED
    BY <2>1, StopFits DEF AddOrSubLong2Addr, LongOperands, Registers, Ints, Need
<1>7. Fitting(OrLong(m, i), b, own, size) /\ Fitting(AndLong2Addr(m, i), b, own, size)
  BY <1>2, StopFits DEF OrLong, AndLong2Addr, LongOperands, Whole, Registers, Ints, Need
<1>8. QED
  BY <1>4, <1>5, <1>6, <1>7

LEMMA BranchesFit ==
  ASSUME NEW size, NEW b, AtInstruction(b, size), NEW own, NEW m, Fit(m, b, own), NEW i
  PROVE  /\ Fitting(GotoOffset(m, i, size), b, own, size)
         /\ Fitting(PackedSwitch(m, i, size), b, own, size)
         /\ Fitting(IfEqz(m, i, size), b, own, size)
         /\ Fitting(IfNez(m, i, size), b, own, size)
         /\ Fitting(IfLtz(m, i, size), b, own, size)
         /\ Fitting(IfGtz(m, i, size), b, own, size)
         /\ Fitting(IfLt(m, i, size), b, own, size)
         /\ Fitting(IfGe(m, i, size), b, own, size)
         /\ Fitting(IfGt(m, i, size), b, own, size)
         /\ Fitting(IfNe(m, i, size), b, own, size)
<1>1. Fitting(Branch(m, i.lit, size), b, own, size) /\ Fitting(Advance(m), b, own, size)
  BY BranchFits, AdvanceFits
<1>2. Fitting(GotoOffset(m, i, size), b, own, size)
  BY <1>1 DEF GotoOffset
<1>3. Fitting(PackedSwitch(m, i, size), b, own, size)
  BY <1>1, StopFits DEF PackedSwitch, BranchIf, Whole, Registers, Ints, Need
<1>4. Fitting(IfEqz(m, i, size), b, own, size) /\ Fitting(IfNez(m, i, size), b, own, size)
  BY <1>1, StopFits DEF IfEqz, IfNez, BranchIf, Whole, Registers, Need
<1>5. Fitting(IfLtz(m, i, size), b, own, size) /\ Fitting(IfGtz(m, i, size), b, own, size)
  BY <1>1, StopFits DEF IfLtz, IfGtz, BranchIf, Whole, Registers, Need
<1>6. /\ Fitting(IfLt(m, i, size), b, own, size) /\ Fitting(IfGe(m, i, size), b, own, size)
      /\ Fitting(IfGt(m, i, size), b, own, size)
  BY <1>1, StopFits DEF IfLt, IfGe, IfGt, Compared, BranchIf, Whole, Registers, Ints, Need
<1>7. Fitting(IfNe(m, i, size), b, own, size)
  BY <1>1, StopFits DEF IfNe, BranchIf, Whole, Registers, Need
<1>8. QED
  BY <1>2, <1>3, <1>4, <1>5, <1>6, <1>7

(* A field that was never read is invented on the first read, static or not.         *)
LEMMA StaticsAreTyped ==
  ASSUME NEW b, NEW own, NEW m, Fit(m, b, own), NEW field
  PROVE  /\ Fit(WithStatic(m, field), b, own)
         /\ ValueFits(StaticValue(m, field), DOMAIN WithStatic(m, field).heap)
<1>1. CASE field \in DOMAIN m.statics
  BY <1>1 DEF WithStatic, StaticValue, Fit, AllFit
<1>2. CASE field \notin DOMAIN m.statics /\ ~IsReferenceType(FieldTypes[field])
  <2>1. PICK zero : zero = Num(0) /\ ValueFits(zero, DOMAIN m.heap)
    BY ValuesFit, SmallWords
  <2>2. PICK table : table = Put(m.statics, field, zero) /\ AllFit(table, DOMAIN m.heap)
    BY <2>1, PutFits DEF Fit
  <2>3. PICK n : n = [m EXCEPT !.statics = table]
    OBVIOUS
  <2>8. Fit(n, b, own)
    BY <2>2, <2>3, StaticsFit
  <2>9. n.heap = m.heap
    BY <2>3 DEF Fit, Sound, HoldsLatest
  <2>4. StaticValue(m, field) = zero
    BY <1>2, <2>1 DEF StaticValue
  <2>5. WithStatic(m, field) = n
    BY <1>2, <2>2, <2>3, <2>4 DEF WithStatic, Fit, Sound, HoldsLatest
  <2>6. QED
    BY <2>1, <2>4, <2>5, <2>8, <2>9
<1>3. CASE field \notin DOMAIN m.statics /\ IsReferenceType(FieldTypes[field])
  <2>1. PICK class, value : class = FieldTypes[field] /\ value = Fresh(m, class)
    OBVIOUS
  <2>2. PICK n : n = MaterializeWith(m, class, -1)
    OBVIOUS
  <2>3. /\ Fit(n, b, own) /\ n.statics = m.statics /\ ValueFits(value, DOMAIN n.heap)
    BY <2>1, <2>2, MaterializeFits, SmallWords
  <2>4. PICK table : table = Put(m.statics, field, value) /\ AllFit(table, DOMAIN n.heap)
    BY <2>3, PutFits DEF Fit
  <2>5. PICK k : k = [n EXCEPT !.statics = table]
    OBVIOUS
  <2>10. Fit(k, b, own)
    BY <2>3, <2>4, <2>5, StaticsFit
  <2>11. k.heap = n.heap
    BY <2>3, <2>5 DEF Fit, Sound, HoldsLatest
  <2>6. StaticValue(m, field) = value
    BY <1>3, <2>1 DEF StaticValue
  <2>7. WithStatic(m, field) = MaterializeWith([m EXCEPT !.statics = table], class, -1)
    BY <1>3, <2>1, <2>4, <2>6 DEF WithStatic, Materialize, Fit, Sound, HoldsLatest
  <2>8. MaterializeWith([m EXCEPT !.statics = table], class, -1) = k
    BY <2>2, <2>5 DEF MaterializeWith, Fit, Sound, HoldsLatest
  <2>9. QED
    BY <2>3, <2>6, <2>7, <2>8, <2>10, <2>11
<1>4. QED
  BY <1>1, <1>2, <1>3

LEMMA StaticFieldsFit ==
  ASSUME NEW size, NEW b, AtInstruction(b, size), NEW own, NEW m, Fit(m, b, own), NEW i
  PROVE  Fitting(Sget(m, i), b, own, size) /\ Fitting(Sput(m, i), b, own, size)
<1>1. Fitting(Sget(m, i), b, own, size)
  <2>1. PICK value, n : value = StaticValue(m, i.name) /\ n = WithStatic(m, i.name)
    OBVIOUS
  <2>2. Fitting(Advance(SetReg(n, i.a, value)), b, own, size)
    BY <2>1, StaticsAreTyped, SetRegAdvances
  <2>3. QED
    BY <2>1, <2>2, StopFits DEF Sget, Whole, Registers, Field, Need
<1>2. Fitting(Sput(m, i), b, own, size)
  <2>1. PICK value : value = StaticStored(i.name, m.regs[i.a])
    OBVIOUS
  <2>2. PICK table : table = Put(m.statics, i.name, value)
    OBVIOUS
  <2>3. ASSUME i.a \in DOMAIN m.regs
        PROVE  Fitting(Advance([m EXCEPT !.statics = table]), b, own, size)
    <3>1. ValueFits(value, DOMAIN m.heap)
      BY <2>1, <2>3, RegFits, ValuesFit DEF StaticStored
    <3>2. AllFit(table, DOMAIN m.heap)
      BY <2>2, <3>1, PutFits DEF Fit
    <3>3. Fit([m EXCEPT !.statics = table], b, own)
      BY <3>2, StaticsFit
    <3>4. QED
      BY <3>3, AdvanceFits
  <2>4. [m EXCEPT !.statics = Put(@, i.name, StaticStored(i.name, m.regs[i.a]))]
          = [m EXCEPT !.statics = table]
    BY <2>1, <2>2 DEF Fit, Sound, HoldsLatest
  <2>5. QED
    BY <2>3, <2>4, StopFits DEF Sput, Whole, Registers, Field, Need
<1>3. QED
  BY <1>1, <1>2

(* A field of the app is none of the keys the stubs use.                             *)
LEMMA FieldsAreNoKeys ==
  ASSUME NEW field \in DOMAIN FieldTypes
  PROVE  /\ field \notin {"collection", "index"} /\ field # "singleton"
         /\ HighOf(field) \notin {"collection", "index"} /\ HighOf(field) # "singleton"
BY ListKeysAssumption DEF ListKeys

LEMMA FieldIsRead ==
  ASSUME NEW b, NEW own, NEW m, Fit(m, b, own), NEW id \in DOMAIN m.heap,
         NEW field \in DOMAIN FieldTypes
  PROVE  /\ Fit(WithField(m, id, field), b, own)
         /\ ValueFits(FieldValue(m, id, field), DOMAIN WithField(m, id, field).heap)
         /\ id \in DOMAIN WithField(m, id, field).heap
<1>1. CASE field \in DOMAIN m.heap[id].fields
  <2>1. ValueFits(m.heap[id].fields[field], DOMAIN m.heap)
    BY <1>1, HeapHasWords DEF ObjectFits, AllFit
  <2>2. QED
    BY <1>1, <2>1 DEF WithField, FieldValue
<1>2. CASE field \notin DOMAIN m.heap[id].fields /\ ~IsReferenceType(FieldTypes[field])
  BY <1>2, ValuesFit, SmallWords DEF WithField, FieldValue
<1>3. CASE field \notin DOMAIN m.heap[id].fields /\ IsReferenceType(FieldTypes[field])
  <2>1. PICK class, value : class = FieldTypes[field] /\ value = Fresh(m, class)
    OBVIOUS
  <2>2. PICK n : n = MaterializeWith(m, class, -1)
    OBVIOUS
  <2>3. Fit(n, b, own) /\ ValueFits(value, DOMAIN n.heap) /\ id \in DOMAIN n.heap
    BY <2>1, <2>2, MaterializeFits, SmallWords
  <2>4. PICK k : k = SetField(n, id, field, value)
    OBVIOUS
  <2>5. Fit(k, b, own) /\ DOMAIN k.heap = DOMAIN n.heap
    BY <2>3, <2>4, SetFieldFits, FieldsAreNoKeys
  <2>6. WithField(m, id, field) = k /\ FieldValue(m, id, field) = value
    BY <1>3, <2>1, <2>2, <2>4 DEF WithField, FieldValue, Materialize
  <2>7. QED
    BY <2>3, <2>5, <2>6
<1>4. QED
  BY <1>1, <1>2, <1>3

LEMMA StoredIntFits ==
  ASSUME NEW fields, NEW ids, AllFit(fields, ids), NEW key
  PROVE  ValueFits(StoredInt(fields, key), ids)
BY ValuesFit, SmallWords DEF StoredInt, AllFit

(* The checks before a field is read, and what is known after them.                   *)
LEMMA LoadingFits ==
  ASSUME NEW size, NEW b, AtInstruction(b, size), NEW own, NEW m, Fit(m, b, own), NEW i,
         NEW rs, NEW after,
         /\ i.b \in DOMAIN m.regs /\ rs \subseteq DOMAIN m.regs
         /\ m.regs[i.b].id \in DOMAIN m.heap /\ i.name \in DOMAIN FieldTypes
         => Fitting(after, b, own, size)
  PROVE  Fitting(Loading(m, i, rs, after), b, own, size)
BY StopFits DEF Loading, Whole, Registers, Receiver, Field, Known, Need

LEMMA FieldLoadsFit ==
  ASSUME NEW size, NEW b, AtInstruction(b, size), NEW own, NEW m, Fit(m, b, own), NEW i
  PROVE  /\ Fitting(Iget(m, i), b, own, size) /\ Fitting(IgetObject(m, i), b, own, size)
         /\ Fitting(IgetBoolean(m, i), b, own, size)
         /\ Fitting(IgetWide(m, i), b, own, size)
<1>1. PICK id : id = m.regs[i.b].id
  OBVIOUS
<1>2. PICK value, n : value = FieldValue(m, id, i.name) /\ n = WithField(m, id, i.name)
  OBVIOUS
<1>3. ASSUME id \in DOMAIN m.heap, i.name \in DOMAIN FieldTypes
      PROVE  Fit(n, b, own) /\ ValueFits(value, DOMAIN n.heap) /\ id \in DOMAIN n.heap
  BY <1>2, <1>3, FieldIsRead
<1>4. Fitting(Iget(m, i), b, own, size)
  <2>1. ASSUME id \in DOMAIN m.heap, i.name \in DOMAIN FieldTypes
        PROVE  Fitting(Advance(SetReg(n, i.a, value)), b, own, size)
    BY <1>3, <2>1, SetRegAdvances
  <2>2. QED
    BY <1>1, <1>2, <2>1, LoadingFits DEF Iget
<1>5. Fitting(IgetBoolean(m, i), b, own, size)
  <2>1. ASSUME id \in DOMAIN m.heap, i.name \in DOMAIN FieldTypes
        PROVE  Fitting(Advance(SetReg(n, i.a, Truth(value))), b, own, size)
    BY <1>3, <2>1, SetRegAdvances, ValuesFit
  <2>2. QED
    BY <1>1, <1>2, <2>1, LoadingFits DEF IgetBoolean
<1>6. Fitting(IgetWide(m, i), b, own, size)
  <2>1. PICK fields : fields = n.heap[id].fields
    OBVIOUS
  <2>2. PICK low, high : /\ low = StoredInt(fields, i.name)
                         /\ high = StoredInt(fields, HighOf(i.name))
    OBVIOUS
  <2>3. ASSUME id \in DOMAIN m.heap, i.name \in DOMAIN FieldTypes
        PROVE  Fitting(Advance(SetPair(n, i.a, low, high)), b, own, size)
    <3>1. AllFit(fields, DOMAIN n.heap)
      BY <1>3, <2>1, <2>3, HeapHasWords DEF ObjectFits
    <3>2. QED
      BY <1>3, <2>2, <2>3, <3>1, StoredIntFits, SetPairAdvances
  <2>4. QED
    BY <1>1, <1>2, <2>1, <2>2, <2>3, LoadingFits DEF IgetWide
<1>7. QED
  BY <1>4, <1>5, <1>6 DEF IgetObject

LEMMA ProbeLoadsFit ==
  ASSUME NEW size, NEW b, AtInstruction(b, size), NEW own, NEW m, Fit(m, b, own), NEW i
  PROVE  /\ Fitting(ProbeIget(m, i), b, own, size)
         /\ Fitting(ProbeIgetObject(m, i), b, own, size)
         /\ Fitting(ProbeIgetBoolean(m, i), b, own, size)
         /\ Fitting(ProbeIgetWide(m, i), b, own, size)
<1>1. PICK id, fields : id = m.regs[i.b].id /\ fields = m.heap[id].fields
  OBVIOUS
<1>2. ASSUME id \in DOMAIN m.heap PROVE AllFit(fields, DOMAIN m.heap)
  BY <1>1, <1>2, HeapHasWords DEF ObjectFits
<1>3. ASSUME id \in DOMAIN m.heap, NEW default, ValueFits(default, DOMAIN m.heap)
      PROVE  ValueFits(WrittenOr(m, i, default), DOMAIN m.heap)
  BY <1>1, <1>2, <1>3 DEF WrittenOr, AllFit
<1>4. PICK zero : zero = Num(0) /\ ValueFits(zero, DOMAIN m.heap)
  BY ValuesFit, SmallWords
<1>5. Fitting(ProbeIget(m, i), b, own, size)
  <2>1. ASSUME id \in DOMAIN m.heap
        PROVE  Fitting(Advance(SetReg(m, i.a, WrittenOr(m, i, zero))), b, own, size)
    BY <1>3, <1>4, <2>1, SetRegAdvances
  <2>2. QED
    BY <1>1, <1>4, <2>1, LoadingFits DEF ProbeIget
<1>6. Fitting(ProbeIgetObject(m, i), b, own, size)
  <2>1. ASSUME id \in DOMAIN m.heap
        PROVE  Fitting(Advance(SetReg(m, i.a, WrittenOr(m, i, Unknown))), b, own, size)
    BY <1>3, <2>1, ValuesFit, SetRegAdvances
  <2>2. QED
    BY <1>1, <2>1, LoadingFits DEF ProbeIgetObject
<1>7. Fitting(ProbeIgetBoolean(m, i), b, own, size)
  <2>1. PICK value : value = Truth(WrittenOr(m, i, Num(0))) /\ ValueFits(value, DOMAIN m.heap)
    BY ValuesFit
  <2>2. Fitting(Advance(SetReg(m, i.a, value)), b, own, size)
    BY <2>1, SetRegAdvances
  <2>3. QED
    BY <2>1, <2>2, LoadingFits DEF ProbeIgetBoolean
<1>8. Fitting(ProbeIgetWide(m, i), b, own, size)
  <2>1. PICK low, high : /\ low = StoredInt(fields, i.name)
                         /\ high = StoredInt(fields, HighOf(i.name))
    OBVIOUS
  <2>2. ASSUME id \in DOMAIN m.heap
        PROVE  Fitting(Advance(SetPair(m, i.a, low, high)), b, own, size)
    BY <1>2, <2>1, <2>2, StoredIntFits, SetPairAdvances
  <2>3. QED
    BY <1>1, <2>1, <2>2, LoadingFits DEF ProbeIgetWide
<1>9. QED
  BY <1>5, <1>6, <1>7, <1>8

LEMMA FieldStoresFit ==
  ASSUME NEW size, NEW b, AtInstruction(b, size), NEW own, NEW m, Fit(m, b, own), NEW i
  PROVE  Fitting(IputWide(m, i), b, own, size) /\ Fitting(Iput(m, i), b, own, size)
<1>1. PICK id : id = m.regs[i.b].id
  OBVIOUS
<1>2. PICK one : one = SetField(m, id, i.name, m.regs[i.a])
  OBVIOUS
<1>3. ASSUME i.a \in DOMAIN m.regs, id \in DOMAIN m.heap, i.name \in DOMAIN FieldTypes
      PROVE  Fit(one, b, own) /\ DOMAIN one.heap = DOMAIN m.heap
  BY <1>2, <1>3, RegFits, SetFieldFits, FieldsAreNoKeys
<1>4. Fitting(Iput(m, i), b, own, size)
  <2>1. ASSUME i.a \in DOMAIN m.regs, id \in DOMAIN m.heap, i.name \in DOMAIN FieldTypes
        PROVE  Fitting(Advance(one), b, own, size)
    BY <1>3, <2>1, AdvanceFits
  <2>2. QED
    BY <1>1, <1>2, <2>1, LoadingFits DEF Iput
<1>5. PICK two : two = SetField(one, id, HighOf(i.name), m.regs[i.a + 1])
  OBVIOUS
<1>6. ASSUME i.a \in DOMAIN m.regs, i.a + 1 \in DOMAIN m.regs, id \in DOMAIN m.heap,
             i.name \in DOMAIN FieldTypes
      PROVE  Fitting(Advance(two), b, own, size)
  <2>1. ValueFits(m.regs[i.a + 1], DOMAIN one.heap)
    BY <1>3, <1>6, RegFits
  <2>2. Fit(two, b, own)
    BY <1>3, <1>5, <1>6, <2>1, SetFieldFits, FieldsAreNoKeys
  <2>3. QED
    BY <2>2, AdvanceFits
<1>7. Fitting(IputWide(m, i), b, own, size)
  BY <1>1, <1>2, <1>5, <1>6, StopFits
     DEF IputWide, Whole, Registers, Receiver, Ints, Field, Known, Need, Wide
<1>8. QED
  BY <1>4, <1>7

LEMMA MoveResultFits ==
  ASSUME NEW size, NEW b, AtInstruction(b, size), NEW own, NEW m, Fit(m, b, own), NEW i
  PROVE  Fitting(MoveResult(m, i), b, own, size)
<1>1. ASSUME NEW n, Fit(n, b, own)
      PROVE  Fitting(Advance([n EXCEPT !.pending.valid = FALSE, !.pending.wide = FALSE]),
                     b, own, size)
  <2>1. PICK k : k = [n EXCEPT !.pending.valid = FALSE, !.pending.wide = FALSE]
    OBVIOUS
  <2>2. /\ DOMAIN k = DOMAIN n /\ k.next = n.next /\ k.lost = n.lost /\ k.heap = n.heap
        /\ k.stop = n.stop /\ DOMAIN k.pending = DOMAIN n.pending
        /\ k.pending.valid = FALSE
    BY <1>1, <2>1 DEF Fit, Sound, HoldsLatest
  <2>3. Sound(k, b)
    BY <1>1, <2>2 DEF Fit, Sound, HoldsLatest, OwnsIds
  <2>4. /\ k.regs = n.regs /\ k.statics = n.statics /\ k.pc = n.pc /\ k.result = n.result
        /\ k.pending.low = n.pending.low /\ k.pending.high = n.pending.high
    BY <1>1, <2>1 DEF Fit, Sound, HoldsLatest
  <2>5. Fit(k, b, own)
    BY <1>1, <2>2, <2>3, <2>4 DEF Fit
  <2>6. QED
    BY <2>1, <2>5, AdvanceFits
<1>2. /\ Fit(SetReg(m, i.a, m.pending.low), b, own)
      /\ Fit(SetPair(m, i.a, m.pending.low, m.pending.high), b, own)
  BY SetRegFits, SetPairFits DEF Fit
<1>3. PICK one, two : /\ one = SetReg(m, i.a, m.pending.low)
                      /\ two = SetPair(m, i.a, m.pending.low, m.pending.high)
  OBVIOUS
<1>4. /\ Fitting(Advance([one EXCEPT !.pending.valid = FALSE, !.pending.wide = FALSE]),
                 b, own, size)
      /\ Fitting(Advance([two EXCEPT !.pending.valid = FALSE, !.pending.wide = FALSE]),
                 b, own, size)
  BY <1>1, <1>2, <1>3
<1>5. QED
  BY <1>3, <1>4, StopFits DEF MoveResult, Registers, Need

(* An instruction as the DEX has it: the literal of a const is an int.               *)
LiteralFits(i) == i.lit \in Int /\ (i.op \in {"const/4", "const/16"} => i.lit \in Words)

LEMMA SharedStepFits ==
  ASSUME NEW size, NEW b, AtInstruction(b, size), NEW own, NEW m, Fit(m, b, own),
         NEW i, LiteralFits(i)
  PROVE  Fitting(SharedStep(m, i, size), b, own, size)
<1>1. i.op \in {"nop", "move", "const/4", "const/16", "const-wide/16"}
        => Fitting(Moves(m, i), b, own, size)
  BY MovesFit, AdvanceFits DEF Moves, LiteralFits
<1>2. i.op \in {"long-to-int", "const-string", "goto"}
        => Fitting(Conversions(m, i, size), b, own, size)
  BY ConversionsFit, BranchesFit DEF Conversions
<1>3. i.op \in {"array-length", "packed-switch"} => Fitting(Lengths(m, i, size), b, own, size)
  BY ArrayLengthFits, BranchesFit DEF Lengths
<1>4. /\ Fitting(Casts(m, i), b, own, size) /\ Fitting(Queries(m, i), b, own, size)
      /\ Fitting(Elements(m, i), b, own, size)
  BY TypesFit, AgetObjectFits DEF Casts, Queries, Elements
<1>5. i.op \in {"cmp-long", "int-to-long", "or-long"} => Fitting(Longs(m, i), b, own, size)
  BY LongsFit, ConversionsFit DEF Longs
<1>6. i.op \in {"sub-int", "add-int", "rsub-int/lit16"} => Fitting(Sums(m, i), b, own, size)
  BY IntegersFit DEF Sums, LiteralFits
<1>7. i.op \in {"sub-long", "add-int/2addr", "sub-int/2addr"}
        => Fitting(Differences(m, i), b, own, size)
  BY IntegersFit, LongsFit DEF Differences, LiteralFits
<1>8. i.op \in {"and-long/2addr", "add-long/2addr", "sub-long/2addr"}
        => Fitting(LongsInPlace(m, i), b, own, size)
  BY LongsFit DEF LongsInPlace
<1>9. i.op \in {"if-nez", "if-ltz", "if-gtz"} => Fitting(ZeroTests(m, i, size), b, own, size)
  BY BranchesFit DEF ZeroTests
<1>10. i.op \in {"if-lt", "if-ne"} => Fitting(Comparisons(m, i, size), b, own, size)
  BY BranchesFit DEF Comparisons
<1>11. i.op \in {"if-ge", "if-gt"} => Fitting(Orderings(m, i, size), b, own, size)
  BY BranchesFit DEF Orderings
<1>12. Fitting(StaticLoads(m, i), b, own, size) /\ Fitting(StaticStores(m, i), b, own, size)
  BY StaticFieldsFit, MoveResultFits DEF StaticLoads, StaticStores
<1>13. i.op \in {"new-instance", "new-array"} => Fitting(Allocations(m, i), b, own, size)
  BY TypesFit DEF Allocations
<1>14. /\ Fitting(WideStores(m, i), b, own, size) /\ Fitting(IntStores(m, i), b, own, size)
       /\ Fitting(ObjectStores(m, i), b, own, size)
  BY FieldStoresFit DEF WideStores, IntStores, ObjectStores
<1>15. Fitting(Unsupported(m), b, own, size)
  BY StopFits DEF Unsupported
<1>16. QED
  BY <1>1, <1>2, <1>3, <1>4, <1>5, <1>6, <1>7, <1>8, <1>9, <1>10, <1>11, <1>12, <1>13,
     <1>14, <1>15 DEF SharedStep

LEMMA StepFits ==
  ASSUME NEW size, NEW b, AtInstruction(b, size), NEW own, NEW m, Fit(m, b, own),
         NEW i, LiteralFits(i)
  PROVE  /\ Fitting(ProbeStep(m, i, size), b, own, size)
         /\ Fitting(InlineStep(m, i, size), b, own, size)
<1>1. /\ Fitting(SharedStep(m, i, size), b, own, size)
      /\ Fitting(Unsupported(m), b, own, size)
      /\ Fitting(IfEqz(m, i, size), b, own, size)
  BY SharedStepFits, StopFits, BranchesFit DEF Unsupported
<1>2. Fitting(ProbeStep(m, i, size), b, own, size)
  BY <1>1, ProbeLoadsFit DEF ProbeStep
<1>3. Fitting(InlineStep(m, i, size), b, own, size)
  BY <1>1, FieldLoadsFit DEF InlineStep
<1>4. QED
  BY <1>2, <1>3

LEMMA SuperStubFits ==
  ASSUME NEW size, NEW b, AtInstruction(b, size), NEW own, NEW m, Fit(m, b, own), NEW i,
         i.name \in Frameworks
  PROVE  Fitting(SuperStub(m, i), b, own, size)
<1>1. Fit(Materialize(m, "AssetManager"), b, own)
  BY MaterializeFits, SmallWords DEF Materialize
<1>2. Fitting(Stop(Materialize(m, "AssetManager"), "framework_boundary_stubbed"), b, own, size)
  BY <1>1, StopFits
<1>3. QED
  BY <1>2, StopFits, AdvanceFits DEF SuperStub, Frameworks, Need

--------------------------------------------------------------------------------
(* The stubs: what they give back fits as well.                                     *)

LEMMA CreatingFits ==
  ASSUME NEW b, NEW own, NEW m, Fit(m, b, own), NEW class
  PROVE  Fit(Creating(m, class), b, own)
<1>1. PICK n : n = MaterializeWith(m, class, -1)
  OBVIOUS
<1>2. Fit(n, b, own) /\ ValueFits(Fresh(m, class), DOMAIN n.heap)
  BY <1>1, MaterializeFits, SmallWords
<1>3. QED
  BY <1>1, <1>2, ReturningFits DEF Creating, Materialize

(* The arguments of a call.                                                          *)
ArgumentsFit(m, args) ==
  /\ args = [k \in 1 .. Len(args) |-> args[k]] /\ Len(args) \in Nat
  /\ \A k \in 1 .. Len(args) : ValueFits(args[k], DOMAIN m.heap)

LEMMA ArgumentsAre ==
  ASSUME NEW size, NEW b, AtInstruction(b, size), NEW own, NEW m, Fit(m, b, own),
         NEW args, NEW kinds, NEW after,
         /\ Len(args) >= Len(kinds)
         /\ \A k \in DOMAIN kinds : args[k].kind = kinds[k]
         => Fit(after, b, own)
  PROVE  Fit(Arguments(m, args, kinds, after), b, own)
BY StopFits DEF Arguments, Need

(* An object among the arguments.                                                    *)
LEMMA ObjectArgument ==
  ASSUME NEW b, NEW own, NEW m, Fit(m, b, own), NEW args, ArgumentsFit(m, args),
         NEW k \in 1 .. Len(args)
  PROVE  /\ ValueFits(args[k], DOMAIN m.heap) /\ args[k].n \in Words /\ args[k].n \in Int
         /\ args[k].kind = "object" => IsObject(args[k]) /\ args[k].id \in DOMAIN m.heap
BY SmallWords DEF ArgumentsFit, ValueFits, IsObject

LEMMA YesFits ==
  ASSUME NEW size, NEW b, AtInstruction(b, size), NEW own, NEW m, Fit(m, b, own),
         NEW args, ArgumentsFit(m, args), NEW name
  PROVE  /\ Fit(VoidStub(m), b, own) /\ Fit(IdentityStub(m, name), b, own)
         /\ Fit(AssetStub(m, name), b, own)
         /\ Fit(Constructor(m, name, args), b, own) /\ Fit(StringStub(m, name, args), b, own)
<1>1. /\ Fit(VoidStub(m), b, own) /\ Fit(IdentityStub(m, name), b, own)
      /\ Fit(AssetStub(m, name), b, own)
  BY CreatingFits DEF VoidStub, IdentityStub, AssetStub
<1>2. Fit(Constructor(m, name, args), b, own)
  BY ArgumentsAre DEF Constructor
<1>3. Fit(Returning(MaterializeWith(m, "Chars", 1), Fresh(m, "Chars")), b, own)
  <2>1. PICK n : n = MaterializeWith(m, "Chars", 1)
    OBVIOUS
  <2>2. Fit(n, b, own) /\ ValueFits(Fresh(m, "Chars"), DOMAIN n.heap)
    BY <2>1, MaterializeFits, SmallWords
  <2>3. QED
    BY <2>1, <2>2, ReturningFits
<1>4. Fit(StringStub(m, name, args), b, own)
  BY <1>3, CreatingFits, ArgumentsAre DEF StringStub
<1>5. QED
  BY <1>1, <1>2, <1>4

(* A collection is sized as it was.                                                  *)
LEMMA SizedFits ==
  ASSUME NEW b, NEW own, NEW m, Fit(m, b, own), NEW id \in DOMAIN m.heap,
         NEW n, n = Sized(m, id)
  PROVE  /\ Fit(n, b, own)
         /\ DOMAIN n.heap = DOMAIN m.heap /\ n.lost = m.lost /\ n.next = m.next
         /\ n.heap[id].length = InferredSize(m.heap[id])
         /\ n.heap[id].fields = m.heap[id].fields
         /\ n.heap[id].elements = m.heap[id].elements
         /\ \A k \in DOMAIN m.heap : k # id => n.heap[k] = m.heap[k]
         /\ InferredSize(m.heap[id]) \in Words /\ InferredSize(m.heap[id]) \in Nat
         /\ own /\ m.lost = {} => InferredSize(m.heap[id]) = KnownSize(m.heap[id])
<1>1. PICK w : w = InferredSize(m.heap[id])
  OBVIOUS
<1>2. ObjectFits(m.heap[id], DOMAIN m.heap)
  BY HeapHasWords
<1>3. w \in Words /\ w >= 0 /\ w >= m.heap[id].length /\ w \in Nat
  <2>1. w \in Words /\ w >= 0 /\ w >= m.heap[id].length
    BY <1>1, <1>2, InferredFits
  <2>2. w \in Int
    BY <2>1, SmallWords
  <2>3. QED
    BY <2>1, <2>2
<1>4. own /\ m.lost = {} => w = KnownSize(m.heap[id])
  BY <1>1, <1>2, InferredIsSize DEF Fit, HeapHolds
<1>5. n = SetLength(m, id, w)
  BY <1>1 DEF Sized
<1>6. QED
  BY <1>1, <1>3, <1>4, <1>5, SetLengthFits

LEMMA ListsFit ==
  ASSUME NEW size, NEW b, AtInstruction(b, size), NEW own, NEW m, Fit(m, b, own),
         NEW args, ArgumentsFit(m, args)
  PROVE  Fit(ListSize(m, args), b, own) /\ Fit(ArrayListWithCapacity(m, args), b, own)
<1>1. PICK id : id = args[1].id
  OBVIOUS
<1>2. Fit(ListSize(m, args), b, own)
  <2>1. PICK n, w : n = Sized(m, id) /\ w = InferredSize(m.heap[id])
    OBVIOUS
  <2>2. ASSUME id \in DOMAIN m.heap PROVE Fit(Returning(n, Num(w)), b, own)
    <3>1. Fit(n, b, own) /\ w \in Words
      BY <2>1, <2>2, SizedFits
    <3>2. QED
      BY <3>1, ReturningFits, ValuesFit
  <2>3. QED
    BY <1>1, <2>1, <2>2, ArgumentsAre, StopFits DEF ListSize, Remembered, Need
<1>3. Fit(ArrayListWithCapacity(m, args), b, own)
  <2>1. PICK n : n = SetField(m, id, "capacity", args[2])
    OBVIOUS
  <2>2. ASSUME id \in DOMAIN m.heap, Len(args) >= 2
        PROVE  /\ Fit(n, b, own)
               /\ n.heap[id].length < 0 => Fit(SetLength(n, id, 0), b, own)
    <3>1. ValueFits(args[2], DOMAIN m.heap)
      BY <2>2, ObjectArgument DEF ArgumentsFit
    <3>2. Fit(n, b, own) /\ DOMAIN n.heap = DOMAIN m.heap
      BY <2>1, <2>2, <3>1, SetFieldFits
    <3>3. ASSUME n.heap[id].length < 0 PROVE Fit(SetLength(n, id, 0), b, own)
      <4>1. n.heap[id].length \in Int
        BY <2>2, <3>2, HeapHasWords
      <4>2. 0 >= n.heap[id].length /\ 0 \in Words
        BY <3>3, <4>1, SmallWords
      <4>3. QED
        BY <2>2, <3>2, <4>2, SetLengthFits
    <3>4. QED
      BY <3>2, <3>3
  <2>3. Len(<<"object", "int">>) = 2 /\ Len(args) \in Nat
    BY DEF ArgumentsFit
  <2>4. QED
    BY <1>1, <2>1, <2>2, <2>3, ArgumentsAre, StopFits DEF ArrayListWithCapacity, Remembered, Need
<1>4. QED
  BY <1>2, <1>3

LEMMA ReturningKeeps ==
  ASSUME NEW b, NEW own, NEW m, Fit(m, b, own), NEW value, NEW n, n = Returning(m, value)
  PROVE  n.heap = m.heap /\ n.lost = m.lost /\ n.next = m.next
BY DEF Returning, Fit, Sound, HoldsLatest

(* A new object that is given back.                                                  *)
LEMMA CreatedFits ==
  ASSUME NEW b, NEW own, NEW m, Fit(m, b, own), NEW class, NEW n, n = Creating(m, class)
  PROVE  /\ Fit(n, b, own)
         /\ DOMAIN m.heap \subseteq DOMAIN n.heap /\ m.next \in DOMAIN n.heap
         /\ \A k \in DOMAIN m.heap : k # m.next => n.heap[k] = m.heap[k]
         /\ n.heap[m.next] = Object(class, -1, m.born + 1)
         /\ n.lost = {} => m.lost = {} /\ m.next \notin DOMAIN m.heap
<1>1. PICK made : made = MaterializeWith(m, class, -1)
  OBVIOUS
<1>2. /\ Fit(made, b, own)
      /\ DOMAIN m.heap \subseteq DOMAIN made.heap /\ m.next \in DOMAIN made.heap
      /\ \A k \in DOMAIN m.heap : k # m.next => made.heap[k] = m.heap[k]
      /\ made.heap[m.next] = Object(class, -1, m.born + 1)
      /\ made.lost = {} => m.lost = {} /\ m.next \notin DOMAIN m.heap
      /\ ValueFits(Fresh(m, class), DOMAIN made.heap)
  BY <1>1, MaterializeFits, SmallWords
<1>3. n = Returning(made, Fresh(m, class))
  BY <1>1 DEF Creating, Materialize
<1>4. Fit(n, b, own) /\ n.heap = made.heap /\ n.lost = made.lost
  BY <1>2, <1>3, ReturningFits, ReturningKeeps
<1>5. QED
  BY <1>2, <1>4

LEMMA SingletonListFits ==
  ASSUME NEW size, NEW b, AtInstruction(b, size), NEW own, NEW m, Fit(m, b, own),
         NEW args, ArgumentsFit(m, args)
  PROVE  Fit(SingletonList(m, args), b, own)
<1>1. PICK item, one : /\ item = IF IsObject(args[1]) THEN args[1] ELSE Fresh(m, "Object")
                       /\ one = IF IsObject(args[1]) THEN m ELSE Materialize(m, "Object")
  OBVIOUS
<1>2. PICK id, two : id = one.next /\ two = Creating(one, "List")
  OBVIOUS
<1>3. PICK long : long = SetLength(two, id, 1)
  OBVIOUS
<1>4. PICK full : full = SetElement(long, id, 0, item)
  OBVIOUS
<1>5. PICK last : last = SetField(full, id, "singleton", item)
  OBVIOUS
<1>6. ASSUME Len(args) > 0 PROVE Fit(last, b, own)
  <2>1. ValueFits(args[1], DOMAIN m.heap)
    BY <1>6, ObjectArgument DEF ArgumentsFit
  <2>2. Fit(one, b, own) /\ ValueFits(item, DOMAIN one.heap)
    <3>1. CASE IsObject(args[1])
      BY <1>1, <2>1, <3>1
    <3>2. CASE ~IsObject(args[1])
      BY <1>1, <3>2, MaterializeFits, SmallWords DEF Materialize
    <3>3. QED
      BY <3>1, <3>2
  <2>3. /\ Fit(two, b, own) /\ DOMAIN one.heap \subseteq DOMAIN two.heap
        /\ id \in DOMAIN two.heap /\ two.heap[id] = Object("List", -1, one.born + 1)
    BY <1>2, <2>2, CreatedFits
  <2>4. two.heap[id].length = -1
    BY <2>3 DEF Object
  <2>5. 1 \in Words /\ 0 \in Words
    BY SmallWords
  <2>6. Fit(long, b, own) /\ DOMAIN long.heap = DOMAIN two.heap /\ long.heap[id].length = 1
    BY <1>3, <2>3, <2>4, <2>5, SetLengthFits
  <2>7. ValueFits(item, DOMAIN long.heap)
    BY <2>2, <2>3, <2>6, FitsMore
  <2>8. 0 \in 0 .. KnownSize(long.heap[id]) - 1
    BY <2>6 DEF KnownSize
  <2>9. /\ Fit(full, b, own) /\ DOMAIN full.heap = DOMAIN long.heap
        /\ full.heap[id].length = 1
    BY <1>4, <2>3, <2>5, <2>6, <2>7, <2>8, SetElementFits
  <2>10. QED
    BY <1>5, <2>3, <2>6, <2>7, <2>9, SetFieldFits
<1>7. QED
  BY <1>1, <1>2, <1>3, <1>4, <1>5, <1>6, StopFits DEF SingletonList, Need

(* A new iterator remembers its collection and that it is at its start.              *)
LEMMA IteratorStarts ==
  ASSUME NEW b, NEW own, NEW m, Fit(m, b, own), NEW id \in DOMAIN m.heap, NEW class, NEW birth,
         m.heap[id] = Object(class, -1, birth), NEW list, ValueFits(list, DOMAIN m.heap),
         IsObject(list)
  PROVE  Fit(SetField(SetField(m, id, "collection", list), id, "index", Num(0)), b, own)
<1>1. PICK one : one = SetField(m, id, "collection", list)
  OBVIOUS
<1>2. PICK two : two = SetField(one, id, "index", Num(0))
  OBVIOUS
<1>3. PICK any : ~any
  <2>1. \E any \in BOOLEAN : ~any
    OBVIOUS
  <2>2. QED
    BY <2>1, Zenon
<1>13. Fit(m, b, any)
  BY <1>3 DEF Fit
<1>4. /\ Fit(one, b, any) /\ DOMAIN one.heap = DOMAIN m.heap /\ one.lost = m.lost
      /\ one.heap[id].length = m.heap[id].length
      /\ one.heap[id].fields = Put(m.heap[id].fields, "collection", list)
      /\ one.heap[id].elements = m.heap[id].elements
      /\ \A k \in DOMAIN m.heap : k # id => one.heap[k] = m.heap[k]
  BY <1>1, <1>3, <1>13, SetFieldFits
<1>5. ValueFits(Num(0), DOMAIN one.heap)
  BY ValuesFit, SmallWords
<1>6. /\ Fit(two, b, any) /\ DOMAIN two.heap = DOMAIN m.heap /\ two.lost = m.lost
      /\ two.heap[id].length = m.heap[id].length
      /\ two.heap[id].fields = Put(one.heap[id].fields, "index", Num(0))
      /\ two.heap[id].elements = one.heap[id].elements
      /\ \A k \in DOMAIN m.heap : k # id => two.heap[k] = one.heap[k]
  BY <1>2, <1>3, <1>4, <1>5, SetFieldFits
<1>7. PICK f : f = two.heap[id].fields
  OBVIOUS
<1>8. /\ DOMAIN f = {"collection", "index"} /\ f["collection"] = list /\ f["index"] = Num(0)
  <2>1. m.heap[id].fields = <<>>
    BY DEF Object
  <2>2. QED
    BY <1>4, <1>6, <1>7, <2>1 DEF Put
<1>9. two.heap[id].elements = <<>>
  BY <1>4, <1>6 DEF Object
<1>10. ASSUME own, m.lost = {} PROVE HeapHolds(two.heap)
  <2>1. HeapHolds(m.heap)
    BY <1>10 DEF Fit
  <2>2. \A k \in DOMAIN m.heap : /\ KnownSize(m.heap[k]) = KnownSize(two.heap[k])
                                 /\ KnownSize(m.heap[k]) \in Nat
    BY <1>4, <1>6, HeapHasWords DEF KnownSize
  <2>3. ASSUME NEW k \in DOMAIN m.heap
        PROVE  HoldsItsOwn(two.heap[k]) /\ Within(two.heap[k], two.heap)
    <3>1. CASE k # id
      <4>1. two.heap[k] = m.heap[k] /\ HoldsItsOwn(m.heap[k]) /\ Within(m.heap[k], m.heap)
        BY <1>4, <1>6, <2>1, <3>1 DEF HeapHolds
      <4>2. Within(m.heap[k], two.heap)
        <5>1. \A j \in DOMAIN m.heap : KnownSize(m.heap[j]) \in Nat /\ KnownSize(two.heap[j]) \in Nat
                                       /\ KnownSize(m.heap[j]) <= KnownSize(two.heap[j])
          BY <2>2
        <5>2. QED
          BY <1>6, <4>1, <5>1, WithinStays
      <4>3. QED
        BY <4>1, <4>2
    <3>2. CASE k = id
      <4>1. HoldsItsOwn(two.heap[k])
        BY <1>7, <1>8, <1>9, <3>2 DEF HoldsItsOwn
      <4>2. list.id \in DOMAIN m.heap /\ KnownSize(two.heap[list.id]) \in Nat
        BY <2>2 DEF ValueFits
      <4>3. Num(0).n = 0 /\ IsInt(Num(0))
        BY DEF Num, Value, IsInt
      <4>4. Within(two.heap[k], two.heap)
        BY <1>6, <1>7, <1>8, <3>2, <4>2, <4>3 DEF Within
      <4>5. QED
        BY <4>1, <4>4
    <3>3. QED
      BY <3>1, <3>2
  <2>4. QED
    BY <1>6, <2>3 DEF HeapHolds
<1>11. Fit(two, b, own)
  BY <1>6, <1>10 DEF Fit
<1>12. QED
  BY <1>1, <1>2, <1>11

LEMMA ListIteratorFits ==
  ASSUME NEW size, NEW b, AtInstruction(b, size), NEW own, NEW m, Fit(m, b, own),
         NEW args, ArgumentsFit(m, args)
  PROVE  Fit(ListIterator(m, args), b, own)
<1>1. PICK list, id : list = args[1] /\ id = list.id
  OBVIOUS
<1>2. PICK one : one = Sized(m, id)
  OBVIOUS
<1>3. PICK at, two : at = one.next /\ two = Creating(one, "Iterator")
  OBVIOUS
<1>4. PICK last : last = SetField(SetField(two, at, "collection", list), at, "index", Num(0))
  OBVIOUS
<1>5. ASSUME Len(args) >= 1, list.kind = "object" PROVE Fit(last, b, own)
  <2>1. ValueFits(list, DOMAIN m.heap) /\ IsObject(list) /\ id \in DOMAIN m.heap
    BY <1>1, <1>5, ObjectArgument DEF ArgumentsFit
  <2>2. Fit(one, b, own) /\ DOMAIN one.heap = DOMAIN m.heap
    BY <1>2, <2>1, SizedFits
  <2>3. /\ Fit(two, b, own) /\ DOMAIN one.heap \subseteq DOMAIN two.heap
        /\ at \in DOMAIN two.heap /\ two.heap[at] = Object("Iterator", -1, one.born + 1)
    BY <1>3, <2>2, CreatedFits
  <2>4. ValueFits(list, DOMAIN two.heap)
    BY <2>1, <2>2, <2>3, FitsMore
  <2>5. QED
    BY <1>4, <2>1, <2>3, <2>4, IteratorStarts
<1>6. /\ Len(<<"object">>) = 1 /\ DOMAIN <<"object">> = {1} /\ <<"object">>[1] = "object"
  OBVIOUS
<1>7. QED
  BY <1>1, <1>2, <1>3, <1>4, <1>5, <1>6, ArgumentsAre, StopFits DEF ListIterator, Remembered, Need

LEMMA OneObject ==
  /\ Len(<<"object">>) = 1 /\ DOMAIN <<"object">> = {1} /\ <<"object">>[1] = "object"
  OBVIOUS

LEMMA IteratorHasNextFits ==
  ASSUME NEW size, NEW b, AtInstruction(b, size), NEW own, NEW m, Fit(m, b, own),
         NEW args, ArgumentsFit(m, args)
  PROVE  Fit(IteratorHasNext(m, args), b, own)
<1>1. PICK i, id : i = args[1].id /\ id = CollectionOf(m, i)
  OBVIOUS
<1>2. PICK more : more = Num(IF IndexOf(m, i) \in 0 .. InferredSize(m.heap[id]) - 1
                               THEN 1 ELSE 0)
  OBVIOUS
<1>3. \A ids : ValueFits(more, ids) /\ ValueFits(Num(0), ids)
  <2>1. 0 \in Words /\ 1 \in Words
    BY SmallWords
  <2>2. QED
    BY <1>2, <2>1, ValuesFit
<1>4. PICK sized : sized = Sized(m, id)
  OBVIOUS
<1>5. HasCollection(m, i) => Fit(Returning(sized, more), b, own)
  BY <1>1, <1>3, <1>4, SizedFits, ReturningFits DEF HasCollection, CollectionOf
<1>6. Fit(Returning(m, Num(0)), b, own)
  BY <1>3, ReturningFits
<1>7. QED
  BY <1>1, <1>2, <1>4, <1>5, <1>6, ArgumentsAre, StopFits DEF IteratorHasNext, Remembered, Need

(* The next element is one the collection has, or a new object it then has.          *)
LEMMA NextElementFits ==
  ASSUME NEW b, NEW own, NEW m, Fit(m, b, own), NEW id \in DOMAIN m.heap, NEW index \in Nat,
         index < m.heap[id].length,
         NEW n, n = WithNextElement(m, id, index)
  PROVE  /\ Fit(n, b, own) /\ ValueFits(NextElement(m, id, index), DOMAIN n.heap)
         /\ DOMAIN m.heap \subseteq DOMAIN n.heap
         /\ n.lost = {} =>
              /\ m.lost = {}
              /\ \A k \in DOMAIN m.heap : /\ n.heap[k].length = m.heap[k].length
                                          /\ n.heap[k].fields = m.heap[k].fields
<1>1. PICK kept : kept = KeptElement(m, id, index)
  OBVIOUS
<1>2. PICK made, value : /\ made = IF kept.kind = "unknown" THEN Materialize(m, "Object") ELSE m
                         /\ value = IF kept.kind = "unknown" THEN Fresh(m, "Object") ELSE kept
  OBVIOUS
<1>3. /\ Fit(made, b, own) /\ ValueFits(value, DOMAIN made.heap)
      /\ DOMAIN m.heap \subseteq DOMAIN made.heap
      /\ made.lost = {} => m.lost = {} /\ \A k \in DOMAIN m.heap : made.heap[k] = m.heap[k]
  <2>1. CASE kept.kind = "unknown"
    BY <1>2, <2>1, MaterializeFits, SmallWords DEF Materialize
  <2>2. CASE kept.kind # "unknown"
    <3>1. ObjectFits(m.heap[id], DOMAIN m.heap)
      BY HeapHasWords
    <3>2. Unknown.kind = "unknown"
      BY DEF Unknown, Value
    <3>3. ValueFits(kept, DOMAIN m.heap)
      BY <1>1, <2>2, <3>1, <3>2 DEF KeptElement, ObjectFits, AllFit
    <3>4. QED
      BY <1>2, <2>2, <3>3
  <2>3. QED
    BY <2>1, <2>2
<1>4. n = SetElement(made, id, index, value) /\ NextElement(m, id, index) = value
  BY <1>1, <1>2 DEF WithNextElement, NextElement
<1>5. m.heap[id].length \in Words /\ m.heap[id].length \in Int
  BY HeapHasWords
<1>6. index \in Words
  BY <1>5, NextWord
<1>7. made.lost = {} => index \in 0 .. KnownSize(made.heap[id]) - 1
  BY <1>3, <1>5 DEF KnownSize
<1>8. id \in DOMAIN made.heap
  BY <1>3
<1>9. /\ Fit(n, b, own)
      /\ DOMAIN n.heap = DOMAIN made.heap /\ n.lost = made.lost
      /\ n.heap[id].length = made.heap[id].length /\ n.heap[id].fields = made.heap[id].fields
      /\ \A k \in DOMAIN made.heap : k # id => n.heap[k] = made.heap[k]
  BY <1>3, <1>4, <1>6, <1>7, <1>8, SetElementFits
<1>10. n.lost = {} =>
         /\ m.lost = {}
         /\ \A k \in DOMAIN m.heap : /\ n.heap[k].length = m.heap[k].length
                                     /\ n.heap[k].fields = m.heap[k].fields
  BY <1>3, <1>9
<1>11. QED
  BY <1>3, <1>4, <1>9, <1>10

(* An iterator moves on within its collection.                                      *)
LEMMA IndexMoves ==
  ASSUME NEW b, NEW own, NEW m, Fit(m, b, own), NEW i \in DOMAIN m.heap,
         NEW value, ValueFits(value, DOMAIN m.heap),
         own /\ m.lost = {} =>
           /\ "collection" \in DOMAIN m.heap[i].fields
           /\ IsInt(value) /\ value.n \in 0 .. KnownSize(m.heap[m.heap[i].fields["collection"].id])
  PROVE  Fit(SetField(m, i, "index", value), b, own)
<1>1. PICK n : n = SetField(m, i, "index", value)
  OBVIOUS
<1>2. PICK any : ~any
  <2>1. \E any \in BOOLEAN : ~any
    OBVIOUS
  <2>2. QED
    BY <2>1, Zenon
<1>3. Fit(m, b, any)
  BY <1>2 DEF Fit
<1>4. /\ Fit(n, b, any) /\ DOMAIN n.heap = DOMAIN m.heap /\ n.lost = m.lost
      /\ n.heap[i].length = m.heap[i].length
      /\ n.heap[i].fields = Put(m.heap[i].fields, "index", value)
      /\ n.heap[i].elements = m.heap[i].elements
      /\ \A k \in DOMAIN m.heap : k # i => n.heap[k] = m.heap[k]
  BY <1>1, <1>2, <1>3, SetFieldFits
<1>5. PICK f, g : f = m.heap[i].fields /\ g = n.heap[i].fields
  OBVIOUS
<1>6. /\ DOMAIN g = DOMAIN f \cup {"index"} /\ g["index"] = value
      /\ "collection" \in DOMAIN f => g["collection"] = f["collection"]
  BY <1>4, <1>5 DEF Put
<1>7. ASSUME own, m.lost = {} PROVE HeapHolds(n.heap)
  <2>1. HeapHolds(m.heap)
    BY <1>7 DEF Fit
  <2>2. \A k \in DOMAIN m.heap : /\ KnownSize(m.heap[k]) = KnownSize(n.heap[k])
                                 /\ KnownSize(m.heap[k]) \in Nat
    BY <1>4, HeapHasWords DEF KnownSize
  <2>3. ASSUME NEW k \in DOMAIN m.heap
        PROVE  HoldsItsOwn(n.heap[k]) /\ Within(n.heap[k], n.heap)
    <3>1. CASE k # i
      <4>1. n.heap[k] = m.heap[k] /\ HoldsItsOwn(m.heap[k]) /\ Within(m.heap[k], m.heap)
        BY <1>4, <2>1, <3>1 DEF HeapHolds
      <4>2. \A j \in DOMAIN m.heap : KnownSize(m.heap[j]) \in Nat /\ KnownSize(n.heap[j]) \in Nat
                                     /\ KnownSize(m.heap[j]) <= KnownSize(n.heap[j])
        BY <2>2
      <4>3. Within(m.heap[k], n.heap)
        BY <1>4, <4>1, <4>2, WithinStays
      <4>4. QED
        BY <4>1, <4>3
    <3>2. CASE k = i
      <4>1. HoldsItsOwn(m.heap[i]) /\ Within(m.heap[i], m.heap)
        BY <2>1 DEF HeapHolds
      <4>2. HoldsItsOwn(n.heap[i])
        BY <1>4, <1>5, <1>6, <2>2, <4>1 DEF HoldsItsOwn
      <4>3. "collection" \in DOMAIN f
        BY <1>5, <1>7
      <4>4. IsObject(f["collection"]) /\ f["collection"].id \in DOMAIN m.heap
        BY <1>5, <4>1, <4>3 DEF Within
      <4>5. Within(n.heap[i], n.heap)
        BY <1>4, <1>5, <1>6, <1>7, <2>2, <4>3, <4>4 DEF Within
      <4>6. QED
        BY <3>2, <4>2, <4>5
    <3>3. QED
      BY <3>1, <3>2
  <2>4. QED
    BY <1>4, <2>3 DEF HeapHolds
<1>8. Fit(n, b, own)
  BY <1>4, <1>7 DEF Fit
<1>9. QED
  BY <1>1, <1>8

LEMMA IteratorNextFits ==
  ASSUME NEW size, NEW b, AtInstruction(b, size), NEW own, NEW m, Fit(m, b, own),
         NEW args, ArgumentsFit(m, args)
  PROVE  Fit(IteratorNext(m, args), b, own)
<1>1. PICK i, id, index, length :
        /\ i = args[1].id /\ id = CollectionOf(m, i) /\ index = IndexOf(m, i)
        /\ length = InferredSize(m.heap[id])
  OBVIOUS
<1>2. PICK sized : sized = Sized(m, id)
  OBVIOUS
<1>3. PICK next : next = WithNextElement(sized, id, index)
  OBVIOUS
<1>4. PICK value : value = NextElement(sized, id, index)
  OBVIOUS
<1>5. PICK last : last = SetField(next, i, "index", Num(Wrap(index + 1)))
  OBVIOUS
<1>6. ASSUME i \in DOMAIN m.heap, HasCollection(m, i), index \in 0 .. length - 1
      PROVE  Fit(Returning(last, value), b, own)
  <2>1. id \in DOMAIN m.heap /\ "collection" \in DOMAIN m.heap[i].fields
        /\ id = m.heap[i].fields["collection"].id
    BY <1>1, <1>6 DEF HasCollection, CollectionOf
  <2>2. /\ Fit(sized, b, own) /\ DOMAIN sized.heap = DOMAIN m.heap /\ sized.lost = m.lost
        /\ sized.heap[id].length = length /\ sized.heap[id].fields = m.heap[id].fields
        /\ \A k \in DOMAIN m.heap : k # id => sized.heap[k] = m.heap[k]
        /\ length \in Words /\ length \in Nat
    <3>1. /\ Fit(sized, b, own) /\ DOMAIN sized.heap = DOMAIN m.heap /\ sized.lost = m.lost
          /\ sized.heap[id].length = InferredSize(m.heap[id])
          /\ sized.heap[id].fields = m.heap[id].fields
          /\ \A k \in DOMAIN m.heap : k # id => sized.heap[k] = m.heap[k]
          /\ InferredSize(m.heap[id]) \in Words /\ InferredSize(m.heap[id]) \in Nat
      BY <1>2, <2>1, SizedFits
    <3>2. QED
      BY <1>1, <3>1
  <2>3. index \in Nat /\ index < length
    BY <1>6, <2>2
  <2>4. sized.heap[i].fields = m.heap[i].fields
    BY <1>6, <2>1, <2>2
  <2>5. /\ Fit(next, b, own) /\ ValueFits(value, DOMAIN next.heap)
        /\ DOMAIN sized.heap \subseteq DOMAIN next.heap
        /\ next.lost = {} =>
             /\ sized.lost = {}
             /\ \A k \in DOMAIN sized.heap : /\ next.heap[k].length = sized.heap[k].length
                                             /\ next.heap[k].fields = sized.heap[k].fields
    <3>1. id \in DOMAIN sized.heap /\ index < sized.heap[id].length
      BY <2>1, <2>2, <2>3
    <3>2. QED
      BY <1>3, <1>4, <2>2, <2>3, <3>1, NextElementFits
  <2>6. Wrap(index + 1) = index + 1 /\ index + 1 \in Words
    <3>1. Wrap(index + 1) = index + 1 /\ index + 1 \in Int
      BY <2>2, <2>3, NextWord
    <3>2. QED
      BY <3>1, WrapIsWord
  <2>7. PICK step : step = Num(index + 1)
    OBVIOUS
  <2>8. ValueFits(step, DOMAIN next.heap) /\ IsInt(step) /\ step.n = index + 1
    BY <2>6, <2>7, ValuesFit DEF Num, Value, IsInt
  <2>9. i \in DOMAIN next.heap
    BY <1>6, <2>2, <2>5
  <2>10. next.lost = {} =>
           /\ "collection" \in DOMAIN next.heap[i].fields
           /\ step.n \in 0 .. KnownSize(next.heap[next.heap[i].fields["collection"].id])
    BY <1>6, <2>1, <2>2, <2>3, <2>4, <2>5, <2>8 DEF KnownSize
  <2>11. last = SetField(next, i, "index", step)
    BY <1>5, <2>6, <2>7
  <2>12. Fit(last, b, own)
    BY <2>5, <2>8, <2>9, <2>10, <2>11, IndexMoves
  <2>13. DOMAIN last.heap = DOMAIN next.heap
    BY <2>5, <2>9, <2>11 DEF SetField, Fit, Sound, HoldsLatest
  <2>14. QED
    BY <2>5, <2>12, <2>13, ReturningFits
<1>7. QED
  BY <1>1, <1>2, <1>3, <1>4, <1>5, <1>6, ArgumentsAre, StopFits DEF IteratorNext, Remembered, Need

LEMMA OtherStubsFit ==
  ASSUME NEW size, NEW b, AtInstruction(b, size), NEW own, NEW m, Fit(m, b, own),
         NEW args, ArgumentsFit(m, args)
  PROVE  /\ Fit(ThreadGetId(m), b, own) /\ Fit(MathMin(m, args), b, own)
         /\ Fit(SetIterator(m), b, own) /\ Fit(IterableIterator(m, args), b, own)
         /\ Fit(CloseableClose(m, args), b, own) /\ Fit(ReaderRead(m, args), b, own)
<1>1. Fit(ThreadGetId(m), b, own)
  <2>1. PICK n : n = ThreadGetId(m)
    OBVIOUS
  <2>2. /\ DOMAIN n = DOMAIN m /\ n.next = m.next /\ n.invoked = m.invoked
        /\ n.pending = m.pending /\ n.lost = m.lost
        /\ n.heap = m.heap /\ n.stop # "class_missing"
        /\ n.pc = m.pc /\ n.regs = m.regs /\ n.statics = m.statics
        /\ n.result = [value |-> Num(1), high |-> Num(0), wide |-> TRUE]
    BY <2>1 DEF ThreadGetId, Fit, Sound, HoldsLatest
  <2>3. Sound(n, b)
    BY <2>2, UntouchedSound DEF Fit
  <2>4. 0 \in Words /\ 1 \in Words
    BY SmallWords
  <2>5. /\ DOMAIN n.result = {"value", "high", "wide"}
        /\ ValueFits(n.result.value, DOMAIN m.heap) /\ ValueFits(n.result.high, DOMAIN m.heap)
    BY <2>2, <2>4, ValuesFit
  <2>6. Fit(n, b, own)
    BY <2>2, <2>3, <2>5 DEF Fit
  <2>7. QED
    BY <2>1, <2>6
<1>2. Fit(MathMin(m, args), b, own)
  <2>1. ASSUME Len(args) >= 2
        PROVE  Fit(Returning(m, args[1]), b, own) /\ Fit(Returning(m, args[2]), b, own)
    BY <2>1, ObjectArgument, ReturningFits DEF ArgumentsFit
  <2>2. QED
    BY <2>1, ArgumentsAre DEF MathMin
<1>3. Fit(SetIterator(m), b, own) /\ Fit(IterableIterator(m, args), b, own)
  BY CreatingFits, ArgumentsAre DEF SetIterator, IterableIterator
<1>4. Fit(CloseableClose(m, args), b, own) /\ Fit(ReaderRead(m, args), b, own)
  <2>1. -1 \in Words
    BY SmallWords
  <2>2. Fit(Returning(m, Num(-1)), b, own)
    BY <2>1, ReturningFits, ValuesFit
  <2>3. QED
    BY <2>2, ArgumentsAre DEF CloseableClose, ReaderRead
<1>5. QED
  BY <1>1, <1>2, <1>3, <1>4

LEMMA AtomicsFit ==
  ASSUME NEW size, NEW b, AtInstruction(b, size), NEW own, NEW m, Fit(m, b, own),
         NEW args, ArgumentsFit(m, args)
  PROVE  Fit(AtomicGetAndSet(m, args), b, own) /\ Fit(AtomicSet(m, args), b, own)
<1>1. PICK id, new : id = args[1].id /\ new = args[2]
  OBVIOUS
<1>2. Len(args) >= 2 => ValueFits(new, DOMAIN m.heap)
  BY <1>1, ObjectArgument DEF ArgumentsFit
<1>3. Fit(AtomicSet(m, args), b, own)
  <2>1. ASSUME Len(args) >= 2, id \in DOMAIN m.heap
        PROVE  Fit(SetField(m, id, "value", new), b, own)
    BY <1>2, <2>1, SetFieldFits
  <2>2. QED
    BY <1>1, <2>1, ArgumentsAre, StopFits DEF AtomicSet, Remembered, Need
<1>4. Fit(AtomicGetAndSet(m, args), b, own)
  <2>1. PICK present, from, old :
          /\ present = ("value" \in DOMAIN m.heap[id].fields)
          /\ from = IF "value" \in DOMAIN m.heap[id].fields THEN m
                    ELSE Materialize(m, new.class)
          /\ old = IF "value" \in DOMAIN m.heap[id].fields THEN m.heap[id].fields["value"]
                   ELSE Fresh(m, new.class)
    OBVIOUS
  <2>2. PICK put : put = SetField(from, id, "value", new)
    OBVIOUS
  <2>3. ASSUME Len(args) >= 2, id \in DOMAIN m.heap PROVE Fit(Returning(put, old), b, own)
    <3>1. /\ Fit(from, b, own) /\ ValueFits(old, DOMAIN from.heap)
          /\ DOMAIN m.heap \subseteq DOMAIN from.heap
      <4>1. CASE "value" \in DOMAIN m.heap[id].fields
        BY <2>1, <2>3, <4>1, HeapHasWords DEF ObjectFits, AllFit
      <4>2. CASE "value" \notin DOMAIN m.heap[id].fields
        BY <2>1, <4>2, MaterializeFits, SmallWords DEF Materialize
      <4>3. QED
        BY <4>1, <4>2
    <3>2. ValueFits(new, DOMAIN from.heap) /\ id \in DOMAIN from.heap
      BY <1>2, <2>3, <3>1, FitsMore
    <3>3. Fit(put, b, own) /\ DOMAIN put.heap = DOMAIN from.heap
      BY <2>2, <3>1, <3>2, SetFieldFits
    <3>4. QED
      BY <3>1, <3>3, ReturningFits
  <2>4. QED
    BY <1>1, <2>1, <2>2, <2>3, ArgumentsAre, StopFits DEF AtomicGetAndSet, Remembered, Need
<1>5. QED
  BY <1>3, <1>4

LEMMA AtLeastFits ==
  ASSUME NEW b, NEW own, NEW m, Fit(m, b, own), NEW id \in DOMAIN m.heap,
         NEW length \in Words, own => length >= 0, NEW n, n = AtLeast(m, id, length)
  PROVE  /\ Fit(n, b, own) /\ DOMAIN n.heap = DOMAIN m.heap
         /\ n.heap[id].length >= length
         /\ \A k \in DOMAIN m.heap : n.heap[k].length >= m.heap[k].length
<1>1. length \in Int /\ \A k \in DOMAIN m.heap : m.heap[k].length \in Int
  BY SmallWords, HeapHasWords
<1>2. CASE m.heap[id].length < length
  <2>1. n = SetLength(m, id, length)
    BY <1>2 DEF AtLeast
  <2>2. length >= m.heap[id].length
    BY <1>1, <1>2
  <2>3. /\ Fit(n, b, own) /\ DOMAIN n.heap = DOMAIN m.heap
        /\ n.heap[id].length = length
        /\ \A k \in DOMAIN m.heap : k # id => n.heap[k] = m.heap[k]
    BY <2>1, <2>2, SetLengthFits
  <2>4. ASSUME NEW k \in DOMAIN m.heap PROVE n.heap[k].length >= m.heap[k].length
    <3>1. CASE k = id
      BY <2>2, <2>3, <3>1
    <3>2. CASE k # id
      BY <1>1, <2>3, <3>2
    <3>3. QED
      BY <3>1, <3>2
  <2>5. QED
    BY <1>1, <2>3, <2>4
<1>3. CASE ~(m.heap[id].length < length)
  BY <1>1, <1>3 DEF AtLeast
<1>4. QED
  BY <1>2, <1>3

(* One element is copied within the lengths of both arrays, which stay as they are.    *)
Inside(index, o) == index \in 0 .. KnownSize(o) - 1
SameLengths(n, m) ==
  /\ DOMAIN m.heap \subseteq DOMAIN n.heap
  /\ n.lost = {} => /\ m.lost = {}
                    /\ \A k \in DOMAIN m.heap : n.heap[k].length = m.heap[k].length

LEMMA CopyElementFits ==
  ASSUME NEW b, NEW own, NEW m, Fit(m, b, own), NEW type,
         NEW from \in DOMAIN m.heap, NEW to \in DOMAIN m.heap,
         NEW at \in Words, NEW into \in Words,
         own /\ m.lost = {} => Inside(at, m.heap[from]) /\ Inside(into, m.heap[to]),
         NEW n, n = CopyElement(m, type, from, at, to, into)
  PROVE  Fit(n, b, own) /\ SameLengths(n, m)
<1>1. CASE at \in DOMAIN m.heap[from].elements
  <2>1. PICK value : value = m.heap[from].elements[at]
    OBVIOUS
  <2>2. ValueFits(value, DOMAIN m.heap)
    BY <1>1, <2>1, HeapHasWords DEF ObjectFits, AllFit
  <2>3. n = SetElement(m, to, into, value)
    BY <1>1, <2>1 DEF CopyElement
  <2>4. /\ Fit(n, b, own)
        /\ DOMAIN n.heap = DOMAIN m.heap /\ n.lost = m.lost
        /\ n.heap[to].length = m.heap[to].length
        /\ \A k \in DOMAIN m.heap : k # to => n.heap[k] = m.heap[k]
    BY <2>2, <2>3, SetElementFits DEF Inside
  <2>5. QED
    BY <2>4 DEF SameLengths
<1>2. CASE at \notin DOMAIN m.heap[from].elements
  <2>1. PICK made, value :
          /\ made = IF IsReferenceType(type) THEN Materialize(m, type) ELSE m
          /\ value = IF IsReferenceType(type) THEN Fresh(m, type) ELSE Num(0)
    OBVIOUS
  <2>2. /\ Fit(made, b, own) /\ ValueFits(value, DOMAIN made.heap)
        /\ DOMAIN m.heap \subseteq DOMAIN made.heap
        /\ made.lost = {} => m.lost = {} /\ \A k \in DOMAIN m.heap : made.heap[k] = m.heap[k]
    <3>1. CASE IsReferenceType(type)
      BY <2>1, <3>1, MaterializeFits, SmallWords DEF Materialize
    <3>2. CASE ~IsReferenceType(type)
      <4>1. 0 \in Words
        BY SmallWords
      <4>2. QED
        BY <2>1, <3>2, <4>1, ValuesFit
    <3>3. QED
      BY <3>1, <3>2
  <2>3. PICK kept : kept = SetElement(made, from, at, value)
    OBVIOUS
  <2>4. /\ Fit(kept, b, own)
        /\ DOMAIN kept.heap = DOMAIN made.heap /\ kept.lost = made.lost
        /\ kept.heap[from].length = made.heap[from].length
        /\ \A k \in DOMAIN made.heap : k # from => kept.heap[k] = made.heap[k]
    <3>1. from \in DOMAIN made.heap
      BY <2>2
    <3>2. own /\ made.lost = {} => at \in 0 .. KnownSize(made.heap[from]) - 1
      BY <2>2 DEF Inside
    <3>3. QED
      BY <2>2, <2>3, <3>1, <3>2, SetElementFits
  <2>5. n = SetElement(kept, to, into, value)
    BY <1>2, <2>1, <2>3 DEF CopyElement
  <2>6. /\ Fit(n, b, own)
        /\ DOMAIN n.heap = DOMAIN kept.heap /\ n.lost = kept.lost
        /\ n.heap[to].length = kept.heap[to].length
        /\ \A k \in DOMAIN kept.heap : k # to => n.heap[k] = kept.heap[k]
    <3>1. to \in DOMAIN kept.heap /\ ValueFits(value, DOMAIN kept.heap)
      BY <2>2, <2>4
    <3>2. kept.lost = {} => KnownSize(kept.heap[to]) = KnownSize(m.heap[to]) /\ m.lost = {}
      BY <2>2, <2>4 DEF KnownSize
    <3>3. own /\ kept.lost = {} => into \in 0 .. KnownSize(kept.heap[to]) - 1
      BY <3>2 DEF Inside
    <3>4. QED
      BY <2>4, <2>5, <3>1, <3>3, SetElementFits
  <2>7. QED
    BY <2>2, <2>4, <2>6 DEF SameLengths
<1>3. QED
  BY <1>1, <1>2

(* The positions a copy reaches are ints.                                           *)
ReachesInts(args) ==
  /\ Wrap(args[2].n + args[5].n) = args[2].n + args[5].n
  /\ Wrap(args[4].n + args[5].n) = args[4].n + args[5].n
StaysInside(args) ==
  Len(args) >= 5 /\ (\A k \in {2, 4, 5} : IsInt(args[k]) /\ args[k].n \in Nat)
    => ReachesInts(args)

(* A copy that has got as far as `copied`.                                          *)
Copied(copied, m, args, b, own) ==
  LET from == args[1].id   to == args[3].id IN
  /\ Fit(copied, b, own) /\ DOMAIN m.heap \subseteq DOMAIN copied.heap
  /\ own /\ copied.lost = {} =>
       /\ copied.heap[from].length >= args[2].n + args[5].n
       /\ copied.heap[to].length >= args[4].n + args[5].n

LEMMA CopyStarts ==
  ASSUME NEW b, NEW own, NEW m, Fit(m, b, own), NEW args, own => ReachesInts(args),
         args[1].id \in DOMAIN m.heap, args[3].id \in DOMAIN m.heap,
         args[2].n \in Nat, args[4].n \in Nat, args[5].n \in Nat
  PROVE  Copied(LongEnough(m, args), m, args, b, own)
<1>1. PICK from, to, left, right : /\ from = args[1].id /\ to = args[3].id
                                   /\ left = args[2].n + args[5].n
                                   /\ right = args[4].n + args[5].n
  OBVIOUS
<1>2. left \in Nat /\ right \in Nat /\ left \in Int /\ right \in Int
  BY <1>1
<1>3. Wrap(left) \in Words /\ Wrap(right) \in Words
  BY <1>2, WrapIsWord
<1>4. own => Wrap(left) = left /\ Wrap(right) = right
  BY <1>1 DEF ReachesInts
<1>5. PICK one : one = AtLeast(m, from, Wrap(left))
  OBVIOUS
<1>6. own => Wrap(left) >= 0 /\ Wrap(right) >= 0
  BY <1>2, <1>4
<1>7. /\ Fit(one, b, own) /\ DOMAIN one.heap = DOMAIN m.heap
      /\ one.heap[from].length >= Wrap(left)
  BY <1>1, <1>3, <1>5, <1>6, AtLeastFits
<1>8. PICK two : two = AtLeast(one, to, Wrap(right))
  OBVIOUS
<1>9. /\ Fit(two, b, own) /\ DOMAIN two.heap = DOMAIN one.heap
      /\ two.heap[to].length >= Wrap(right)
      /\ \A k \in DOMAIN one.heap : two.heap[k].length >= one.heap[k].length
  <2>1. to \in DOMAIN one.heap
    BY <1>1, <1>7
  <2>2. QED
    BY <1>3, <1>6, <1>7, <1>8, <2>1, AtLeastFits
<1>10. two.heap[from].length >= Wrap(left)
  <2>1. one.heap[from].length \in Int /\ two.heap[from].length \in Int /\ Wrap(left) \in Int
    BY <1>1, <1>3, <1>7, <1>9, HeapHasWords, SmallWords
  <2>2. two.heap[from].length >= one.heap[from].length
    BY <1>1, <1>7, <1>9
  <2>3. QED
    BY <1>7, <2>1, <2>2
<1>11. two = LongEnough(m, args)
  BY <1>1, <1>5, <1>8 DEF LongEnough
<1>12. own => two.heap[from].length >= left /\ two.heap[to].length >= right
  BY <1>4, <1>9, <1>10
<1>13. QED
  BY <1>1, <1>7, <1>9, <1>11, <1>12 DEF Copied

LEMMA CopyGoesOn ==
  ASSUME NEW b, NEW own, NEW m, Fit(m, b, own), NEW args, own => ReachesInts(args),
         args[1].id \in DOMAIN m.heap, args[3].id \in DOMAIN m.heap,
         args[2].n \in Nat, args[4].n \in Nat, args[5].n \in Nat,
         NEW k \in Nat, k < args[5].n, NEW copied, Copied(copied, m, args, b, own)
  PROVE  Copied(CopyNext(copied, args, k), m, args, b, own)
<1>1. PICK from, to, at, into : /\ from = args[1].id /\ to = args[3].id
                                /\ at = Wrap(args[2].n + k) /\ into = Wrap(args[4].n + k)
  OBVIOUS
<1>2. PICK n : n = CopyElement(copied, ElementType(args[1].class), from, at, to, into)
  OBVIOUS
<1>3. CopyNext(copied, args, k) = n
  BY <1>1, <1>2 DEF CopyNext
<1>4. /\ Fit(copied, b, own) /\ from \in DOMAIN copied.heap /\ to \in DOMAIN copied.heap
      /\ own /\ copied.lost = {} =>
           /\ copied.heap[from].length >= args[2].n + args[5].n
           /\ copied.heap[to].length >= args[4].n + args[5].n
  BY <1>1 DEF Copied
<1>5. at \in Words /\ into \in Words
  <2>1. PICK x, y : x = args[2].n + k /\ y = args[4].n + k /\ x \in Int /\ y \in Int
    OBVIOUS
  <2>2. QED
    BY <1>1, <2>1, WrapIsWord
<1>6. ASSUME own PROVE at = args[2].n + k /\ into = args[4].n + k
  <2>1. ASSUME NEW p \in Nat, NEW length \in Nat, k < length, Wrap(p + length) = p + length
        PROVE  Wrap(p + k) = p + k
    <3>1. PICK whole : whole = p + length /\ whole \in Int
      OBVIOUS
    <3>2. whole \in Words
      BY <2>1, <3>1, WrapIsWord
    <3>3. PICK part : part = p + k /\ part \in Nat /\ part < whole
      BY <2>1, <3>1
    <3>4. part \in Words
      BY <3>2, <3>3, NextWord
    <3>5. QED
      BY <3>3, <3>4, WrapIsWord
  <2>2. QED
    BY <1>1, <1>6, <2>1 DEF ReachesInts
<1>7. own /\ copied.lost = {}
        => Inside(at, copied.heap[from]) /\ Inside(into, copied.heap[to])
  <2>1. copied.heap[from].length \in Int /\ copied.heap[to].length \in Int
    BY <1>4, HeapHasWords
  <2>2. QED
    BY <1>4, <1>6, <2>1 DEF KnownSize, Inside
<1>8. Fit(n, b, own) /\ SameLengths(n, copied)
  <2>1. Fit(copied, b, own) /\ from \in DOMAIN copied.heap /\ to \in DOMAIN copied.heap
    BY <1>4
  <2>2. PICK type : type = ElementType(args[1].class)
    OBVIOUS
  <2>3. n = CopyElement(copied, type, from, at, to, into)
    BY <1>2, <2>2
  <2>4. QED
    BY <1>5, <1>7, <2>1, <2>3, CopyElementFits
<1>9. Copied(n, m, args, b, own)
  <2>1. /\ DOMAIN m.heap \subseteq DOMAIN copied.heap
        /\ DOMAIN copied.heap \subseteq DOMAIN n.heap
        /\ n.lost = {} => /\ copied.lost = {}
                          /\ n.heap[from].length = copied.heap[from].length
                          /\ n.heap[to].length = copied.heap[to].length
    BY <1>4, <1>8 DEF Copied, SameLengths
  <2>2. QED
    BY <1>1, <1>4, <1>8, <2>1 DEF Copied
<1>10. QED
  BY <1>3, <1>9

LEMMA CopyingFits ==
  ASSUME NEW b, NEW own, NEW m, Fit(m, b, own), NEW args, own => ReachesInts(args),
         args[1].id \in DOMAIN m.heap, args[3].id \in DOMAIN m.heap,
         args[2].n \in Nat, args[4].n \in Nat, args[5].n \in Nat
  PROVE  Copied(Copying(m, args)[args[5].n], m, args, b, own)
<1> DEFINE T == {k \in Nat : k <= args[5].n => Copied(Copying(m, args)[k], m, args, b, own)}
<1>1. 0 \in T
  BY CopyingSteps, CopyStarts
<1>2. ASSUME NEW k \in T PROVE k + 1 \in T
  <2>1. ASSUME k + 1 <= args[5].n PROVE Copied(Copying(m, args)[k + 1], m, args, b, own)
    <3>1. k \in Nat /\ k < args[5].n /\ k <= args[5].n
      BY <2>1
    <3>2. Copied(Copying(m, args)[k], m, args, b, own)
      BY <3>1
    <3>3. Copied(CopyNext(Copying(m, args)[k], args, k), m, args, b, own)
      BY <3>1, <3>2, CopyGoesOn
    <3>4. QED
      BY <3>1, <3>3, CopyingSteps
  <2>2. QED
    BY <2>1
<1>3. T \in SUBSET Nat
  OBVIOUS
<1> HIDE DEF T
<1>4. T = Nat
  BY <1>1, <1>2, <1>3, OneByOne
<1>5. QED
  BY <1>4 DEF T

LEMMA ArrayCopyFits ==
  ASSUME NEW size, NEW b, AtInstruction(b, size), NEW own, NEW m, Fit(m, b, own),
         NEW args, ArgumentsFit(m, args), own => StaysInside(args)
  PROVE  Fit(ArrayCopy(m, args), b, own)
<1>1. ASSUME NEW copied, Copied(copied, m, args, b, own)
      PROVE  Fit(WithObjectsOf(m, copied), b, own)
  <2>1. PICK n : n = WithObjectsOf(m, copied)
    OBVIOUS
  <2>2. /\ DOMAIN n = DOMAIN m /\ n.next = copied.next /\ n.heap = copied.heap
        /\ n.lost = copied.lost /\ n.pending = m.pending /\ n.invoked = m.invoked
        /\ n.stop = m.stop /\ n.pc = m.pc /\ n.regs = m.regs /\ n.statics = m.statics
        /\ n.result = m.result
    BY <2>1 DEF WithObjectsOf, Fit, Sound, HoldsLatest
  <2>3. Sound(n, b)
    BY <1>1, <2>2 DEF Copied, Fit, Sound, HoldsLatest, OwnsIds
  <2>4. PICK ids, more : ids = DOMAIN m.heap /\ more = DOMAIN n.heap
    OBVIOUS
  <2>5. ids \subseteq more
    BY <1>1, <2>2, <2>4 DEF Copied
  <2>6. /\ AllFit(m.regs, more) /\ AllFit(m.statics, more)
        /\ ValueFits(m.pending.low, more) /\ ValueFits(m.pending.high, more)
        /\ ValueFits(m.result.value, more) /\ ValueFits(m.result.high, more)
    BY <2>4, <2>5, FitsMore DEF Fit
  <2>7. Fit(n, b, own)
    BY <1>1, <2>2, <2>3, <2>4, <2>5, <2>6 DEF Fit, Copied
  <2>8. QED
    BY <2>1, <2>7
<1>2. PICK kinds : kinds = <<"object", "int", "object", "int", "int">>
  OBVIOUS
<1>3. ASSUME args[1].id \in DOMAIN m.heap, args[3].id \in DOMAIN m.heap,
             \A k \in {2, 4, 5} : args[k].n \in Nat,
             Len(args) >= Len(kinds), \A k \in DOMAIN kinds : args[k].kind = kinds[k]
      PROVE  Fit(WithObjectsOf(m, Copying(m, args)[args[5].n]), b, own)
  <2>1. Len(args) >= 5 /\ \A k \in {2, 4, 5} : IsInt(args[k])
    BY <1>2, <1>3 DEF IsInt
  <2>2. own => ReachesInts(args)
    BY <1>3, <2>1 DEF StaysInside
  <2>3. args[2].n \in Nat /\ args[4].n \in Nat /\ args[5].n \in Nat
    BY <1>3
  <2>4. QED
    BY <1>1, <1>3, <2>2, <2>3, CopyingFits
<1>4. QED
  BY <1>2, <1>3, ArgumentsAre, StopFits DEF ArrayCopy, Remembered, Need

LEMMA StubFits ==
  ASSUME NEW size, NEW b, AtInstruction(b, size), NEW own, NEW m, Fit(m, b, own),
         NEW args, ArgumentsFit(m, args), NEW name \in Stubbed,
         own /\ name = "System.arraycopy" => StaysInside(args)
  PROVE  Fit(Stub(m, name, args), b, own)
<1>1. name \in ListStubs => Fit(ListStub(m, name, args), b, own)
  BY ListsFit, SingletonListFits, ListIteratorFits, IteratorHasNextFits, IteratorNextFits
     DEF ListStub, ListStubs
<1>2. name \in OtherStubs => Fit(OtherStub(m, name, args), b, own)
  BY OtherStubsFit, AtomicsFit, ArrayCopyFits DEF OtherStub, OtherStubs
<1>3. QED
  BY <1>1, <1>2, YesFits DEF Stub, Stubbed

--------------------------------------------------------------------------------
(* The frames: their values fit the objects there are, and each is at an instruction  *)
(* of its method, at the call it waits for, or at the end.                           *)

FrameFits(f, ids) ==
  /\ AllFit(f.regs, ids) /\ AllFit(f.statics, ids)
  /\ ValueFits(f.pending.low, ids) /\ ValueFits(f.pending.high, ids)
FrameIsAt(f, methods) ==
  f.method \in DOMAIN methods /\ f.pc \in 0 .. Len(methods[f.method].code)
WaitsAt(f, methods) ==
  f.method \in DOMAIN methods /\ f.pc \in 0 .. Len(methods[f.method].code) - 1

InstructionFits(i) ==
  LiteralFits(i) /\ i.args \in Seq(Nat) /\ i.a \in Nat /\ i.b \in Nat /\ i.c \in Nat
CodeFits ==
  \A name \in DOMAIN code : \A pc \in DOMAIN code[name] : InstructionFits(code[name][pc])
PhaseFits ==
  dexPhase \in Phases /\ (frames # <<>> <=> dexPhase \in {"interpreting", "crashed"})
FramesFit ==
  \A k \in DOMAIN frames :
    /\ FrameFits(frames[k], DOMAIN heap) /\ FrameIsAt(frames[k], Methods)
    /\ k < Len(frames) => WaitsAt(frames[k], Methods)

(* The types, and the collections that hold their own.                               *)
TypesKept == PhaseFits /\ FramesFit /\ CodeFits /\ HeapFits(heap)
Collected == lost = {} => HeapHolds(heap)

(* The code as the APK has it.                                                       *)
CodeTyped ==
  \A name \in DOMAIN Methods :
    /\ Len(Methods[name].code) \in Nat
    /\ \A k \in 1 .. Len(Methods[name].code) : Methods[name].code[k] \subseteq Instructions

(* The interpreter at an instruction.                                                *)
Reading == Interpreting /\ TypesKept /\ CodeTyped /\ Top.pc < Len(Body)

LEMMA CodeIsTyped == ASSUME apk \in Apks PROVE CodeTyped
<1>1. ASSUME NEW name \in DOMAIN Methods
      PROVE  /\ Len(Methods[name].code) \in Nat
             /\ \A k \in 1 .. Len(Methods[name].code) :
                  Methods[name].code[k] \subseteq Instructions
  <2>1. PICK c : c = Methods[name].code
    OBVIOUS
  <2>2. c \in Seq(SUBSET Instructions)
    BY <2>1, DexAssumption DEF Methods
  <2>3. Len(c) \in Nat /\ \A k \in 1 .. Len(c) : c[k] \in SUBSET Instructions
    BY <2>2
  <2>4. QED
    BY <2>1, <2>3
<1>2. QED
  BY <1>1 DEF CodeTyped

LEMMA InstructionsFit == \A i \in Instructions : InstructionFits(i)
<1>1. ASSUME NEW i \in Instructions PROVE InstructionFits(i)
  <2>1. i.lit \in Int /\ i.args \in Seq(Nat) /\ i.a \in Nat /\ i.b \in Nat /\ i.c \in Nat
    BY DEF Instructions
  <2>2. i.op \in {"const/4", "const/16"} => Wrap(i.lit) = i.lit
    BY DEF Instructions
  <2>3. i.op \in {"const/4", "const/16"} => i.lit \in Words
    BY <2>1, <2>2, WrapIsWord
  <2>4. QED
    BY <2>1, <2>3 DEF InstructionFits, LiteralFits
<1>2. QED
  BY <1>1

LEMMA TopFits ==
  ASSUME Reading, NEW own, own => Collected
  PROVE  /\ Fit(Machine, Machine, own) /\ AtInstruction(Machine, Len(Body))
         /\ Top.method \in DOMAIN Methods /\ Len(frames) \in DOMAIN frames
         /\ Len(frames) \in Nat /\ DOMAIN frames = 1 .. Len(frames)
<1>1. /\ Sound(Machine, Machine) /\ HoldsLatest(Top) /\ Len(frames) \in Nat
      /\ dexPhase = "interpreting" /\ AllHold(frames) /\ frames # <<>>
  BY TopSound DEF Reading, Interpreting, FramesHold
<1>2. Len(frames) \in DOMAIN frames /\ DOMAIN frames = 1 .. Len(frames)
  BY <1>1, FramesAreNumbered
<1>3. FrameFits(Top, DOMAIN heap) /\ FrameIsAt(Top, Methods)
  BY <1>2 DEF Reading, TypesKept, FramesFit, Top
<1>4. PICK m : m = Machine
  OBVIOUS
<1>5. /\ m.regs = Top.regs /\ m.pc = Top.pc /\ m.statics = Top.statics
      /\ m.pending = Top.pending /\ m.heap = heap /\ m.lost = lost
      /\ m.result = NoResult
  BY <1>4 DEF Machine
<1>6. /\ DOMAIN m.result = {"value", "high", "wide"}
      /\ ValueFits(m.result.value, DOMAIN heap) /\ ValueFits(m.result.high, DOMAIN heap)
  BY <1>5, ValuesFit DEF NoResult
<1>7. HeapFits(heap) /\ (own /\ lost = {} => HeapHolds(heap))
  BY DEF Reading, TypesKept, Collected
<1>8. Fit(m, m, own)
  BY <1>1, <1>3, <1>4, <1>5, <1>6, <1>7 DEF Fit, FrameFits
<1>9. /\ Len(Body) \in Nat /\ Top.pc \in 0 .. Len(Body) - 1
  <2>1. PICK n : n = Len(Body) /\ n \in Nat /\ Top.pc \in 0 .. n
    BY <1>3 DEF Reading, CodeTyped, Body, FrameIsAt
  <2>2. Top.pc < n
    BY <2>1 DEF Reading
  <2>3. QED
    BY <2>1, <2>2
<1>10. QED
  BY <1>1, <1>2, <1>3, <1>4, <1>5, <1>8, <1>9 DEF AtInstruction, FrameIsAt

(* The instruction that is decoded fits, and what has been decoded goes on fitting.   *)
LEMMA DecodedFits ==
  ASSUME Reading, NEW i, Decodes(i)
  PROVE  InstructionFits(i) /\ CodeFits'
<1>1. /\ Top.method \in DOMAIN Methods /\ DOMAIN code = DOMAIN Methods
      /\ Len(Body) \in Nat /\ Top.pc \in 0 .. Len(Body) - 1
  <2>1. PICK any : ~any
    <3>1. \E any \in BOOLEAN : ~any
      OBVIOUS
    <3>2. QED
      BY <3>1, Zenon
  <2>2. any => Collected
    BY <2>1, Zenon
  <2>3. AtInstruction(Machine, Len(Body)) /\ Top.method \in DOMAIN Methods
    BY <2>2, TopFits
  <2>4. Machine.pc = Top.pc
    BY DEF Machine
  <2>5. QED
    BY <2>3, <2>4 DEF AtInstruction, Reading, Interpreting, IdsHold
<1>2. InstructionFits(i)
  <2>1. CASE Top.pc \in DOMAIN code[Top.method]
    <3>1. i = code[Top.method][Top.pc]
      BY <2>1 DEF Decodes, Readable
    <3>2. QED
      BY <1>1, <2>1, <3>1 DEF Reading, TypesKept, CodeFits
  <2>2. CASE Top.pc \notin DOMAIN code[Top.method]
    <3>1. i \in Body[Top.pc + 1]
      BY <2>2 DEF Decodes, Readable
    <3>2. Top.pc + 1 \in 1 .. Len(Body)
      BY <1>1
    <3>3. Body[Top.pc + 1] \subseteq Instructions
      BY <1>1, <3>2 DEF Reading, CodeTyped, Body
    <3>4. i \in Instructions
      BY <3>1, <3>3
    <3>5. QED
      BY <3>4, InstructionsFit
  <2>3. QED
    BY <2>1, <2>2
<1>3. code' = [code EXCEPT ![Top.method] = Put(code[Top.method], Top.pc, i)]
  BY <1>1 DEF Decodes
<1>4. PICK settled : settled = Put(code[Top.method], Top.pc, i)
  OBVIOUS
<1>5. /\ DOMAIN code' = DOMAIN code /\ code'[Top.method] = settled
      /\ \A name \in DOMAIN code : name # Top.method => code'[name] = code[name]
  BY <1>1, <1>3, <1>4
<1>6. \A pc \in DOMAIN settled : InstructionFits(settled[pc])
  BY <1>1, <1>2, <1>4 DEF Put, Reading, TypesKept, CodeFits
<1>7. ASSUME NEW name \in DOMAIN code', NEW pc \in DOMAIN code'[name]
      PROVE  InstructionFits(code'[name][pc])
  BY <1>5, <1>6 DEF Reading, TypesKept, CodeFits
<1>8. QED
  BY <1>2, <1>7 DEF CodeFits

LEMMA HeapStays ==
  ASSUME TypesKept, NEW own, own => Collected, UNCHANGED <<heap, lost>>
  PROVE  HeapFits(heap') /\ (own => Collected')
  BY DEF TypesKept, Collected

LEMMA ConcludeFits ==
  ASSUME NEW own, CodeFits', NEW blocker, Conclude(blocker), HeapFits(heap'), own => Collected'
  PROVE  TypesKept' /\ (own => Collected')
<1>1. frames' = <<>> /\ dexPhase' = "staging" /\ DOMAIN frames' = {}
  BY DEF Conclude
<1>2. PhaseFits' /\ FramesFit'
  BY <1>1 DEF PhaseFits, FramesFit, Phases
<1>3. QED
  BY <1>2 DEF TypesKept

(* The frames below the top one keep what they hold, for objects are never taken      *)
(* away.                                                                            *)
LEMMA FrameFitsMore ==
  ASSUME NEW f, NEW ids, NEW more, FrameFits(f, ids), ids \subseteq more
  PROVE  FrameFits(f, more)
  BY FitsMore DEF FrameFits

LEMMA InstallFits ==
  ASSUME Reading, NEW own, own => Collected, NEW m, Fitting(m, Machine, own, Len(Body)),
         Install(m), apk' = apk, CodeFits'
  PROVE  TypesKept' /\ (own => Collected')
<1>1. heap' = m.heap /\ lost' = m.lost
  BY DEF Install
<1>2. HeapFits(heap') /\ (own => Collected')
  BY <1>1 DEF Fitting, Collected
<1>3. CASE m.stop # "none"
  <2>1. Conclude(m.stop)
    BY <1>3 DEF Install
  <2>2. QED
    BY <1>2, <2>1, ConcludeFits
<1>4. CASE m.stop = "none"
  <2>1. /\ Len(frames) \in DOMAIN frames /\ Top.method \in DOMAIN Methods
        /\ DOMAIN frames = 1 .. Len(frames) /\ Len(frames) \in Nat
    BY TopFits
  <2>2. PICK f : f = Updated(Top, m)
    OBVIOUS
  <2>3. HoldsLatest(Top)
    BY TopSound DEF Reading
  <2>4. /\ frames' = [frames EXCEPT ![Len(frames)] = f] /\ dexPhase' = dexPhase
    BY <1>4, <2>1, <2>2 DEF Install, Continue, Top
  <2>5. /\ DOMAIN frames' = DOMAIN frames /\ frames'[Len(frames)] = f
        /\ \A k \in DOMAIN frames : k # Len(frames) => frames'[k] = frames[k]
    BY <2>1, <2>4
  <2>6. /\ f.pc = m.pc /\ f.regs = m.regs
        /\ f.statics = m.statics /\ f.pending = m.pending
    BY <2>2, <2>3 DEF Updated, HoldsLatest
  <2>7. f.method = Top.method
    BY <2>2 DEF Updated
  <2>8. FrameFits(f, DOMAIN heap')
    BY <1>1, <2>6 DEF Fitting, FrameFits
  <2>9. FrameIsAt(f, Methods)
    BY <2>1, <2>6, <2>7 DEF Fitting, FrameIsAt, Body
  <2>10. DOMAIN heap \subseteq DOMAIN heap'
    BY <1>1 DEF Fitting, Machine
  <2>11. Len(frames') = Len(frames) /\ frames' # <<>>
    BY <2>1, <2>5, <2>4
  <2>12. ASSUME NEW k \in DOMAIN frames'
         PROVE  /\ FrameFits(frames'[k], DOMAIN heap') /\ FrameIsAt(frames'[k], Methods)
                /\ k < Len(frames') => WaitsAt(frames'[k], Methods)
    <3>1. CASE k = Len(frames)
      BY <2>1, <2>5, <2>8, <2>9, <2>11, <3>1
    <3>2. CASE k # Len(frames)
      <4>1. frames'[k] = frames[k] /\ k \in DOMAIN frames
        BY <2>5, <3>2
      <4>2. QED
        BY <2>10, <2>11, <4>1, FrameFitsMore DEF Reading, TypesKept, FramesFit
    <3>3. QED
      BY <3>1, <3>2
  <2>13. FramesFit'
    BY <2>12 DEF FramesFit, Methods
  <2>14. PhaseFits'
    BY <2>4, <2>11 DEF PhaseFits, Reading, Interpreting, Phases
  <2>15. QED
    BY <1>2, <2>13, <2>14 DEF TypesKept
<1>5. QED
  BY <1>3, <1>4

(* A call that can be made passes registers there are.                               *)
LEMMA PassedFit ==
  ASSUME Reading, NEW own, own => Collected, NEW i, InstructionFits(i), Callable(i)
  PROVE  ArgumentsFit(Machine, Passed(i))
<1>1. PICK m : m = Machine
  OBVIOUS
<1> m.regs = Top.regs /\ m.heap = heap /\ m.stop = "none"
  BY <1>1 DEF Machine
<1>2. Fit(m, m, own)
  BY <1>1, TopFits
<1>3. ASSUME NEW reason, reason # "none" PROVE Stop(m, reason).stop # "none"
  BY <1>2, <1>3 DEF Stop, Fit, Sound
<1>4. Range(i.args) \subseteq DOMAIN Top.regs
  <2>1. CallChecks(m, i).stop = "none"
    BY <1>1 DEF Callable
  <2>2. Stop(m, "truncated").stop # "none" /\ Stop(m, "register_out_of_range").stop # "none"
    BY <1>3
  <2>3. Range(i.args) \subseteq DOMAIN m.regs
    BY <2>1, <2>2 DEF CallChecks, Whole, Registers, Need
  <2>4. QED
    BY <1>1, <2>3
<1>5. PICK args : args = i.args
  OBVIOUS
<1>6. Len(args) \in Nat /\ DOMAIN args = 1 .. Len(args)
  BY <1>5 DEF InstructionFits
<1>7. PICK passed : passed = [k \in 1 .. Len(args) |-> Top.regs[args[k]]]
  OBVIOUS
<1>8. passed = Passed(i)
  BY <1>5, <1>6, <1>7 DEF Passed
<1>9. \A k \in 1 .. Len(args) : args[k] \in DOMAIN Top.regs
  BY <1>4, <1>5, <1>6 DEF Range
<1>10. \A k \in 1 .. Len(args) : ValueFits(passed[k], DOMAIN heap)
  BY <1>1, <1>2, <1>7, <1>9 DEF Fit, AllFit
<1>11. Len(passed) = Len(args) /\ DOMAIN passed = 1 .. Len(args)
  BY <1>6, <1>7
<1>12. passed = [k \in 1 .. Len(passed) |-> passed[k]]
  BY <1>7, <1>11
<1>13. ArgumentsFit(m, passed)
  BY <1>1, <1>6, <1>10, <1>11, <1>12 DEF ArgumentsFit
<1>14. QED
  BY <1>1, <1>8, <1>13

(* The frame of a call gets what it is passed, and begins at the method's start.       *)
LEMMA InlineFrameFits ==
  ASSUME NEW name \in DOMAIN Methods, CodeTyped, NEW m, m.heap = heap, NEW args,
         ArgumentsFit(m, args), NEW f, f = InlineFrame(name, args)
  PROVE  FrameFits(f, DOMAIN heap) /\ FrameIsAt(f, Methods)
<1>1. PICK regs : regs = InlineRegisters(Methods[name], args)
  OBVIOUS
<1>2. /\ f.regs = regs /\ f.statics = <<>> /\ f.pending = NoPending
      /\ f.method = name /\ f.pc = 0
  BY <1>1 DEF InlineFrame, Frame
<1>3. \A k \in DOMAIN args : ValueFits(args[k], DOMAIN heap)
  BY DEF ArgumentsFit
<1>4. ValueFits(Unknown, DOMAIN heap)
  BY ValuesFit
<1>5. AllFit(regs, DOMAIN heap)
  BY <1>1, <1>3, <1>4 DEF InlineRegisters, AllFit
<1>6. AllFit(f.statics, DOMAIN heap)
  <2>1. DOMAIN <<>> = {}
    OBVIOUS
  <2>2. QED
    BY <1>2, <2>1 DEF AllFit
<1>7. ValueFits(f.pending.low, DOMAIN heap) /\ ValueFits(f.pending.high, DOMAIN heap)
  BY <1>2, <1>4 DEF NoPending
<1>8. FrameIsAt(f, Methods)
  <2>1. PICK n \in Nat : n = Len(Methods[name].code)
    BY DEF CodeTyped
  <2>2. 0 \in 0 .. n
    BY <2>1
  <2>3. QED
    BY <1>2, <2>1, <2>2 DEF FrameIsAt
<1>9. QED
  BY <1>2, <1>5, <1>6, <1>7, <1>8 DEF FrameFits

LEMMA RefuseFits ==
  ASSUME TypesKept, NEW own, own => Collected, CodeFits', NEW blocker, Refuse(blocker)
  PROVE  TypesKept' /\ (own => Collected')
<1>1. Conclude(blocker) /\ UNCHANGED <<heap, lost>>
  BY DEF Refuse
<1>2. HeapFits(heap') /\ (own => Collected')
  BY <1>1, HeapStays
<1>3. QED
  BY <1>1, <1>2, ConcludeFits

LEMMA EnterFits ==
  ASSUME Reading, NEW own, own => Collected, NEW i, Decodes(i), Callable(i), Enter(i)
  PROVE  TypesKept' /\ (own => Collected')
<1>1. InstructionFits(i) /\ CodeFits' /\ apk' = apk
  BY DecodedFits DEF Decodes
<1>2. TypesKept /\ dexPhase = "interpreting"
  BY DEF Reading, Interpreting
<1>3. CASE MethodBlocker(i.name) # "code"
  <2>1. Refuse(MethodBlocker(i.name))
    BY <1>3 DEF Enter
  <2>2. QED
    BY <1>1, <1>2, <2>1, RefuseFits
<1>4. CASE MethodBlocker(i.name) = "code" /\ ~(Len(frames) < MaxFrames)
  <2>1. dexPhase' = "crashed" /\ UNCHANGED <<frames, heap, lost>>
    BY <1>4 DEF Enter, Deeper
  <2>2. HeapFits(heap') /\ (own => Collected')
    BY <1>2, <2>1, HeapStays
  <2>3. PhaseFits'
    BY <1>2, <2>1 DEF TypesKept, PhaseFits, Phases
  <2>4. FramesFit'
    BY <1>1, <1>2, <2>1 DEF TypesKept, FramesFit, Methods
  <2>5. QED
    BY <1>1, <2>2, <2>3, <2>4 DEF TypesKept
<1>5. CASE MethodBlocker(i.name) = "code" /\ Len(frames) < MaxFrames
  <2>1. PICK f : f = InlineFrame(i.name, Passed(i))
    OBVIOUS
  <2>2. frames' = Append(frames, f) /\ UNCHANGED <<dexPhase, heap, lost>>
    BY <1>5, <2>1 DEF Enter, Deeper
  <2>3. i.name \in DOMAIN Methods
    BY <1>5 DEF MethodBlocker
  <2>4. ArgumentsFit(Machine, Passed(i)) /\ Machine.heap = heap
    BY <1>1, PassedFit DEF Machine
  <2>5. FrameFits(f, DOMAIN heap) /\ FrameIsAt(f, Methods)
    BY <2>1, <2>3, <2>4, InlineFrameFits DEF Reading
  <2>6. /\ Len(frames) \in Nat /\ DOMAIN frames = 1 .. Len(frames)
        /\ AtInstruction(Machine, Len(Body)) /\ Machine.pc = Top.pc
        /\ Top.method \in DOMAIN Methods
    BY TopFits DEF Machine
  <2>7. WaitsAt(Top, Methods)
    BY <2>6 DEF WaitsAt, AtInstruction, Body
  <2>8. PICK S : S = {frames[k] : k \in DOMAIN frames} \cup {f}
    OBVIOUS
  <2>9. frames \in Seq(S) /\ f \in S
    BY <2>8 DEF Reading, Interpreting, FramesHold, AllHold
  <2>10. /\ Len(frames') = Len(frames) + 1 /\ DOMAIN frames' = 1 .. Len(frames) + 1
         /\ frames'[Len(frames) + 1] = f
         /\ \A k \in 1 .. Len(frames) : frames'[k] = frames[k]
    BY <2>2, <2>9
  <2>11. ASSUME NEW k \in DOMAIN frames'
         PROVE  /\ FrameFits(frames'[k], DOMAIN heap) /\ FrameIsAt(frames'[k], Methods)
                /\ k < Len(frames') => WaitsAt(frames'[k], Methods)
    <3>1. CASE k = Len(frames) + 1
      BY <2>5, <2>6, <2>10, <3>1
    <3>2. CASE k # Len(frames) + 1
      <4>1. k \in DOMAIN frames /\ frames'[k] = frames[k]
        BY <2>6, <2>10, <3>2
      <4>2. FrameFits(frames[k], DOMAIN heap) /\ FrameIsAt(frames[k], Methods)
        BY <1>2, <4>1 DEF TypesKept, FramesFit
      <4>3. WaitsAt(frames[k], Methods)
        <5>1. k < Len(frames) \/ k = Len(frames)
          BY <2>6, <4>1
        <5>2. k = Len(frames) => frames[k] = Top
          BY DEF Top
        <5>3. QED
          BY <1>2, <2>7, <4>1, <5>1, <5>2 DEF TypesKept, FramesFit
      <4>4. QED
        BY <4>1, <4>2, <4>3
    <3>3. QED
      BY <3>1, <3>2
  <2>12. FramesFit'
    BY <1>1, <2>2, <2>11 DEF FramesFit, Methods
  <2>13. frames' # <<>>
    BY <2>6, <2>10
  <2>14. PhaseFits'
    BY <1>2, <2>2, <2>13 DEF TypesKept, PhaseFits
  <2>15. HeapFits(heap') /\ (own => Collected')
    BY <1>2, <2>2, HeapStays
  <2>16. QED
    BY <1>1, <2>12, <2>14, <2>15 DEF TypesKept
<1>6. QED
  BY <1>3, <1>4, <1>5

(* What a caller gets of a call.                                                     *)
LEMMA WithResultIs ==
  ASSUME NEW f, HoldsLatest(f), NEW name, NEW result, NEW h, h = WithResult(f, name, result)
  PROVE  /\ h.pc = f.pc + 1 /\ h.regs = f.regs /\ h.statics = f.statics
         /\ h.pending.low = result.value /\ h.pending.high = result.high
         /\ h.method = f.method
         /\ "heap" \in DOMAIN f => h.heap = f.heap
         /\ "lost" \in DOMAIN f => h.lost = f.lost
         /\ "result" \in DOMAIN f => h.result = f.result
<1>1. PICK p : p = PendingOf(name, result, f.invoked + 1)
  OBVIOUS
<1>2. p.low = result.value /\ p.high = result.high
  BY <1>1 DEF PendingOf
<1>3. PICK g : g = [f EXCEPT !.pending = p, !.invoked = f.invoked + 1]
  OBVIOUS
<1>4. h = [g EXCEPT !.pc = g.pc + 1]
  BY <1>1, <1>3 DEF WithResult, Advance, Goto, HoldsLatest
<1>5. QED
  BY <1>2, <1>3, <1>4 DEF HoldsLatest

LEMMA WithResultFits ==
  ASSUME NEW size, NEW b, AtInstruction(b, size), NEW own, NEW m, Fit(m, b, own), NEW name
  PROVE  Fitting(WithResult(m, name, m.result), b, own, size)
<1>1. PICK h : h = WithResult(m, name, m.result)
  OBVIOUS
<1>2. HoldsLatest(m) /\ {"heap", "lost", "result"} \subseteq DOMAIN m
  BY DEF Fit, Sound
<1>3. /\ h.pc = m.pc + 1 /\ h.regs = m.regs /\ h.statics = m.statics
      /\ h.pending.low = m.result.value /\ h.pending.high = m.result.high
      /\ h.heap = m.heap /\ h.lost = m.lost /\ h.result = m.result
  BY <1>1, <1>2, WithResultIs
<1>4. Sound(h, b)
  BY <1>1, <1>2, ResultHolds DEF Fit
<1>5. h.pc \in 0 .. size
  BY <1>3 DEF Fit, AtInstruction
<1>6. Fitting(h, b, own, size)
  BY <1>3, <1>4, <1>5 DEF Fit, Fitting
<1>7. QED
  BY <1>1, <1>6

LEMMA FitIsFitting ==
  ASSUME NEW size, NEW b, AtInstruction(b, size), NEW own, NEW m, Fit(m, b, own)
  PROVE  Fitting(m, b, own, size)
<1>1. m.pc \in 0 .. size
  BY DEF Fit, AtInstruction
<1>2. QED
  BY <1>1 DEF Fit, Fitting

LEMMA InstructionKeeps ==
  ASSUME Reading, NEW own, own => Collected, ProbeInstruction \/ InlineInstruction
  PROVE  TypesKept' /\ (own => Collected')
<1>1. PICK i : /\ Decodes(i)
               /\ \/ Install(ProbeStep(Machine, i, Len(Body)))
                  \/ Install(InlineStep(Machine, i, Len(Body)))
  BY DEF ProbeInstruction, InlineInstruction
<1>2. InstructionFits(i) /\ CodeFits' /\ apk' = apk
  BY <1>1, DecodedFits DEF Decodes
<1>3. Fit(Machine, Machine, own) /\ AtInstruction(Machine, Len(Body))
  BY TopFits
<1>4. /\ Fitting(ProbeStep(Machine, i, Len(Body)), Machine, own, Len(Body))
      /\ Fitting(InlineStep(Machine, i, Len(Body)), Machine, own, Len(Body))
  BY <1>2, <1>3, StepFits DEF InstructionFits
<1>5. QED
  BY <1>1, <1>2, <1>4, InstallFits

LEMMA InvokeKeeps ==
  ASSUME Reading, NEW own, own => Collected,
         InvokeSuper \/ InvokeStatic \/ InvokeStaticRange \/ InvokeDirect
  PROVE  TypesKept' /\ (own => Collected')
<1>1. PICK i : /\ Decodes(i)
               /\ \/ \E blocker : Refuse(blocker)
                  \/ Callable(i) /\ Enter(i)
                  \/ i.name \in Frameworks /\ Callable(i) /\ Install(SuperStub(Machine, i))
  BY DEF InvokeSuper, InvokeStatic, InvokeStaticRange, InvokeDirect, RefuseCall
<1>2. InstructionFits(i) /\ CodeFits' /\ apk' = apk /\ TypesKept
  BY <1>1, DecodedFits DEF Decodes, Reading
<1>3. ASSUME NEW blocker, Refuse(blocker) PROVE TypesKept' /\ (own => Collected')
  BY <1>2, <1>3, RefuseFits
<1>4. CASE Callable(i) /\ Enter(i)
  BY <1>1, <1>4, EnterFits
<1>5. CASE i.name \in Frameworks /\ Install(SuperStub(Machine, i))
  <2>1. Fit(Machine, Machine, own) /\ AtInstruction(Machine, Len(Body))
    BY TopFits
  <2>2. Fitting(SuperStub(Machine, i), Machine, own, Len(Body))
    BY <1>5, <2>1, SuperStubFits
  <2>3. QED
    BY <1>2, <1>5, <2>2, InstallFits
<1>6. QED
  BY <1>1, <1>3, <1>4, <1>5

(* A copy of an array stays within the ints: with a sum that is not an int, what the   *)
(* code does is undefined (src/apk_dex_bridge.cpp 2301-2303).                        *)
CopiesStayInside ==
  dexPhase = "interpreting" /\ ~InProbe /\ Top.pc < Len(Body) =>
    \A i \in Readable :
      i.op \in Calls /\ i.name = "System.arraycopy" /\ Callable(i) => StaysInside(Passed(i))

LEMMA InlineCallKeeps ==
  ASSUME Reading, NEW own, own => Collected, own => CopiesStayInside,
         InlineInvokeDirect \/ InlineInvoke \/ InlineInvokeRange
  PROVE  TypesKept' /\ (own => Collected')
<1>1. PICK i : /\ Decodes(i) /\ ~InProbe /\ i.op \in Calls
               /\ RefuseCall(i) \/ (Callable(i) /\ ExecuteOrStub(i))
  BY DEF InlineInvokeDirect, InlineInvoke, InlineInvokeRange, InlineCall, Calls
<1>2. InstructionFits(i) /\ CodeFits' /\ apk' = apk /\ TypesKept
  BY <1>1, DecodedFits DEF Decodes, Reading
<1>3. CASE RefuseCall(i)
  BY <1>2, <1>3, RefuseFits DEF RefuseCall
<1>4. CASE Callable(i) /\ ExecuteOrStub(i) /\ i.name \notin Stubbed
  <2>1. Enter(i)
    BY <1>4 DEF ExecuteOrStub
  <2>2. QED
    BY <1>1, <1>4, <2>1, EnterFits
<1>5. CASE Callable(i) /\ ExecuteOrStub(i) /\ i.name \in Stubbed
  <2>1. Fit(Machine, Machine, own) /\ AtInstruction(Machine, Len(Body))
    BY TopFits
  <2>2. ArgumentsFit(Machine, Passed(i))
    BY <1>2, <1>5, PassedFit
  <2>3. own /\ i.name = "System.arraycopy" => StaysInside(Passed(i))
    BY <1>1, <1>5 DEF CopiesStayInside, Decodes, Reading
  <2>4. PICK name, args, m : name = i.name /\ args = Passed(i) /\ m = Stub(Machine, name, args)
    OBVIOUS
  <2>5. own /\ name = "System.arraycopy" => StaysInside(args)
    BY <2>3, <2>4
  <2>6. name \in Stubbed /\ ArgumentsFit(Machine, args)
    BY <1>5, <2>2, <2>4
  <2>7. Fit(m, Machine, own)
    BY <2>1, <2>4, <2>5, <2>6, StubFits
  <2>8. /\ Fitting(m, Machine, own, Len(Body))
        /\ Fitting(WithResult(m, name, m.result), Machine, own, Len(Body))
    BY <2>1, <2>7, FitIsFitting, WithResultFits
  <2>9. Install(m) \/ Install(WithResult(m, name, m.result))
    BY <1>5, <2>4 DEF ExecuteOrStub
  <2>10. QED
    BY <1>2, <2>8, <2>9, InstallFits
<1>6. QED
  BY <1>1, <1>3, <1>4, <1>5

LEMMA EndKeeps ==
  ASSUME Interpreting, TypesKept, CodeTyped, NEW own, own => Collected,
         \/ FallOffEnd
         \/ Top.pc < Len(Body) /\ (ReturnOutOfRange \/ ProbeReturn)
  PROVE  TypesKept' /\ (own => Collected')
<1>1. PICK blocker : Conclude(blocker) /\ UNCHANGED <<heap, lost>>
  BY DEF FallOffEnd, ReturnOutOfRange, ProbeReturn
<1>2. CodeFits'
  <2>1. CASE FallOffEnd
    BY <2>1 DEF FallOffEnd, TypesKept, CodeFits
  <2>2. CASE Top.pc < Len(Body) /\ (ReturnOutOfRange \/ ProbeReturn)
    <3>1. PICK i : Decodes(i)
      BY <2>2 DEF ReturnOutOfRange, ProbeReturn
    <3>2. QED
      BY <2>2, <3>1, DecodedFits DEF Reading
  <2>3. QED
    BY <2>1, <2>2
<1>3. HeapFits(heap') /\ (own => Collected')
  BY <1>1, HeapStays
<1>4. QED
  BY <1>1, <1>2, <1>3, ConcludeFits

(* What a return hands over fits, also a value it makes up.                          *)
LEMMA ReturnedFits ==
  ASSUME Reading, NEW own, own => Collected, NEW i, ~ReturnBlocked(i)
  PROVE  /\ Fit(ReturnMachine(i), Machine, own)
         /\ ValueFits(ReturnValue(i), DOMAIN ReturnMachine(i).heap)
<1>1. Fit(Machine, Machine, own)
  BY TopFits
<1>2. Machine.regs = Top.regs /\ Machine.heap = heap
  BY DEF Machine
<1>3. PICK type : type = Methods[Top.method].returns
  OBVIOUS
<1>4. PICK made : made = MaterializeWith(Machine, type, -1)
  OBVIOUS
<1>5. Fit(made, Machine, own) /\ ValueFits(Fresh(Machine, type), DOMAIN made.heap)
  BY <1>1, <1>4, MaterializeFits, SmallWords
<1>6. /\ Made(i) => ReturnMachine(i) = made
      /\ ~Made(i) => ReturnMachine(i) = Machine
  BY <1>3, <1>4 DEF ReturnMachine, Materialize
<1>7. i.op # "return-void" => ValueFits(Top.regs[i.a], DOMAIN heap)
  BY <1>1, <1>2 DEF ReturnBlocked, Fit, AllFit
<1>8. ValueFits(Unknown, DOMAIN heap) /\ ValueFits(Num(0), DOMAIN heap)
  BY ValuesFit, SmallWords
<1>9. ReturnValue(i) = IF i.op = "return-void" THEN Unknown
                       ELSE IF Made(i) THEN Fresh(Machine, type)
                       ELSE IF i.op = "return" /\ Top.regs[i.a].kind = "unknown" /\ type = "int"
                         THEN Num(0)
                       ELSE Top.regs[i.a]
  BY <1>3 DEF ReturnValue
<1>10. CASE Made(i)
  <2>1. i.op # "return-void"
    BY <1>10 DEF Made
  <2>2. QED
    BY <1>5, <1>6, <1>9, <1>10, <2>1
<1>11. CASE ~Made(i)
  BY <1>1, <1>2, <1>6, <1>7, <1>8, <1>9, <1>11
<1>12. QED
  BY <1>10, <1>11

(* The caller goes on behind its call, with the result.                              *)
LEMMA HandOverFits ==
  ASSUME NEW f, HoldsLatest(f), NEW ids, FrameFits(f, ids), NEW methods,
         Len(methods[f.method].code) \in Nat, WaitsAt(f, methods),
         NEW name, NEW result,
         ValueFits(result.value, ids), ValueFits(result.high, ids),
         NEW g, g = Advance(f) \/ g = WithResult(f, name, result)
  PROVE  FrameFits(g, ids) /\ FrameIsAt(g, methods)
<1>1. f.pc + 1 \in 0 .. Len(methods[f.method].code) /\ f.method \in DOMAIN methods
  BY DEF WaitsAt
<1>2. CASE g = Advance(f)
  <2>1. /\ g.pc = f.pc + 1 /\ g.regs = f.regs /\ g.statics = f.statics
        /\ g.pending = f.pending /\ g.method = f.method
    BY <1>2 DEF Advance, Goto, HoldsLatest
  <2>2. QED
    BY <1>1, <2>1 DEF FrameFits, FrameIsAt
<1>3. CASE g = WithResult(f, name, result)
  <2>1. /\ g.pc = f.pc + 1 /\ g.regs = f.regs /\ g.statics = f.statics
        /\ g.pending.low = result.value /\ g.pending.high = result.high
        /\ g.method = f.method
    BY <1>3, WithResultIs
  <2>2. QED
    BY <1>1, <2>1 DEF FrameFits, FrameIsAt
<1>4. QED
  BY <1>2, <1>3

LEMMA InlineReturnKeeps ==
  ASSUME Reading, NEW own, own => Collected, InlineReturn
  PROVE  TypesKept' /\ (own => Collected')
<1>1. PICK i, result :
        /\ Decodes(i) /\ ~ReturnBlocked(i)
        /\ result = [NoResult EXCEPT !.value = ReturnValue(i)]
        /\ heap' = ReturnMachine(i).heap /\ lost' = ReturnMachine(i).lost
        /\ frames' = Append(SubSeq(frames, 1, Len(frames) - 2),
                            HandOver(Caller, Top.method, result))
        /\ dexPhase' = dexPhase
  BY DEF InlineReturn
<1>2. CodeFits' /\ apk' = apk /\ TypesKept /\ dexPhase = "interpreting"
  BY <1>1, DecodedFits DEF Decodes, Reading, Interpreting
<1>3. PICK m : m = ReturnMachine(i) /\ Fit(m, Machine, own) /\ ValueFits(ReturnValue(i), DOMAIN m.heap)
  BY <1>1, ReturnedFits
<1>4. heap' = m.heap /\ lost' = m.lost /\ Machine.heap = heap
  BY <1>1, <1>3 DEF Machine
<1>5. HeapFits(heap') /\ (own => Collected') /\ DOMAIN heap \subseteq DOMAIN heap'
  BY <1>3, <1>4 DEF Fit, Collected
<1>6. ValueFits(result.value, DOMAIN heap') /\ ValueFits(result.high, DOMAIN heap')
  <2>1. result.value = ReturnValue(i) /\ result.high = Unknown
    BY <1>1 DEF NoResult
  <2>2. QED
    BY <1>3, <1>4, <2>1, ValuesFit
<1>7. AllHold(frames) /\ frames # <<>> /\ Len(frames) # 1
  BY DEF Reading, Interpreting, FramesHold, InlineReturn, InProbe
<1>8. Len(frames) \in Nat /\ Len(frames) >= 2 /\ DOMAIN frames = 1 .. Len(frames)
  <2>1. Len(frames) \in Nat /\ Len(frames) >= 1 /\ DOMAIN frames = 1 .. Len(frames)
    BY <1>7, FramesAreNumbered
  <2>2. QED
    BY <1>7, <2>1
<1>9. PICK n \in Nat : n = Len(frames) - 2
  <2>1. Len(frames) - 2 \in Nat
    BY <1>8
  <2>2. QED
    BY <2>1
<1>10. PICK f, gs : /\ f = HandOver(Caller, Top.method, result)
                    /\ gs = SubSeq(frames, 1, n)
  OBVIOUS
<1>11. Caller = frames[n + 1] /\ n + 1 \in DOMAIN frames /\ n + 1 < Len(frames)
  BY <1>8, <1>9 DEF Caller
<1>12. FrameFits(f, DOMAIN heap') /\ FrameIsAt(f, Methods)
  <2>1. HoldsLatest(Caller)
    BY <1>7, <1>11 DEF AllHold
  <2>2. FrameFits(Caller, DOMAIN heap) /\ WaitsAt(Caller, Methods)
    BY <1>2, <1>11 DEF TypesKept, FramesFit
  <2>3. FrameFits(Caller, DOMAIN heap')
    BY <1>5, <2>2, FrameFitsMore
  <2>4. Len(Methods[Caller.method].code) \in Nat
    BY <2>2 DEF Reading, CodeTyped, WaitsAt
  <2>5. f = Advance(Caller) \/ f = WithResult(Caller, Top.method, result)
    BY <1>10 DEF HandOver
  <2>6. QED
    BY <1>6, <2>1, <2>2, <2>3, <2>4, <2>5, HandOverFits
<1>13. /\ AllHold(gs) /\ DOMAIN gs = 1 .. n /\ Len(gs) = n
       /\ \A k \in 1 .. n : gs[k] = frames[k]
  BY <1>7, <1>8, <1>9, <1>10, FirstHold
<1>14. PICK S : S = {gs[k] : k \in DOMAIN gs} \cup {f}
  OBVIOUS
<1>15. gs \in Seq(S) /\ f \in S /\ frames' = Append(gs, f)
  BY <1>1, <1>9, <1>10, <1>13, <1>14 DEF AllHold
<1>16. /\ DOMAIN frames' = 1 .. n + 1 /\ Len(frames') = n + 1 /\ frames'[n + 1] = f
       /\ \A k \in 1 .. n : frames'[k] = frames[k]
  BY <1>13, <1>15
<1>17. ASSUME NEW k \in DOMAIN frames'
       PROVE  /\ FrameFits(frames'[k], DOMAIN heap') /\ FrameIsAt(frames'[k], Methods)
              /\ k < Len(frames') => WaitsAt(frames'[k], Methods)
  <2>1. CASE k = n + 1
    BY <1>12, <1>16, <2>1
  <2>2. CASE k # n + 1
    <3>1. k \in 1 .. n /\ frames'[k] = frames[k] /\ k \in DOMAIN frames /\ k < Len(frames)
      BY <1>8, <1>9, <1>16, <2>2
    <3>2. /\ FrameFits(frames[k], DOMAIN heap) /\ FrameIsAt(frames[k], Methods)
          /\ WaitsAt(frames[k], Methods)
      BY <1>2, <3>1 DEF TypesKept, FramesFit
    <3>3. QED
      BY <1>5, <3>1, <3>2, FrameFitsMore
  <2>3. QED
    BY <2>1, <2>2
<1>18. FramesFit'
  BY <1>2, <1>17 DEF FramesFit, Methods
<1>19. frames' # <<>>
  BY <1>16
<1>20. PhaseFits'
  BY <1>1, <1>2, <1>19 DEF TypesKept, PhaseFits
<1>21. QED
  BY <1>2, <1>5, <1>18, <1>20 DEF TypesKept

LEMMA InterpretKeeps ==
  ASSUME Interpreting, TypesKept, CodeTyped, NEW own, own => Collected,
         own => CopiesStayInside, Interpret
  PROVE  TypesKept' /\ (own => Collected')
<1>1. CASE FallOffEnd
  BY <1>1, EndKeeps
<1>2. CASE ~FallOffEnd
  <2>1. Reading /\ Top.pc < Len(Body)
    BY <1>2 DEF Interpret, Reading
  <2>2. CASE ReturnOutOfRange \/ ProbeReturn
    BY <2>1, <2>2, EndKeeps
  <2>3. CASE InlineInvokeDirect \/ InlineInvoke \/ InlineInvokeRange
    BY <2>1, <2>3, InlineCallKeeps
  <2>4. QED
    BY <1>2, <2>1, <2>2, <2>3, InstructionKeeps, InvokeKeeps, InlineReturnKeeps DEF Interpret
<1>3. QED
  BY <1>1, <1>2

(* The entry point begins with objects of its own that hold nothing yet.              *)
BeginsFit(m) ==
  Starts(m) /\ HeapFits(m.heap) /\ HeapHolds(m.heap) /\ AllFit(m.regs, DOMAIN m.heap)

LEMMA SetRegBeginsFit ==
  ASSUME NEW m, BeginsFit(m), NEW r, NEW value, ValueFits(value, DOMAIN m.heap)
  PROVE  BeginsFit(SetReg(m, r, value))
<1>1. PICK n : n = SetReg(m, r, value)
  OBVIOUS
<1>2. n.heap = m.heap /\ n.regs = [m.regs EXCEPT ![r] = value]
  BY <1>1 DEF SetReg, BeginsFit, Starts
<1>3. AllFit(n.regs, DOMAIN m.heap)
  BY <1>2 DEF AllFit, BeginsFit
<1>4. BeginsFit(n)
  BY <1>1, <1>2, <1>3, SetRegBegins DEF BeginsFit
<1>5. QED
  BY <1>1, <1>4

LEMMA MaterializeBeginsFit ==
  ASSUME NEW m, BeginsFit(m), NEW class
  PROVE  /\ BeginsFit(Materialize(m, class))
         /\ ValueFits(Fresh(m, class), DOMAIN Materialize(m, class).heap)
<1>1. PICK n : n = Materialize(m, class)
  OBVIOUS
<1>2. PICK length : length = -1 /\ length \in Words
  BY SmallWords
<1>3. /\ n.heap = WithObject(m.heap, m.next, class, length, m.born + 1)
      /\ n.regs = m.regs
  BY <1>1, <1>2 DEF Materialize, MaterializeWith, WithObject, BeginsFit, Starts
<1>4. m.next \notin DOMAIN m.heap
  BY DEF BeginsFit, Starts, OwnsIds, BoundedIds
<1>5. /\ HeapFits(n.heap) /\ HeapHolds(n.heap)
      /\ DOMAIN m.heap \subseteq DOMAIN n.heap /\ m.next \in DOMAIN n.heap
  BY <1>2, <1>3, <1>4, HeapGrows DEF BeginsFit
<1>6. AllFit(n.regs, DOMAIN n.heap)
  BY <1>3, <1>5, FitsMore DEF BeginsFit
<1>7. BeginsFit(n)
  BY <1>1, <1>5, <1>6, MaterializeBegins DEF BeginsFit
<1>8. ValueFits(Fresh(m, class), DOMAIN n.heap)
  BY <1>5, ValuesFit DEF Fresh
<1>9. QED
  BY <1>1, <1>7, <1>8

LEMMA EntryBeginsFit == ASSUME NEW method PROVE BeginsFit(EntryMachine(method))
<1>1. PICK size : size = Max({method.registers, ProbeRegisters})
  OBVIOUS
<1>2. PICK bare : bare = [regs |-> [r \in 0 .. size - 1 |-> Unknown], heap |-> <<>>,
                          next |-> 1, born |-> 0, lost |-> {}]
  OBVIOUS
<1>3. BeginsFit(bare)
  <2>1. DOMAIN bare.heap = {}
    BY <1>2
  <2>2. Starts(bare)
    BY <1>2, <2>1 DEF Starts, OwnsIds, BoundedIds
  <2>3. HeapFits(bare.heap) /\ HeapHolds(bare.heap)
    BY <2>1 DEF HeapFits, HeapHolds
  <2>4. AllFit(bare.regs, DOMAIN bare.heap)
    BY <1>2, ValuesFit DEF AllFit
  <2>5. QED
    BY <2>2, <2>3, <2>4 DEF BeginsFit
<1>4. PICK made : made = Materialize(bare, method.class)
  OBVIOUS
<1>5. BeginsFit(made) /\ ValueFits(Fresh(bare, method.class), DOMAIN made.heap)
  BY <1>3, <1>4, MaterializeBeginsFit
<1>6. PICK self : self = SetReg(made, ReceiverAt(method), Fresh(bare, method.class))
  OBVIOUS
<1>7. BeginsFit(self)
  BY <1>5, <1>6, SetRegBeginsFit
<1>8. PICK given : given = Materialize(self, method.params[1])
  OBVIOUS
<1>9. BeginsFit(given) /\ ValueFits(Fresh(self, method.params[1]), DOMAIN given.heap)
  BY <1>7, <1>8, MaterializeBeginsFit
<1>10. BeginsFit(SetReg(given, ParameterAt(method), Fresh(self, method.params[1])))
  BY <1>9, SetRegBeginsFit
<1>11. QED
  BY <1>1, <1>2, <1>4, <1>6, <1>7, <1>8, <1>10 DEF EntryMachine

LEMMA EnterProbeFits ==
  ASSUME DexIInv, TypesKept, CodeTyped, EnterProbe
  PROVE  TypesKept' /\ Collected'
<1>1. PICK name, m :
        /\ name = Entrypoint(File) /\ m = EntryMachine(Methods[name])
        /\ frames' = <<Frame(name, m.regs, m.next)>>
        /\ heap' = m.heap
  BY DEF EnterProbe
<1>2. BeginsFit(m)
  BY <1>1, EntryBeginsFit
<1>3. HeapFits(heap') /\ Collected'
  BY <1>1, <1>2 DEF BeginsFit, Collected
<1>4. dexPhase' = "interpreting" /\ apk' = apk /\ code' = code
  BY DEF EnterProbe
<1>5. PICK f : f = Frame(name, m.regs, m.next)
  OBVIOUS
<1>6. /\ DOMAIN frames' = {1} /\ frames'[1] = f /\ Len(frames') = 1 /\ frames' # <<>>
      /\ Top' = f
  BY <1>1, <1>5 DEF Top
<1>7. name \in DOMAIN Methods
  <2>1. IdsHold' /\ FramesHold'
    BY EnterProbeHolds DEF DexIInv
  <2>2. f.method \in DOMAIN Methods'
    BY <1>6, <2>1 DEF IdsHold
  <2>3. QED
    BY <1>4, <1>5, <2>2 DEF Frame, Methods
<1>8. /\ f.regs = m.regs /\ f.statics = <<>> /\ f.pending = NoPending
      /\ f.method = name /\ f.pc = 0
  BY <1>5 DEF Frame
<1>9. FrameFits(f, DOMAIN heap')
  <2>1. DOMAIN <<>> = {}
    OBVIOUS
  <2>2. AllFit(f.regs, DOMAIN heap') /\ AllFit(f.statics, DOMAIN heap')
    BY <1>1, <1>2, <1>8, <2>1 DEF BeginsFit, AllFit
  <2>3. ValueFits(f.pending.low, DOMAIN heap') /\ ValueFits(f.pending.high, DOMAIN heap')
    BY <1>8, ValuesFit DEF NoPending
  <2>4. QED
    BY <2>2, <2>3 DEF FrameFits
<1>10. FrameIsAt(f, Methods)
  <2>1. PICK n \in Nat : n = Len(Methods[name].code)
    BY <1>7 DEF CodeTyped
  <2>2. 0 \in 0 .. n
    BY <2>1
  <2>3. QED
    BY <1>7, <1>8, <2>1, <2>2 DEF FrameIsAt
<1>11. ASSUME NEW k \in DOMAIN frames'
       PROVE  /\ FrameFits(frames'[k], DOMAIN heap') /\ FrameIsAt(frames'[k], Methods)
              /\ k < Len(frames') => WaitsAt(frames'[k], Methods)
  BY <1>6, <1>9, <1>10
<1>12. FramesFit'
  BY <1>4, <1>11 DEF FramesFit, Methods
<1>13. PhaseFits' /\ CodeFits'
  BY <1>4, <1>6 DEF PhaseFits, Phases, TypesKept, CodeFits
<1>14. QED
  BY <1>3, <1>12, <1>13 DEF TypesKept

LEMMA StageFits ==
  ASSUME DexIInv, TypesKept, CodeTyped, NEW own, own => Collected, Stage
  PROVE  TypesKept' /\ (own => Collected')
<1>1. CASE EnterProbe
  BY <1>1, EnterProbeFits
<1>2. CASE ~EnterProbe
  <2>1. /\ UNCHANGED <<apk, code, frames, heap, lost>> /\ dexPhase = "staging"
        /\ dexPhase' \in {"staging", "done"}
    BY <1>2 DEF Stage, SkipFile, RejectTables, PassFile, BlockLookup, FinishProof, Staging,
              LooksUp, MachineUnchanged
  <2>2. PhaseFits' /\ CodeFits' /\ HeapFits(heap') /\ (own => Collected')
    BY <2>1 DEF TypesKept, PhaseFits, Phases, CodeFits, Collected
  <2>3. FramesFit'
    BY <2>1 DEF TypesKept, FramesFit, Methods
  <2>4. QED
    BY <2>2, <2>3 DEF TypesKept
<1>3. QED
  BY <1>1, <1>2

LEMMA InitTypesKept == ASSUME DexInit PROVE TypesKept /\ Collected
<1>1. DOMAIN frames = {} /\ DOMAIN heap = {}
  BY DEF DexInit
<1>2. PhaseFits /\ FramesFit
  BY <1>1 DEF DexInit, PhaseFits, FramesFit, Phases
<1>3. CodeFits
  <2>1. \A name \in DOMAIN code : DOMAIN code[name] = {}
    BY DEF DexInit
  <2>2. QED
    BY <2>1 DEF CodeFits
<1>4. HeapFits(heap) /\ Collected
  BY <1>1 DEF HeapFits, Collected, HeapHolds
<1>5. QED
  BY <1>2, <1>3, <1>4 DEF TypesKept

LEMMA NextKeeps ==
  ASSUME DexIInv, TypesKept, NEW own, own => Collected, own => CopiesStayInside,
         [DexNext]_dexVars
  PROVE  TypesKept' /\ (own => Collected')
<1>1. FramesHold /\ IdsHold /\ FilesKept /\ MethodsKnown /\ CodeTyped
  BY ApkKnown, CodeIsTyped DEF DexIInv, FilesKept
<1>2. CASE Stage
  BY <1>1, <1>2, StageFits
<1>3. CASE Interpret
  <2>1. Interpreting
    BY <1>1, <1>3 DEF Interpreting, Interpret
  <2>2. QED
    BY <1>1, <1>3, <2>1, InterpretKeeps
<1>4. CASE DexOver \/ UNCHANGED dexVars
  <2>1. UNCHANGED <<apk, dexPhase, code, frames, heap, lost>>
    BY <1>4 DEF DexOver, dexVars
  <2>2. PhaseFits' /\ CodeFits' /\ HeapFits(heap') /\ (own => Collected')
    BY <2>1 DEF TypesKept, PhaseFits, CodeFits, Collected
  <2>3. FramesFit'
    BY <2>1 DEF TypesKept, FramesFit, Methods
  <2>4. QED
    BY <2>2, <2>3 DEF TypesKept
<1>5. QED
  BY <1>2, <1>3, <1>4 DEF DexNext

LEMMA TypesAreKept ==
  ASSUME DexIInv, TypesKept, [DexNext]_dexVars PROVE TypesKept'
<1>1. PICK any : ~any
  <2>1. \E any \in BOOLEAN : ~any
    OBVIOUS
  <2>2. QED
    BY <2>1, Zenon
<1>2. (any => Collected) /\ (any => CopiesStayInside)
  BY <1>1, Zenon
<1>3. QED
  BY <1>2, NextKeeps

LEMMA CollectionsAreKept ==
  ASSUME DexIInv, TypesKept, Collected, CopiesStayInside, [DexNext]_dexVars
  PROVE  TypesKept' /\ Collected'
<1>1. PICK any : any
  <2>1. \E any \in BOOLEAN : any
    OBVIOUS
  <2>2. QED
    BY <2>1, Zenon
<1>2. (any => Collected) /\ (any => CopiesStayInside)
  BY Zenon
<1>3. TypesKept' /\ (any => Collected')
  BY <1>2, NextKeeps
<1>4. QED
  BY <1>1, <1>3, Zenon

LEMMA DexTyped == DexIInv /\ TypesKept => DexTypeOK
<1>1. SUFFICES ASSUME DexIInv, TypesKept PROVE DexTypeOK
  OBVIOUS
<1>2. ASSUME NEW k \in DOMAIN frames, NEW r \in DOMAIN frames[k].regs,
             NEW v, v = frames[k].regs[r]
      PROVE  v.kind \in {"unknown", "int", "object"} /\ v.n = Wrap(v.n) /\ Lost(v)
  <2>1. ValueFits(v, DOMAIN heap)
    BY <1>1, <1>2 DEF TypesKept, FramesFit, FrameFits, AllFit
  <2>2. v.n \in Words /\ v.n \in Int
    BY <2>1, SmallWords DEF ValueFits
  <2>3. v.n = Wrap(v.n)
    BY <2>2, WrapIsWord
  <2>4. QED
    BY <2>1, <2>3 DEF ValueFits, Lost
<1>3. \A k \in DOMAIN frames : FrameIsAt(frames[k], Methods)
  BY <1>1 DEF TypesKept, FramesFit
<1>4. dexPhase \in Phases /\ (frames # <<>> <=> dexPhase \in {"interpreting", "crashed"})
  BY <1>1 DEF TypesKept, PhaseFits
<1>5. fileAt \in 1 .. Len(apk.files) + 1 /\ DOMAIN code = DOMAIN Methods
  BY <1>1 DEF DexIInv, FilesKept, IdsHold
<1>6. QED
  BY <1>2, <1>3, <1>4, <1>5 DEF DexTypeOK, FrameIsAt

(* Whatever the methods of an APK do, every frame has its registers, an int is one of  *)
(* the width, and no register refers to an object that is not there                 *)
(* (RunExecutionProbe, ExecuteInlineInvokedMethod).                                 *)
THEOREM DexTypes == DexSpec => []DexTypeOK
<1>1. DexIInv /\ TypesKept => DexTypeOK
  BY DexTyped
<1>2. DexInit => TypesKept
  BY InitTypesKept
<1>3. DexIInv /\ TypesKept /\ [DexNext]_dexVars => TypesKept'
  BY TypesAreKept
<1>4. QED
  BY <1>1, <1>2, <1>3, DexInvariant, PTL DEF DexSpec

LEMMA CollectionsAreHeld == TypesKept /\ Collected => CollectionsHoldTheirOwn
<1>1. SUFFICES ASSUME TypesKept, Collected, lost = {}, NEW id \in DOMAIN heap
               PROVE  /\ heap[id].length >= 0
                           => DOMAIN heap[id].elements \subseteq 0 .. heap[id].length - 1
                      /\ "collection" \in DOMAIN heap[id].fields =>
                           heap[id].fields["index"].n
                             \in 0 .. InferredSize(heap[heap[id].fields["collection"].id])
  BY DEF CollectionsHoldTheirOwn
<1>2. HeapFits(heap) /\ HeapHolds(heap)
  BY <1>1 DEF TypesKept, Collected
<1>3. HoldsItsOwn(heap[id]) /\ Within(heap[id], heap)
  BY <1>2 DEF HeapHolds
<1>4. ASSUME "collection" \in DOMAIN heap[id].fields
      PROVE  heap[id].fields["index"].n
               \in 0 .. InferredSize(heap[heap[id].fields["collection"].id])
  <2>1. PICK of \in DOMAIN heap : /\ of = heap[id].fields["collection"].id
                                  /\ heap[id].fields["index"].n \in 0 .. KnownSize(heap[of])
    BY <1>3, <1>4 DEF Within
  <2>2. ObjectFits(heap[of], DOMAIN heap) /\ HoldsItsOwn(heap[of])
    BY <1>2 DEF HeapFits, HeapHolds
  <2>3. InferredSize(heap[of]) = KnownSize(heap[of])
    BY <2>2, InferredIsSize
  <2>4. QED
    BY <2>1, <2>3
<1>5. QED
  BY <1>3, <1>4 DEF HoldsItsOwn, KnownSize

(* As long as no copy of an array leaves the ints, every element of an object whose   *)
(* length is known lies within it and no iterator has passed the end of its          *)
(* collection, unless an object has been written over (aget-object, the list and      *)
(* iterator stubs, System.arraycopy).                                               *)
THEOREM CollectionsHold == DexSpec /\ []CopiesStayInside => []CollectionsHoldTheirOwn
<1>1. TypesKept /\ Collected => CollectionsHoldTheirOwn
  BY CollectionsAreHeld
<1>2. DexInit => TypesKept /\ Collected
  BY InitTypesKept
<1>3. DexIInv /\ TypesKept /\ Collected /\ CopiesStayInside /\ [DexNext]_dexVars
        => TypesKept' /\ Collected'
  BY CollectionsAreKept
<1>4. QED
  BY <1>1, <1>2, <1>3, DexInvariant, PTL DEF DexSpec

--------------------------------------------------------------------------------
(* Longs: what two words stand for, and the words a long is stored in.               *)

LEMMA Division ==
  ASSUME NEW m \in Nat, m > 0, NEW q \in Int, NEW r \in 0 .. m - 1
  PROVE  (m * q + r) % m = r /\ (m * q + r) \div m = q
  OBVIOUS

(* A number is split into a quotient and a rest: by induction, for the provers do not   *)
(* divide by what they do not know.                                                *)
LEMMA Divided ==
  ASSUME NEW m \in Nat, m > 0, NEW n \in Nat
  PROVE  \E q \in Nat : \E r \in 0 .. m - 1 : n = m * q + r
<1> DEFINE Splits(k) == \E q \in Nat : \E r \in 0 .. m - 1 : k = m * q + r
           T == {k \in Nat : Splits(k)}
<1>1. Splits(0)
  <2>1. 0 \in Nat /\ 0 \in 0 .. m - 1 /\ 0 = m * 0 + 0
    OBVIOUS
  <2>2. QED
    BY <2>1
<1>2. ASSUME NEW k \in Nat, Splits(k) PROVE Splits(k + 1)
  <2>1. PICK q \in Nat : \E r \in 0 .. m - 1 : k = m * q + r
    BY <1>2
  <2>2. PICK r \in 0 .. m - 1 : k = m * q + r
    BY <2>1
  <2>3. CASE r + 1 < m
    <3>1. r + 1 \in 0 .. m - 1 /\ k + 1 = m * q + (r + 1)
      BY <2>2, <2>3
    <3>2. QED
      BY <3>1
  <2>4. CASE ~(r + 1 < m)
    <3>1. r + 1 = m /\ m * (q + 1) = m * q + m /\ q + 1 \in Nat
      BY <2>4
    <3>2. 0 \in 0 .. m - 1 /\ k + 1 = m * (q + 1) + 0
      BY <2>2, <3>1
    <3>3. QED
      BY <3>1, <3>2
  <2>5. QED
    BY <2>3, <2>4
<1> HIDE DEF Splits
<1>3. T \in SUBSET Nat /\ 0 \in T /\ \A k \in T : k + 1 \in T
  BY <1>1, <1>2
<1> HIDE DEF T
<1>4. T = Nat
  BY <1>3, OneByOne
<1>5. Splits(n)
  BY <1>4 DEF T
<1>6. QED
  BY <1>5 DEF Splits

LEMMA LongBitsAre == LongBits = Modulus * Modulus /\ LongModulus = LongBits
<1>1. 2 * WordBits = WordBits + WordBits /\ WordBits \in Nat
  BY DexValuesAssumption
<1>2. QED
  BY <1>1, PowersMultiply DEF LongBits, LongModulus, Modulus

LEMMA BitIsBinary == ASSUME NEW n \in Int, NEW k \in Nat PROVE Bit(n, k) \in {0, 1}
<1>1. PICK p \in Nat : p = 2 ^ k /\ p > 0
  BY PowersAre
<1>2. (n \div p) \in Int
  BY <1>1
<1>3. QED
  BY <1>1, <1>2 DEF Bit

(* The bits of one word above another.                                             *)
LEMMA LowBits ==
  ASSUME NEW u \in Nat, NEW v \in Nat, NEW k \in 0 .. WordBits - 1
  PROVE  Bit(u + Modulus * v, k) = Bit(u, k)
<1>1. PICK j \in Nat : WordBits = k + (j + 1)
  <2>1. WordBits - k - 1 \in Nat /\ WordBits = k + (WordBits - k - 1 + 1)
    BY DexValuesAssumption
  <2>2. QED
    BY <2>1
<1>2. PICK p, t \in Nat : p = 2 ^ k /\ p > 0 /\ t = 2 ^ j
  BY PowersAre
<1>3. Modulus = p * (2 * t)
  <2>1. 2 ^ (j + 1) = 2 * t /\ j + 1 \in Nat /\ k \in Nat
    BY <1>2, PowersAre
  <2>2. 2 ^ (k + (j + 1)) = 2 ^ k * 2 ^ (j + 1)
    BY <2>1, PowersMultiply
  <2>3. QED
    BY <1>1, <1>2, <2>1, <2>2 DEF Modulus
<1>4. PICK w \in Nat : w = t * v
  <2>1. t * v \in Nat
    BY <1>2
  <2>2. QED
    BY <2>1
<1>5. u + Modulus * v = u + p * (2 * w)
  <2>1. p * (2 * t) * v = p * (2 * (t * v))
    BY <1>2
  <2>2. QED
    BY <1>3, <1>4, <2>1
<1>6. PICK q \in Nat : \E r \in 0 .. p - 1 : u = p * q + r
  BY <1>2, Divided
<1>7. PICK r \in 0 .. p - 1 : u = p * q + r
  BY <1>6
<1>8. u \div p = q
  BY <1>2, <1>7, Division
<1>9. u + p * (2 * w) = p * (q + 2 * w) + r /\ q + 2 * w \in Int
  BY <1>2, <1>4, <1>7
<1>10. (u + p * (2 * w)) \div p = q + 2 * w
  BY <1>2, <1>9, Division
<1>11. (q + 2 * w) % 2 = q % 2
  BY <1>4
<1>12. QED
  BY <1>2, <1>5, <1>8, <1>10, <1>11 DEF Bit

LEMMA HighBits ==
  ASSUME NEW u \in 0 .. Modulus - 1, NEW v \in Nat, NEW k \in Nat
  PROVE  Bit(u + Modulus * v, WordBits + k) = Bit(v, k)
<1>1. PICK M, p \in Nat : M = Modulus /\ M > 0 /\ p = 2 ^ k /\ p > 0
  BY PowersAre, ModulusIs
<1>2. 2 ^ (WordBits + k) = M * p
  BY <1>1, PowersMultiply, DexValuesAssumption DEF Modulus
<1>3. PICK q \in Nat : \E r \in 0 .. p - 1 : v = p * q + r
  BY <1>1, Divided
<1>4. PICK r \in 0 .. p - 1 : v = p * q + r
  BY <1>3
<1>5. v \div p = q
  BY <1>1, <1>4, Division
<1>6. u + M * v = (M * p) * q + (M * r + u)
  <2>1. M * (p * q + r) = (M * p) * q + M * r
    BY <1>1, <1>3
  <2>2. QED
    BY <1>4, <2>1
<1>7. M * p \in Nat /\ M * p > 0 /\ M * r + u \in 0 .. M * p - 1
  <2>1. PICK s \in Nat : p = r + 1 + s
    <3>1. p - r - 1 \in Nat /\ p = r + 1 + (p - r - 1)
      BY <1>1, <1>3
    <3>2. QED
      BY <3>1
  <2>2. M * p = M * r + M + M * s /\ M * s \in Nat /\ M * r \in Nat
    BY <1>1, <1>3, <2>1
  <2>3. u \in 0 .. M - 1
    BY <1>1
  <2>4. QED
    BY <1>1, <2>2, <2>3
<1>8. (u + M * v) \div (M * p) = q
  BY <1>3, <1>6, <1>7, Division
<1>9. QED
  BY <1>1, <1>2, <1>5, <1>8 DEF Bit

LEMMA BitsAre ==
  ASSUME NEW n, NEW k
  PROVE  k \in BitsOf(n) <=> k \in 0 .. WordBits - 1 /\ Bit(Unsigned(n), k) = 1
  BY DEF BitsOf, Bit

LEMMA DoubledBits ==
  ASSUME NEW v \in Nat, NEW b \in {0, 1}
  PROVE  /\ Bit(2 * v + b, 0) = b
         /\ \A k \in Nat : Bit(2 * v + b, k + 1) = Bit(v, k)
<1>1. Bit(2 * v + b, 0) = b
  <2>1. 2 ^ 0 = 1 /\ (2 * v + b) \div 1 = 2 * v + b /\ (2 * v + b) % 2 = b
    BY PowersAre
  <2>2. QED
    BY <2>1 DEF Bit
<1>2. ASSUME NEW k \in Nat PROVE Bit(2 * v + b, k + 1) = Bit(v, k)
  <2>1. PICK p \in Nat : p = 2 ^ k /\ p > 0 /\ 2 ^ (k + 1) = 2 * p
    BY PowersAre
  <2>2. PICK q \in Nat : \E r \in 0 .. p - 1 : v = p * q + r
    BY <2>1, Divided
  <2>3. PICK r \in 0 .. p - 1 : v = p * q + r
    BY <2>2
  <2>4. v \div p = q
    BY <2>1, <2>3, Division
  <2>5. 2 * v + b = (2 * p) * q + (2 * r + b) /\ 2 * r + b \in 0 .. 2 * p - 1
    <3>1. (2 * p) * q = 2 * (p * q)
      BY <2>1
    <3>2. PICK x \in Nat : x = p * q
      BY <2>1
    <3>3. QED
      BY <2>1, <2>3, <3>1, <3>2
  <2>6. (2 * v + b) \div (2 * p) = q
    <3>1. 2 * p \in Nat /\ 2 * p > 0
      BY <2>1
    <3>2. QED
      BY <2>5, <3>1, Division
  <2>7. QED
    BY <2>1, <2>4, <2>6 DEF Bit
<1>3. QED
  BY <1>1, <1>2

(* The word that is read has the bits it is read from, and no others.                *)
LEMMA WordIsRead ==
  ASSUME NEW bits
  PROVE  \E u \in Nat :
           /\ u < Modulus /\ OfBits(bits) = Wrap(u)
           /\ \A k \in 0 .. WordBits - 1 : Bit(u, k) = IF k \in bits THEN 1 ELSE 0
<1> DEFINE One(k) == IF k \in bits THEN 1 ELSE 0
<1>1. PICK read : /\ read = [k \in Nat |-> IF k = 0 THEN 0
                               ELSE 2 * read[k - 1] + (IF WordBits - k \in bits THEN 1 ELSE 0)]
                  /\ OfBits(bits) = Wrap(read[WordBits])
  BY BitsRead
<1> DEFINE IsRead(n) == /\ read[n] \in Nat /\ read[n] < 2 ^ n
                        /\ \A k \in 0 .. n - 1 : Bit(read[n], k) = One(WordBits - n + k)
           T == {n \in Nat : IsRead(n)}
<1>2. IsRead(0)
  <2>1. read[0] = 0 /\ 2 ^ 0 = 1 /\ 0 .. 0 - 1 = {}
    BY <1>1, PowersAre
  <2>2. QED
    BY <2>1
<1>3. ASSUME NEW n \in Nat, IsRead(n) PROVE IsRead(n + 1)
  <2>1. PICK b \in {0, 1} : b = One(WordBits - (n + 1))
    OBVIOUS
  <2>2. read[n + 1] = 2 * read[n] + b
    <3>1. n + 1 \in Nat /\ n + 1 # 0 /\ n + 1 - 1 = n
      OBVIOUS
    <3>2. QED
      BY <1>1, <2>1, <3>1
  <2>3. PICK p \in Nat : p = 2 ^ n /\ 2 ^ (n + 1) = 2 * p
    BY PowersAre
  <2>4. read[n + 1] \in Nat /\ read[n + 1] < 2 ^ (n + 1)
    BY <1>3, <2>2, <2>3
  <2>5. /\ Bit(2 * read[n] + b, 0) = b
        /\ \A k \in Nat : Bit(2 * read[n] + b, k + 1) = Bit(read[n], k)
    <3>1. PICK v \in Nat : v = read[n]
      BY <1>3
    <3>2. /\ Bit(2 * v + b, 0) = b
          /\ \A k \in Nat : Bit(2 * v + b, k + 1) = Bit(v, k)
      BY DoubledBits
    <3>3. QED
      BY <3>1, <3>2, Zenon
  <2>6. ASSUME NEW k \in 0 .. n PROVE Bit(read[n + 1], k) = One(WordBits - (n + 1) + k)
    <3> HIDE DEF One
    <3>1. CASE k = 0
      <4>1. Bit(read[n + 1], 0) = b
        BY <2>2, <2>5, Zenon
      <4>2. WordBits - (n + 1) + 0 = WordBits - (n + 1)
        BY DexValuesAssumption
      <4>3. QED
        BY <2>1, <3>1, <4>1, <4>2
    <3>2. CASE k # 0
      <4>1. k - 1 \in 0 .. n - 1 /\ k - 1 \in Nat /\ k - 1 + 1 = k
            /\ WordBits - (n + 1) + k = WordBits - n + (k - 1)
        BY <3>2, DexValuesAssumption
      <4>2. Bit(read[n + 1], k - 1 + 1) = Bit(read[n], k - 1)
        BY <2>2, <2>5, <4>1, Zenon
      <4>3. QED
        BY <1>3, <4>1, <4>2
    <3>3. QED
      BY <3>1, <3>2
  <2>7. n + 1 - 1 = n
    OBVIOUS
  <2> HIDE DEF One
  <2>8. QED
    BY <2>4, <2>6, <2>7
<1> HIDE DEF IsRead
<1>4. T \in SUBSET Nat /\ 0 \in T /\ \A n \in T : n + 1 \in T
  BY <1>2, <1>3
<1> HIDE DEF T
<1>5. T = Nat
  BY <1>4, OneByOne
<1>6. IsRead(WordBits)
  BY <1>5, DexValuesAssumption DEF T
<1>7. \A k \in 0 .. WordBits - 1 : WordBits - WordBits + k = k
  BY DexValuesAssumption
<1>8. QED
  <2>1. PICK u : u = read[WordBits]
    OBVIOUS
  <2>2. /\ u \in Nat /\ u < Modulus
        /\ \A k \in 0 .. WordBits - 1 : Bit(u, k) = IF k \in bits THEN 1 ELSE 0
    BY <1>6, <1>7, <2>1 DEF IsRead, Modulus
  <2>3. QED
    BY <1>1, <2>1, <2>2

LEMMA DividedInts ==
  ASSUME NEW m \in Nat, m > 0, NEW n \in Int
  PROVE  \E q \in Int : \E r \in 0 .. m - 1 : n = m * q + r
<1>1. CASE n \in Nat
  <2>1. PICK q \in Nat : \E r \in 0 .. m - 1 : n = m * q + r
    BY <1>1, Divided
  <2>2. q \in Int
    OBVIOUS
  <2>3. QED
    BY <2>1, <2>2
<1>2. CASE n \notin Nat
  <2>1. -n \in Nat
    BY <1>2
  <2>2. PICK q \in Nat : \E r \in 0 .. m - 1 : -n = m * q + r
    BY <2>1, Divided
  <2>3. PICK r \in 0 .. m - 1 : -n = m * q + r
    BY <2>2
  <2>4. m * (-q) = -(m * q) /\ m * (-q - 1) = -(m * q) - m /\ -q \in Int /\ -q - 1 \in Int
    OBVIOUS
  <2>5. PICK x \in Nat : x = m * q
    OBVIOUS
  <2>6. CASE r = 0
    <3>1. n = m * (-q) + 0 /\ 0 \in 0 .. m - 1
      BY <2>3, <2>4, <2>5, <2>6
    <3>2. QED
      BY <2>4, <3>1
  <2>7. CASE r # 0
    <3>1. n = m * (-q - 1) + (m - r) /\ m - r \in 0 .. m - 1
      BY <2>3, <2>4, <2>5, <2>7
    <3>2. QED
      BY <2>4, <3>1
  <2>8. QED
    BY <2>6, <2>7
<1>3. QED
  BY <1>1, <1>2

(* Wrapping a number around keeps what is left of it.                                *)
LEMMA Residues ==
  ASSUME NEW m \in Nat, m > 0, NEW h \in Int, NEW n \in Int
  PROVE  (((n + h) % m) - h) % m = n % m
<1>1. PICK q \in Int : \E r \in 0 .. m - 1 : n + h = m * q + r
  <2>1. PICK k \in Int : k = n + h
    OBVIOUS
  <2>2. \E q \in Int : \E r \in 0 .. m - 1 : k = m * q + r
    BY DividedInts
  <2>3. QED
    BY <2>1, <2>2, Zenon
<1>2. PICK r \in 0 .. m - 1 : n + h = m * q + r
  BY <1>1
<1>3. (n + h) % m = r
  <2>1. (m * q + r) % m = r
    BY Division
  <2>2. QED
    BY <1>2, <2>1, Zenon
<1>4. PICK p \in Int : \E s \in 0 .. m - 1 : r - h = m * p + s
  <2>1. PICK k \in Int : k = r - h
    OBVIOUS
  <2>2. \E p \in Int : \E s \in 0 .. m - 1 : k = m * p + s
    BY DividedInts
  <2>3. QED
    BY <2>1, <2>2, Zenon
<1>5. PICK s \in 0 .. m - 1 : r - h = m * p + s
  BY <1>4
<1>6. (r - h) % m = s
  <2>1. (m * p + s) % m = s
    BY Division
  <2>2. QED
    BY <1>5, <2>1, Zenon
<1>7. n = m * (q + p) + s /\ q + p \in Int
  <2>1. m * (q + p) = m * q + m * p
    OBVIOUS
  <2>2. PICK x, y \in Int : x = m * q /\ y = m * p
    OBVIOUS
  <2>3. QED
    BY <1>2, <1>5, <2>1, <2>2
<1>8. n % m = s
  BY <1>7, Division
<1>9. QED
  BY <1>3, <1>6, <1>8

LEMMA WrapKeeps ==
  ASSUME NEW n \in Int
  PROVE  Unsigned(Wrap(n)) = Unsigned(n) /\ Unsigned(n) \in Nat /\ Unsigned(n) < Modulus
<1>1. PICK m \in Nat : m = Modulus /\ m > 0 /\ m \div 2 \in Int
  BY ModulusIs
<1>2. (((n + m \div 2) % m) - m \div 2) % m = n % m
  BY <1>1, Residues
<1>3. n % m \in Nat /\ n % m < m
  BY <1>1
<1>4. QED
  BY <1>1, <1>2, <1>3 DEF Unsigned, Wrap

LEMMA LongsBegin ==
  /\ LongModulus \in Nat /\ LongModulus > 0 /\ LongModulus = 2 * (LongModulus \div 2)
  /\ LongModulus \div 2 \in Nat
<1>1. PICK m, h \in Nat : m = Modulus /\ m > 0 /\ m = 2 * h
  BY ModulusIs
<1>2. PICK p \in Nat : p = h * m /\ m * m = 2 * p
  <2>1. h * m \in Nat /\ (2 * h) * m = 2 * (h * m)
    BY <1>1
  <2>2. QED
    BY <1>1, <2>1
<1>3. m * m > 0
  BY <1>1
<1>4. LongModulus = 2 * p /\ 2 * p > 0
  BY <1>1, <1>2, <1>3 DEF LongModulus
<1>5. (2 * p) \div 2 = p
  BY <1>2
<1>6. QED
  BY <1>2, <1>4, <1>5

LEMMA WrapLongKeeps ==
  ASSUME NEW n \in Int
  PROVE  WrapLong(n) % LongModulus = n % LongModulus /\ WrapLong(n) \in Int
<1>1. PICK m \in Nat : m = LongModulus /\ m > 0 /\ m \div 2 \in Int
  BY LongsBegin
<1>2. (((n + m \div 2) % m) - m \div 2) % m = n % m
  BY <1>1, Residues
<1>3. ((n + m \div 2) % m) - m \div 2 \in Int
  BY <1>1
<1>4. QED
  BY <1>1, <1>2, <1>3 DEF WrapLong

LEMMA WrapLongIs ==
  ASSUME NEW n \in Nat, n < LongModulus
  PROVE  WrapLong(n) = IF n * 2 >= LongModulus THEN n - LongModulus ELSE n
<1>1. PICK h \in Nat : h = LongModulus \div 2 /\ LongModulus = 2 * h /\ h > 0
  BY LongsBegin
<1>2. PICK m \in Nat : m = 2 * h /\ m > 0
  BY <1>1
<1>3. CASE n >= h
  <2>1. n + h = m * 1 + (n - h) /\ n - h \in 0 .. m - 1
    BY <1>1, <1>2, <1>3
  <2>2. (m * 1 + (n - h)) % m = n - h
    BY <1>2, <2>1, Division
  <2>3. (n + h) % m = n - h
    BY <2>1, <2>2
  <2>4. QED
    BY <1>1, <1>2, <1>3, <2>3 DEF WrapLong
<1>4. CASE n < h
  <2>1. n + h = m * 0 + (n + h) /\ n + h \in 0 .. m - 1
    BY <1>1, <1>2, <1>4
  <2>2. (m * 0 + (n + h)) % m = n + h
    BY <1>2, <2>1, Division
  <2>3. (n + h) % m = n + h
    BY <2>1, <2>2
  <2>4. QED
    BY <1>1, <1>2, <1>4, <2>3 DEF WrapLong
<1>5. QED
  BY <1>1, <1>3, <1>4

(* Two words make a long.                                                          *)
LEMMA TwoWords ==
  ASSUME NEW low \in Nat, low < Modulus, NEW high \in Nat, high < Modulus
  PROVE  low + Modulus * high \in Nat /\ low + Modulus * high < LongBits
<1>1. PICK m \in Nat : m = Modulus /\ low < m /\ high < m
  BY ModulusIs
<1>2. PICK s \in Nat : m = high + 1 + s
  <2>1. m - high - 1 \in Nat /\ m = high + 1 + (m - high - 1)
    BY <1>1
  <2>2. QED
    BY <2>1
<1>3. m * m = m * high + m + m * s /\ m * s \in Nat /\ m * high \in Nat
  BY <1>2
<1>4. low + m * high \in Nat /\ low + m * high < m * m
  BY <1>1, <1>3
<1>5. QED
  BY <1>1, <1>4, LongBitsAre

LEMMA PairsAre ==
  ASSUME NEW regs, NEW r, regs[r].n \in Int, regs[r + 1].n \in Int
  PROVE  /\ ULong(regs, r) = Unsigned(regs[r].n) + Modulus * Unsigned(regs[r + 1].n)
         /\ ULong(regs, r) \in Nat /\ SLong(regs, r) \in Int
         /\ LongOf(regs[r].n, regs[r + 1].n) = SLong(regs, r)
<1>1. PICK low, high : low = Unsigned(regs[r].n) /\ high = Unsigned(regs[r + 1].n)
  OBVIOUS
<1>2. /\ low \in Nat /\ low < Modulus
      /\ high \in Nat /\ high < Modulus
  BY <1>1, WrapKeeps
<1>3. PICK u : u = low + Modulus * high
  OBVIOUS
<1>4. u \in Nat /\ u < LongBits /\ LongBits \in Nat
  BY <1>2, <1>3, TwoWords, LongBitsAre, LongsBegin
<1>5. ULong(regs, r) = u
  BY <1>1, <1>3 DEF ULong, Unsigned, Modulus
<1>6. LongOf(regs[r].n, regs[r + 1].n) = WrapLong(high * Modulus + low)
  BY <1>1, Zenon DEF LongOf
<1>7. high * Modulus + low = u
  <2>1. PICK m \in Nat : m = Modulus
    BY ModulusIs
  <2>2. high * m + low = low + m * high
    BY <1>2
  <2>3. QED
    BY <1>3, <2>1, <2>2, Zenon
<1>8. WrapLong(u) = IF u * 2 >= LongBits THEN u - LongBits ELSE u
  BY <1>4, WrapLongIs, LongBitsAre
<1>9. QED
  BY <1>1, <1>3, <1>4, <1>5, <1>6, <1>7, <1>8 DEF SLong

(* The halves a long is stored in make it up again.                                  *)
LEMMA HalvesAre ==
  ASSUME NEW n \in Int
  PROVE  Unsigned(LowHalf(n)) + Modulus * Unsigned(HighHalf(n)) = n % LongBits
<1>1. PICK m \in Nat : m = Modulus /\ m > 0
  BY ModulusIs
<1>2. PICK l \in Nat : l = m * m /\ l > 0 /\ l = LongModulus /\ l = LongBits
  BY <1>1, LongBitsAre, LongsBegin
<1>3. PICK q \in Int : \E s \in 0 .. l - 1 : n = l * q + s
  BY <1>2, DividedInts
<1>4. PICK s \in 0 .. l - 1 : n = l * q + s
  BY <1>3
<1>5. n % l = s
  <2>1. (l * q + s) % l = s
    BY <1>2, Division
  <2>2. QED
    BY <1>4, <2>1, Zenon
<1>6. PICK x \in Nat : \E y \in 0 .. m - 1 : s = m * x + y
  <2>1. s \in Nat
    BY <1>2
  <2>2. QED
    BY <1>1, <2>1, Divided
<1>7. PICK y \in 0 .. m - 1 : s = m * x + y
  BY <1>6
<1>8. s \div m = x
  <2>1. (m * x + y) \div m = x
    BY <1>1, Division
  <2>2. QED
    BY <1>7, <2>1, Zenon
<1>9. x < m
  <2>1. SUFFICES ASSUME x >= m PROVE FALSE
    OBVIOUS
  <2>2. PICK t \in Nat : x = m + t
    <3>1. x - m \in Nat /\ x = m + (x - m)
      BY <1>1, <2>1
    <3>2. QED
      BY <3>1
  <2>3. m * x = m * m + m * t /\ m * t \in Nat
    BY <1>1, <2>2
  <2>4. QED
    BY <1>2, <1>4, <1>7, <2>3
<1>10. n % m = y
  <2>1. l * q + s = m * (m * q + x) + y
    <3>1. m * (m * q + x) = (m * m) * q + m * x
      OBVIOUS
    <3>2. PICK a, b \in Int : a = (m * m) * q /\ b = m * x
      OBVIOUS
    <3>3. QED
      BY <1>2, <1>7, <3>1, <3>2
  <2>2. PICK k \in Int : k = m * q + x
    OBVIOUS
  <2>3. (m * k + y) % m = y
    BY <1>1, Division
  <2>4. QED
    BY <1>4, <2>1, <2>2, <2>3, Zenon
<1>11. Unsigned(LowHalf(n)) = y
  BY <1>1, <1>10, WrapKeeps DEF LowHalf, Unsigned
<1>12. Unsigned(HighHalf(n)) = x
  <2>1. HighHalf(n) = Wrap(x)
    BY <1>1, <1>2, <1>5, <1>8 DEF HighHalf
  <2>2. Unsigned(Wrap(x)) = x % m
    BY <1>1, WrapKeeps DEF Unsigned
  <2>3. x % m = x
    BY <1>1, <1>9
  <2>4. QED
    BY <2>1, <2>2, <2>3
<1>13. y + m * x = s
  <2>1. PICK b \in Int : b = m * x
    OBVIOUS
  <2>2. QED
    BY <1>7, <2>1
<1>14. QED
  BY <1>1, <1>2, <1>5, <1>11, <1>12, <1>13

--------------------------------------------------------------------------------
(* What the long opcodes compute.                                                   *)

Computing(m) ==
  {"regs", "pc", "stop"} \subseteq DOMAIN m /\ \A r \in DOMAIN m.regs : m.regs[r].n \in Words

(* An instruction that has not stopped has passed its checks.                          *)
LEMMA StopIs ==
  ASSUME NEW m, Computing(m), NEW reason PROVE Stop(m, reason).stop = reason
  BY DEF Stop, Computing

LEMMA PairSet ==
  ASSUME NEW m, Computing(m), NEW r \in Nat, Wide(r) \subseteq DOMAIN m.regs,
         NEW low, NEW high, NEW n, n = Advance(SetPair(m, r, low, high))
  PROVE  n.regs[r] = low /\ n.regs[r + 1] = high
<1>1. PICK one : one = SetReg(m, r, low)
  OBVIOUS
<1>2. /\ "regs" \in DOMAIN one /\ DOMAIN one.regs = DOMAIN m.regs /\ one.regs[r] = low
      /\ "pc" \in DOMAIN one
  BY <1>1 DEF SetReg, Computing, Wide
<1>3. PICK two : two = SetReg(one, r + 1, high)
  OBVIOUS
<1>4. /\ "regs" \in DOMAIN two /\ two.regs[r + 1] = high /\ r + 1 # r
  BY <1>2, <1>3 DEF SetReg, Wide
<1>5. two.regs[r] = low
  BY <1>2, <1>3, <1>4 DEF SetReg, Wide
<1>6. n.regs = two.regs
  BY <1>1, <1>2, <1>3, <1>4 DEF SetPair, Advance, Goto
<1>7. QED
  BY <1>4, <1>5, <1>6

LEMMA LongIsStored ==
  ASSUME NEW m, Computing(m), NEW r \in Nat, Wide(r) \subseteq DOMAIN m.regs, NEW n \in Int
  PROVE  ULong(SetLong(m, r, n).regs, r) = n % LongBits
<1>1. PICK after, regs : after = SetLong(m, r, n) /\ regs = after.regs
  OBVIOUS
<1>2. regs[r] = Num(LowHalf(n)) /\ regs[r + 1] = Num(HighHalf(n))
  <2>1. after = Advance(SetPair(m, r, Num(LowHalf(n)), Num(HighHalf(n))))
    BY <1>1 DEF SetLong
  <2>2. QED
    BY <1>1, <2>1, PairSet
<1>3. regs[r].n = LowHalf(n) /\ regs[r + 1].n = HighHalf(n)
  <2>1. \A k : Num(k).n = k
    BY DEF Num, Value
  <2>2. QED
    BY <1>2, <2>1
<1>4. regs[r].n \in Int /\ regs[r + 1].n \in Int
  BY <1>3, LongsAreInts, SmallWords
<1>5. ULong(regs, r) = n % LongBits
  BY <1>3, <1>4, PairsAre, HalvesAre
<1>6. QED
  BY <1>1, <1>5

LEMMA LongsAreRead ==
  ASSUME NEW m, Computing(m), NEW r, Wide(r) \subseteq DOMAIN m.regs
  PROVE  Pair(m, r) = SLong(m.regs, r) /\ SLong(m.regs, r) \in Int
<1>1. PICK regs : regs = m.regs
  OBVIOUS
<1>2. regs[r].n \in Int /\ regs[r + 1].n \in Int
  BY <1>1, SmallWords DEF Computing, Wide
<1>3. LongOf(regs[r].n, regs[r + 1].n) = SLong(regs, r) /\ SLong(regs, r) \in Int
  BY <1>2, PairsAre
<1>4. QED
  BY <1>1, <1>3 DEF Pair

(* Sums and differences of longs, and their order.                                  *)
LEMMA OperandsPass ==
  ASSUME NEW m, Computing(m), NEW dest, NEW left, NEW right, NEW after,
         LongOperands(m, dest, left, right, after).stop = "none"
  PROVE  /\ LongOperands(m, dest, left, right, after) = after
         /\ dest \subseteq DOMAIN m.regs
         /\ Wide(left) \subseteq DOMAIN m.regs /\ Wide(right) \subseteq DOMAIN m.regs
<1>1. \A reason : Stop(m, reason).stop = reason
  BY StopIs
<1>2. QED
  BY <1>1 DEF LongOperands, Registers, Ints, Need

LEMMA WholePasses ==
  ASSUME NEW m, Computing(m), NEW i, NEW after, Whole(m, i, after).stop = "none"
  PROVE  Whole(m, i, after) = after
  BY StopIs DEF Whole, Need

LEMMA ModularLongs ==
  ASSUME NEW m, Computing(m), NEW r \in Nat, Wide(r) \subseteq DOMAIN m.regs, NEW n \in Int
  PROVE  ULong(SetLong(m, r, WrapLong(n)).regs, r) = n % LongBits
<1>1. WrapLong(n) \in Int /\ WrapLong(n) % LongBits = n % LongBits
  BY WrapLongKeeps, LongBitsAre
<1>2. QED
  BY <1>1, LongIsStored

LEMMA SubLongComputes ==
  ASSUME NEW m, Computing(m), NEW i, i.a \in Nat, SubLong(m, i).stop = "none"
  PROVE  ULong(SubLong(m, i).regs, i.a) = (SLong(m.regs, i.b) - SLong(m.regs, i.c)) % LongBits
<1>1. PICK after : after = SetLong(m, i.a, WrapLong(Pair(m, i.b) - Pair(m, i.c)))
  OBVIOUS
<1>2. PICK checked : checked = LongOperands(m, Wide(i.a), i.b, i.c, after)
  OBVIOUS
<1>3. SubLong(m, i) = checked
  BY <1>1, <1>2, WholePasses DEF SubLong
<1>4. checked.stop = "none"
  BY <1>3
<1>5. /\ checked = after /\ Wide(i.a) \subseteq DOMAIN m.regs
      /\ Wide(i.b) \subseteq DOMAIN m.regs /\ Wide(i.c) \subseteq DOMAIN m.regs
  BY <1>2, <1>4, OperandsPass
<1>6. PICK x, y \in Int : /\ x = SLong(m.regs, i.b) /\ Pair(m, i.b) = x
                          /\ y = SLong(m.regs, i.c) /\ Pair(m, i.c) = y
  BY <1>5, LongsAreRead
<1>7. ULong(after.regs, i.a) = (x - y) % LongBits
  <2>1. x - y \in Int
    OBVIOUS
  <2>2. QED
    BY <1>1, <1>5, <1>6, <2>1, ModularLongs
<1>8. QED
  BY <1>3, <1>5, <1>6, <1>7, Zenon

LEMMA SumsInPlaceCompute ==
  ASSUME NEW m, Computing(m), NEW i, i.a \in Nat, AddOrSubLong2Addr(m, i).stop = "none"
  PROVE  ULong(AddOrSubLong2Addr(m, i).regs, i.a) =
           (IF i.op = "add-long/2addr" THEN SLong(m.regs, i.a) + SLong(m.regs, i.b)
            ELSE SLong(m.regs, i.a) - SLong(m.regs, i.b)) % LongBits
<1>1. PICK after : after = SetLong(m, i.a, WrapLong(IF i.op = "add-long/2addr"
                                                      THEN Pair(m, i.a) + Pair(m, i.b)
                                                      ELSE Pair(m, i.a) - Pair(m, i.b)))
  OBVIOUS
<1>2. AddOrSubLong2Addr(m, i) = LongOperands(m, Wide(i.a), i.a, i.b, after)
  BY <1>1, Zenon DEF AddOrSubLong2Addr
<1>3. /\ AddOrSubLong2Addr(m, i) = after
      /\ Wide(i.a) \subseteq DOMAIN m.regs /\ Wide(i.b) \subseteq DOMAIN m.regs
  BY <1>2, OperandsPass
<1>4. PICK x, y \in Int : /\ x = SLong(m.regs, i.a) /\ Pair(m, i.a) = x
                          /\ y = SLong(m.regs, i.b) /\ Pair(m, i.b) = y
  BY <1>3, LongsAreRead
<1>5. PICK n \in Int : n = IF i.op = "add-long/2addr" THEN x + y ELSE x - y
  <2>1. x + y \in Int /\ x - y \in Int
    OBVIOUS
  <2>2. QED
    BY <2>1
<1>6. ULong(after.regs, i.a) = n % LongBits
  BY <1>1, <1>3, <1>4, <1>5, ModularLongs
<1>7. QED
  BY <1>3, <1>4, <1>5, <1>6, Zenon

LEMMA CmpLongComputes ==
  ASSUME NEW m, Computing(m), NEW i, CmpLong(m, i).stop = "none"
  PROVE  CmpLong(m, i).regs[i.a].n =
           IF SLong(m.regs, i.b) < SLong(m.regs, i.c) THEN -1
           ELSE IF SLong(m.regs, i.b) = SLong(m.regs, i.c) THEN 0 ELSE 1
<1>1. PICK n : n = IF Pair(m, i.b) < Pair(m, i.c) THEN -1
                   ELSE IF Pair(m, i.b) > Pair(m, i.c) THEN 1 ELSE 0
  OBVIOUS
<1>2. PICK after : after = Advance(SetReg(m, i.a, Num(n)))
  OBVIOUS
<1>3. PICK checked : checked = LongOperands(m, {i.a}, i.b, i.c, after)
  OBVIOUS
<1>4. CmpLong(m, i) = checked
  BY <1>1, <1>2, <1>3, WholePasses DEF CmpLong
<1>5. checked.stop = "none"
  BY <1>4
<1>6. /\ checked = after /\ i.a \in DOMAIN m.regs
      /\ Wide(i.b) \subseteq DOMAIN m.regs /\ Wide(i.c) \subseteq DOMAIN m.regs
  BY <1>3, <1>5, OperandsPass
<1>7. PICK x, y \in Int : /\ x = SLong(m.regs, i.b) /\ Pair(m, i.b) = x
                          /\ y = SLong(m.regs, i.c) /\ Pair(m, i.c) = y
  BY <1>6, LongsAreRead
<1>8. n = IF x < y THEN -1 ELSE IF x = y THEN 0 ELSE 1
  BY <1>1, <1>7
<1>9. after.regs[i.a].n = n
  BY <1>2, <1>6 DEF Advance, Goto, SetReg, Num, Value, Computing
<1>10. QED
  BY <1>4, <1>6, <1>7, <1>8, <1>9

LEMMA OfTwoBits ==
  ASSUME NEW x \in {0, 1}, NEW y \in {0, 1}
  PROVE  /\ Max({x, y}) = IF x = 1 \/ y = 1 THEN 1 ELSE 0
         /\ Min({x, y}) = IF x = 1 /\ y = 1 THEN 1 ELSE 0
<1>1. PICK S : S = {x, y}
  OBVIOUS
<1>2. S \in SUBSET Nat /\ S # {} /\ (\A k \in S : k < 2) /\ 2 \in Nat
  BY <1>1
<1>3. Max(S) \in S /\ (\A k \in S : k <= Max(S)) /\ Min(S) \in S /\ (\A k \in S : Min(S) <= k)
  BY <1>2, MaxIsGreatest, MinIsLeast
<1>4. PICK big, small : big = Max(S) /\ small = Min(S)
  OBVIOUS
<1>5. big \in S /\ (\A k \in S : k <= big) /\ small \in S /\ (\A k \in S : small <= k)
  BY <1>3, <1>4
<1>6. (big = IF x = 1 \/ y = 1 THEN 1 ELSE 0) /\ (small = IF x = 1 /\ y = 1 THEN 1 ELSE 0)
  BY <1>1, <1>5
<1>7. QED
  BY <1>1, <1>4, <1>6

(* What a bitwise operation makes of two bits.                                       *)
OfBoth(i, x, y) == IF i.op = "or-long" THEN Max({x, y}) ELSE Min({x, y})

LEMMA WordsCombine ==
  ASSUME NEW i, NEW n \in Int, NEW k \in Int
  PROVE  /\ Bits(i, n, k) \in Int
         /\ \A b \in 0 .. WordBits - 1 :
              Bit(Unsigned(Bits(i, n, k)), b) = OfBoth(i, Bit(Unsigned(n), b), Bit(Unsigned(k), b))
<1>1. PICK bits : bits = IF i.op = "or-long" THEN BitsOf(n) \cup BitsOf(k)
                         ELSE BitsOf(n) \cap BitsOf(k)
  OBVIOUS
<1>2. Bits(i, n, k) = OfBits(bits)
  BY <1>1 DEF Bits, BitOr, BitAnd
<1>3. PICK u \in Nat : /\ u < Modulus /\ OfBits(bits) = Wrap(u)
                       /\ \A b \in 0 .. WordBits - 1 : Bit(u, b) = IF b \in bits THEN 1 ELSE 0
  BY WordIsRead
<1>4. Unsigned(Bits(i, n, k)) = u
  <2>1. Unsigned(Wrap(u)) = Unsigned(u)
    BY WrapKeeps
  <2>2. PICK m \in Nat : m = Modulus /\ u < m /\ m > 0
    BY <1>3, ModulusIs
  <2>3. u % m = u
    BY <2>2
  <2>4. QED
    BY <1>2, <1>3, <2>1, <2>2, <2>3 DEF Unsigned
<1>5. ASSUME NEW b \in 0 .. WordBits - 1
      PROVE  Bit(u, b) = OfBoth(i, Bit(Unsigned(n), b), Bit(Unsigned(k), b))
  <2>1. PICK x, y : x = Bit(Unsigned(n), b) /\ y = Bit(Unsigned(k), b)
    OBVIOUS
  <2>2. x \in {0, 1} /\ y \in {0, 1}
    <3>1. b \in Nat /\ Unsigned(n) \in Int /\ Unsigned(k) \in Int
      BY WrapKeeps
    <3>2. QED
      BY <2>1, <3>1, BitIsBinary
  <2>3. (b \in BitsOf(n) <=> x = 1) /\ (b \in BitsOf(k) <=> y = 1)
    BY <2>1, BitsAre
  <2>4. Bit(u, b) = IF b \in bits THEN 1 ELSE 0
    BY <1>3
  <2>5. OfBoth(i, x, y) = IF i.op = "or-long" THEN (IF x = 1 \/ y = 1 THEN 1 ELSE 0)
                          ELSE (IF x = 1 /\ y = 1 THEN 1 ELSE 0)
    BY <2>2, OfTwoBits DEF OfBoth
  <2>6. QED
    BY <1>1, <2>1, <2>3, <2>4, <2>5
<1>6. Bits(i, n, k) \in Int
  BY <1>2, BitsAreRead, SmallWords
<1>7. QED
  BY <1>4, <1>5, <1>6

(* The bits of a long are those of its words.                                        *)
LEMMA LongHasBits ==
  ASSUME NEW regs, NEW r, regs[r].n \in Int, regs[r + 1].n \in Int
  PROVE  \A k \in 0 .. WordBits - 1 :
           /\ Bit(ULong(regs, r), k) = Bit(Unsigned(regs[r].n), k)
           /\ Bit(ULong(regs, r), WordBits + k) = Bit(Unsigned(regs[r + 1].n), k)
<1>1. PICK low, high : low = Unsigned(regs[r].n) /\ high = Unsigned(regs[r + 1].n)
  OBVIOUS
<1>2. low \in Nat /\ low \in 0 .. Modulus - 1 /\ high \in Nat
  BY <1>1, WrapKeeps, ModulusIs
<1>3. ULong(regs, r) = low + Modulus * high
  BY <1>1, PairsAre
<1>4. ASSUME NEW k \in 0 .. WordBits - 1
      PROVE  /\ Bit(low + Modulus * high, k) = Bit(low, k)
             /\ Bit(low + Modulus * high, WordBits + k) = Bit(high, k)
  <2>1. k \in Nat
    OBVIOUS
  <2>2. QED
    BY <1>2, <2>1, LowBits, HighBits
<1>5. QED
  BY <1>1, <1>3, <1>4

(* The low word is stored before the high ones are read: for operands that do not      *)
(* overlap the result it is not one of them.                                         *)
LEMMA HalvesAreStored ==
  ASSUME NEW m, Computing(m), NEW i, i.a \in Nat, Wide(i.a) \subseteq DOMAIN m.regs,
         NEW left, NEW right, i.a # left + 1, i.a # right + 1
  PROVE  /\ HalfByHalf(m, i, left, right).regs[i.a].n
              = Bits(i, m.regs[left].n, m.regs[right].n)
         /\ HalfByHalf(m, i, left, right).regs[i.a + 1].n
              = Bits(i, m.regs[left + 1].n, m.regs[right + 1].n)
<1>1. PICK x : x = Bits(i, m.regs[left].n, m.regs[right].n)
  OBVIOUS
<1>2. PICK low : low = SetReg(m, i.a, Num(x))
  OBVIOUS
<1>3. /\ "regs" \in DOMAIN low /\ DOMAIN low.regs = DOMAIN m.regs
      /\ low.regs[i.a] = Num(x)
      /\ low.regs[left + 1] = m.regs[left + 1] /\ low.regs[right + 1] = m.regs[right + 1]
      /\ "pc" \in DOMAIN low
  BY <1>2 DEF SetReg, Computing, Wide
<1>4. PICK y : y = Bits(i, m.regs[left + 1].n, m.regs[right + 1].n)
  OBVIOUS
<1>5. PICK two : two = SetReg(low, i.a + 1, Num(y))
  OBVIOUS
<1>6. HalfByHalf(m, i, left, right) = Advance(two)
  BY <1>1, <1>2, <1>3, <1>4, <1>5 DEF HalfByHalf
<1>7. i.a + 1 # i.a
  OBVIOUS
<1>8. two.regs[i.a] = Num(x) /\ two.regs[i.a + 1] = Num(y) /\ "regs" \in DOMAIN two
  BY <1>3, <1>5, <1>7 DEF SetReg, Wide
<1>9. Advance(two).regs = two.regs
  BY <1>8 DEF Advance, Goto
<1>10. \A k : Num(k).n = k
  BY DEF Num, Value
<1>11. QED
  BY <1>1, <1>4, <1>6, <1>8, <1>9, <1>10

LEMMA HalvesCombine ==
  ASSUME NEW m, Computing(m), NEW i, i.a \in Nat, Wide(i.a) \subseteq DOMAIN m.regs,
         NEW left, NEW right, i.a # left + 1, i.a # right + 1,
         Wide(left) \subseteq DOMAIN m.regs, Wide(right) \subseteq DOMAIN m.regs
  PROVE  \A k \in 0 .. 2 * WordBits - 1 :
           Bit(ULong(HalfByHalf(m, i, left, right).regs, i.a), k) =
             OfBoth(i, Bit(ULong(m.regs, left), k), Bit(ULong(m.regs, right), k))
<1>1. PICK old, new : old = m.regs /\ new = HalfByHalf(m, i, left, right).regs
  OBVIOUS
<1>2. /\ old[left].n \in Int /\ old[left + 1].n \in Int
      /\ old[right].n \in Int /\ old[right + 1].n \in Int
  BY <1>1, SmallWords DEF Computing, Wide
<1>3. /\ new[i.a].n = Bits(i, old[left].n, old[right].n)
      /\ new[i.a + 1].n = Bits(i, old[left + 1].n, old[right + 1].n)
  BY <1>1, HalvesAreStored
<1>4. PICK a, b, c, d \in Int : /\ a = old[left].n /\ b = old[left + 1].n
                                /\ c = old[right].n /\ d = old[right + 1].n
  BY <1>2
<1>5. PICK x, y : x = new[i.a].n /\ y = new[i.a + 1].n
  OBVIOUS
<1>6. /\ x \in Int /\ y \in Int
      /\ \A k \in 0 .. WordBits - 1 :
           /\ Bit(Unsigned(x), k) = OfBoth(i, Bit(Unsigned(a), k), Bit(Unsigned(c), k))
           /\ Bit(Unsigned(y), k) = OfBoth(i, Bit(Unsigned(b), k), Bit(Unsigned(d), k))
  BY <1>3, <1>4, <1>5, WordsCombine
<1>7. ASSUME NEW k \in 0 .. WordBits - 1
      PROVE  /\ Bit(ULong(new, i.a), k) =
                  OfBoth(i, Bit(ULong(old, left), k), Bit(ULong(old, right), k))
             /\ Bit(ULong(new, i.a), WordBits + k) =
                  OfBoth(i, Bit(ULong(old, left), WordBits + k),
                            Bit(ULong(old, right), WordBits + k))
  <2>1. /\ Bit(ULong(new, i.a), k) = Bit(Unsigned(x), k)
        /\ Bit(ULong(new, i.a), WordBits + k) = Bit(Unsigned(y), k)
    BY <1>5, <1>6, LongHasBits
  <2>2. /\ Bit(ULong(old, left), k) = Bit(Unsigned(a), k)
        /\ Bit(ULong(old, left), WordBits + k) = Bit(Unsigned(b), k)
    BY <1>2, <1>4, LongHasBits
  <2>3. /\ Bit(ULong(old, right), k) = Bit(Unsigned(c), k)
        /\ Bit(ULong(old, right), WordBits + k) = Bit(Unsigned(d), k)
    BY <1>2, <1>4, LongHasBits
  <2>4. QED
    BY <1>6, <2>1, <2>2, <2>3
<1>8. ASSUME NEW k \in 0 .. 2 * WordBits - 1
      PROVE  Bit(ULong(new, i.a), k) =
               OfBoth(i, Bit(ULong(old, left), k), Bit(ULong(old, right), k))
  <2>1. CASE k < WordBits
    <3>1. k \in 0 .. WordBits - 1
      BY <2>1, DexValuesAssumption
    <3>2. QED
      BY <1>7, <3>1
  <2>2. CASE ~(k < WordBits)
    <3>1. PICK j \in 0 .. WordBits - 1 : k = WordBits + j
      <4>1. k - WordBits \in 0 .. WordBits - 1 /\ k = WordBits + (k - WordBits)
        BY <2>2, DexValuesAssumption
      <4>2. QED
        BY <4>1
    <3>2. QED
      BY <1>7, <3>1
  <2>3. QED
    BY <2>1, <2>2
<1>9. QED
  BY <1>1, <1>8

LEMMA OrLongComputes ==
  ASSUME NEW m, Computing(m), NEW i, i.a \in Nat, OrLong(m, i).stop = "none",
         i.op = "or-long", i.a # i.b + 1, i.a # i.c + 1
  PROVE  \A k \in 0 .. 2 * WordBits - 1 :
           Bit(ULong(OrLong(m, i).regs, i.a), k) =
             Max({Bit(ULong(m.regs, i.b), k), Bit(ULong(m.regs, i.c), k)})
<1>1. PICK after : after = HalfByHalf(m, i, i.b, i.c)
  OBVIOUS
<1>2. PICK checked : checked = LongOperands(m, Wide(i.a), i.b, i.c, after)
  OBVIOUS
<1>3. OrLong(m, i) = checked
  BY <1>1, <1>2, WholePasses DEF OrLong
<1>4. checked.stop = "none"
  BY <1>3
<1>5. /\ checked = after /\ Wide(i.a) \subseteq DOMAIN m.regs
      /\ Wide(i.b) \subseteq DOMAIN m.regs /\ Wide(i.c) \subseteq DOMAIN m.regs
  BY <1>2, <1>4, OperandsPass
<1>6. \A k \in 0 .. 2 * WordBits - 1 :
        Bit(ULong(HalfByHalf(m, i, i.b, i.c).regs, i.a), k) =
          OfBoth(i, Bit(ULong(m.regs, i.b), k), Bit(ULong(m.regs, i.c), k))
  BY <1>5, HalvesCombine
<1>7. QED
  BY <1>1, <1>3, <1>5, <1>6 DEF OfBoth

LEMMA AndLongComputes ==
  ASSUME NEW m, Computing(m), NEW i, i.a \in Nat, AndLong2Addr(m, i).stop = "none",
         i.op = "and-long/2addr", i.a # i.b + 1
  PROVE  \A k \in 0 .. 2 * WordBits - 1 :
           Bit(ULong(AndLong2Addr(m, i).regs, i.a), k) =
             Min({Bit(ULong(m.regs, i.a), k), Bit(ULong(m.regs, i.b), k)})
<1>1. PICK after : after = HalfByHalf(m, i, i.a, i.b)
  OBVIOUS
<1>2. AndLong2Addr(m, i) = LongOperands(m, Wide(i.a), i.a, i.b, after)
  BY <1>1, Zenon DEF AndLong2Addr
<1>3. /\ AndLong2Addr(m, i) = after
      /\ Wide(i.a) \subseteq DOMAIN m.regs /\ Wide(i.b) \subseteq DOMAIN m.regs
  BY <1>2, OperandsPass
<1>4. i.a # i.a + 1
  OBVIOUS
<1>5. \A k \in 0 .. 2 * WordBits - 1 :
        Bit(ULong(HalfByHalf(m, i, i.a, i.b).regs, i.a), k) =
          OfBoth(i, Bit(ULong(m.regs, i.a), k), Bit(ULong(m.regs, i.b), k))
  BY <1>3, <1>4, HalvesCombine
<1>6. QED
  BY <1>1, <1>3, <1>5 DEF OfBoth

LEMMA IntToLongComputes ==
  ASSUME NEW m, Computing(m), NEW i, i.a \in Nat, IntToLong(m, i).stop = "none",
         m.regs[i.b].n >= 0
  PROVE  ULong(IntToLong(m, i).regs, i.a) = m.regs[i.b].n
<1>1. PICK after : after = Advance(SetPair(m, i.a, m.regs[i.b], Num(0)))
  OBVIOUS
<1>2. /\ IntToLong(m, i) = after
      /\ Wide(i.a) \subseteq DOMAIN m.regs /\ i.b \in DOMAIN m.regs
  BY <1>1, StopIs DEF IntToLong, Registers, Ints, Need
<1>3. PICK regs : regs = after.regs
  OBVIOUS
<1>4. regs[i.a] = m.regs[i.b] /\ regs[i.a + 1] = Num(0)
  BY <1>1, <1>2, <1>3, PairSet
<1>5. PICK n : n = m.regs[i.b].n /\ n \in Words /\ n >= 0
  BY <1>2 DEF Computing
<1>6. regs[i.a].n = n /\ regs[i.a + 1].n = 0
  <2>1. Num(0).n = 0
    BY DEF Num, Value
  <2>2. QED
    BY <1>4, <1>5, <2>1
<1>7. PICK u \in Nat : u = Modulus /\ u > 0 /\ n \in 0 .. u - 1
  BY <1>5, ModulusIs DEF Words
<1>8. Unsigned(n) = n /\ Unsigned(0) = 0
  BY <1>7 DEF Unsigned
<1>9. ULong(regs, i.a) = Unsigned(n) + Modulus * Unsigned(0)
  BY <1>6, <1>7, PairsAre
<1>10. n + u * 0 = n
  BY <1>7
<1>11. QED
  BY <1>2, <1>3, <1>5, <1>7, <1>8, <1>9, <1>10

LongOpcodes == {"sub-long", "add-long/2addr", "sub-long/2addr", "cmp-long", "or-long",
                "and-long/2addr", "int-to-long"}

(* Both interpreters carry the long opcodes out alike.                                *)
LEMMA LongStep ==
  ASSUME NEW m, NEW i, NEW size, NEW n,
         n \in {ProbeStep(m, i, size), InlineStep(m, i, size)}
  PROVE  /\ i.op = "sub-long" => n = SubLong(m, i)
         /\ i.op \in {"add-long/2addr", "sub-long/2addr"} => n = AddOrSubLong2Addr(m, i)
         /\ i.op = "cmp-long" => n = CmpLong(m, i)
         /\ i.op = "or-long" => n = OrLong(m, i)
         /\ i.op = "and-long/2addr" => n = AndLong2Addr(m, i)
         /\ i.op = "int-to-long" => n = IntToLong(m, i)
<1>1. i.op \in LongOpcodes => n = SharedStep(m, i, size)
  BY DEF ProbeStep, InlineStep, LongOpcodes
<1>2. QED
  BY <1>1 DEF SharedStep, LongOpcodes, Longs, Differences, LongsInPlace

LEMMA StepComputes ==
  ASSUME NEW m, Computing(m), NEW i, i.a \in Nat, i.b \in Nat, i.c \in Nat, NEW size, NEW n,
         n \in {ProbeStep(m, i, size), InlineStep(m, i, size)}, n.stop = "none"
  PROVE  LongsComputed(i, m.regs, n.regs)
<1>1. CASE i.op = "sub-long"
  <2>1. n = SubLong(m, i)
    BY <1>1, LongStep
  <2>2. ULong(n.regs, i.a) = (SLong(m.regs, i.b) - SLong(m.regs, i.c)) % LongBits
    BY <2>1, SubLongComputes
  <2>3. QED
    BY <1>1, <2>2 DEF LongsComputed
<1>2. CASE i.op \in {"add-long/2addr", "sub-long/2addr"}
  <2>1. n = AddOrSubLong2Addr(m, i)
    BY <1>2, LongStep
  <2>2. ULong(n.regs, i.a) =
          (IF i.op = "add-long/2addr" THEN SLong(m.regs, i.a) + SLong(m.regs, i.b)
           ELSE SLong(m.regs, i.a) - SLong(m.regs, i.b)) % LongBits
    BY <2>1, SumsInPlaceCompute
  <2>3. QED
    BY <1>2, <2>2 DEF LongsComputed
<1>3. CASE i.op = "cmp-long"
  <2>1. n = CmpLong(m, i)
    BY <1>3, LongStep
  <2>2. n.regs[i.a].n = IF SLong(m.regs, i.b) < SLong(m.regs, i.c) THEN -1
                        ELSE IF SLong(m.regs, i.b) = SLong(m.regs, i.c) THEN 0 ELSE 1
    BY <2>1, CmpLongComputes
  <2>3. QED
    BY <1>3, <2>2 DEF LongsComputed
<1>4. CASE i.op = "or-long" /\ Apart(i.a, i.b) /\ Apart(i.a, i.c)
  <2>1. n = OrLong(m, i) /\ i.a # i.b + 1 /\ i.a # i.c + 1
    BY <1>4, LongStep DEF Apart
  <2>2. \A k \in 0 .. 2 * WordBits - 1 :
          Bit(ULong(n.regs, i.a), k) =
            Max({Bit(ULong(m.regs, i.b), k), Bit(ULong(m.regs, i.c), k)})
    BY <1>4, <2>1, OrLongComputes
  <2>3. QED
    BY <1>4, <2>2 DEF LongsComputed
<1>5. CASE i.op = "and-long/2addr" /\ Apart(i.a, i.b)
  <2>1. n = AndLong2Addr(m, i) /\ i.a # i.b + 1
    BY <1>5, LongStep DEF Apart
  <2>2. \A k \in 0 .. 2 * WordBits - 1 :
          Bit(ULong(n.regs, i.a), k) =
            Min({Bit(ULong(m.regs, i.a), k), Bit(ULong(m.regs, i.b), k)})
    BY <1>5, <2>1, AndLongComputes
  <2>3. QED
    BY <1>5, <2>2 DEF LongsComputed
<1>6. CASE i.op = "int-to-long" /\ m.regs[i.b].n >= 0
  <2>1. n = IntToLong(m, i)
    BY <1>6, LongStep
  <2>2. ULong(n.regs, i.a) = m.regs[i.b].n
    BY <1>6, <2>1, IntToLongComputes
  <2>3. QED
    BY <1>6, <2>2 DEF LongsComputed
<1>7. QED
  BY <1>1, <1>2, <1>3, <1>4, <1>5, <1>6 DEF LongsComputed

LEMMA DecodedRan ==
  ASSUME Reading, NEW i, Decodes(i)
  PROVE  Ran = i /\ InstructionFits(i)
<1>1. Top.method \in DOMAIN code
  <2>1. PICK any : ~any
    <3>1. \E any \in BOOLEAN : ~any
      OBVIOUS
    <3>2. QED
      BY <3>1, Zenon
  <2>2. any => Collected
    BY <2>1, Zenon
  <2>3. Top.method \in DOMAIN Methods
    BY <2>2, TopFits
  <2>4. QED
    BY <2>3 DEF Reading, Interpreting, IdsHold
<1>2. code'[Top.method] = Put(code[Top.method], Top.pc, i)
  BY <1>1 DEF Decodes
<1>3. Ran = i
  BY <1>2 DEF Ran, Put
<1>4. QED
  BY <1>3, DecodedFits

LEMMA InstructionComputes ==
  ASSUME Reading, StaysIn, ProbeInstruction \/ InlineInstruction
  PROVE  LongsComputed(Ran, Top.regs, frames'[Len(frames)].regs)
<1>1. PICK i : /\ Decodes(i)
               /\ \/ Install(ProbeStep(Machine, i, Len(Body)))
                  \/ Install(InlineStep(Machine, i, Len(Body)))
  BY DEF ProbeInstruction, InlineInstruction
<1>2. PICK n : /\ n \in {ProbeStep(Machine, i, Len(Body)), InlineStep(Machine, i, Len(Body))}
               /\ Install(n)
  BY <1>1
<1>3. PICK m : m = Machine
  OBVIOUS
<1>4. PICK any : ~any
  <2>1. \E any \in BOOLEAN : ~any
    OBVIOUS
  <2>2. QED
    BY <2>1, Zenon
<1>5. any => Collected
  BY <1>4, Zenon
<1>6. /\ Fit(m, m, any) /\ Len(frames) \in Nat /\ Len(frames) \in DOMAIN frames
      /\ DOMAIN frames = 1 .. Len(frames)
  BY <1>3, <1>5, TopFits
<1>7. Computing(m)
  <2>1. \A r \in DOMAIN m.regs : m.regs[r].n \in Words
    BY <1>6 DEF Fit, AllFit, ValueFits
  <2>2. QED
    BY <1>6, <2>1 DEF Computing, Fit, Sound, HoldsLatest
<1>8. n.stop = "none" /\ Continue(n)
  <2>1. CASE n.stop # "none"
    <3>1. frames' = <<>>
      BY <1>2, <2>1 DEF Install, Conclude
    <3>2. Len(frames') = 0
      BY <3>1
    <3>3. QED
      BY <1>6, <3>2 DEF StaysIn
  <2>2. QED
    BY <1>2, <2>1 DEF Install
<1>9. frames'[Len(frames)].regs = n.regs
  <2>1. PICK top : top = frames[Len(frames)]
    OBVIOUS
  <2>2. frames'[Len(frames)] = Updated(top, n)
    BY <1>6, <1>8, <2>1 DEF Continue
  <2>3. "regs" \in DOMAIN top
    <3>1. HoldsLatest(Top)
      BY TopSound DEF Reading, Interpreting, FramesHold
    <3>2. QED
      BY <2>1, <3>1 DEF HoldsLatest, Top
  <2>4. Updated(top, n).regs = n.regs
    BY <2>3 DEF Updated
  <2>5. QED
    BY <2>2, <2>4
<1>10. Ran = i /\ i.a \in Nat /\ i.b \in Nat /\ i.c \in Nat
  BY <1>1, DecodedRan DEF InstructionFits
<1>11. LongsComputed(i, m.regs, n.regs)
  BY <1>2, <1>3, <1>7, <1>8, <1>10, StepComputes
<1>12. m.regs = Top.regs
  BY <1>3 DEF Machine
<1>13. QED
  BY <1>9, <1>10, <1>11, <1>12

(* Calls and returns compute no longs, and a run that stops has no frame left.          *)
LEMMA InterpretComputes ==
  ASSUME Interpreting, TypesKept, CodeTyped, Interpret, StaysIn
  PROVE  LongsComputed(Ran, Top.regs, frames'[Len(frames)].regs)
<1>1. Reading
  BY DEF StaysIn, Reading
<1>2. CASE ProbeInstruction \/ InlineInstruction
  BY <1>1, <1>2, InstructionComputes
<1>3. CASE ~(ProbeInstruction \/ InlineInstruction)
  <2>1. PICK i : Decodes(i) /\ i.op \in Calls \cup Returns
    <3>1. ~FallOffEnd
      <4>1. Top.pc < Len(Body) /\ Top.pc \in Nat
        <5>1. PICK any : ~any
          <6>1. \E any \in BOOLEAN : ~any
            OBVIOUS
          <6>2. QED
            BY <6>1, Zenon
        <5>2. any => Collected
          BY <5>1, Zenon
        <5>3. AtInstruction(Machine, Len(Body)) /\ Machine.pc = Top.pc
          BY <1>1, <5>2, TopFits DEF Machine
        <5>4. QED
          BY <5>3 DEF AtInstruction
      <4>2. QED
        BY <4>1 DEF FallOffEnd
    <3>2. CASE InlineReturn \/ ReturnOutOfRange \/ ProbeReturn
      BY <3>2 DEF InlineReturn, ReturnOutOfRange, ProbeReturn, InlineReturns, Returns
    <3>3. CASE InvokeSuper \/ InvokeStatic \/ InvokeStaticRange \/ InvokeDirect
      BY <3>3 DEF InvokeSuper, InvokeStatic, InvokeStaticRange, InvokeDirect, Calls
    <3>4. CASE InlineInvokeDirect \/ InlineInvoke \/ InlineInvokeRange
      BY <3>4 DEF InlineInvokeDirect, InlineInvoke, InlineInvokeRange, InlineCall, Calls
    <3>5. QED
      BY <1>3, <3>1, <3>2, <3>3, <3>4 DEF Interpret
  <2>2. Ran.op \in Calls \cup Returns
    BY <1>1, <2>1, DecodedRan
  <2>3. QED
    BY <2>2 DEF LongsComputed, Calls, Returns
<1>4. QED
  BY <1>2, <1>3

LEMMA NextComputes ==
  ASSUME DexIInv, TypesKept, [DexNext]_dexVars
  PROVE  [StaysIn => LongsComputed(Ran, Top.regs, frames'[Len(frames)].regs)]_dexVars
<1>1. SUFFICES ASSUME DexNext, StaysIn
               PROVE  LongsComputed(Ran, Top.regs, frames'[Len(frames)].regs)
  OBVIOUS
<1>2. Interpret
  BY <1>1 DEF DexNext, Stage, SkipFile, RejectTables, PassFile, BlockLookup, EnterProbe,
              FinishProof, Staging, LooksUp, DexOver, StaysIn
<1>3. Interpreting /\ CodeTyped
  <2>1. FramesHold /\ IdsHold /\ MethodsKnown /\ CodeTyped
    BY ApkKnown, CodeIsTyped DEF DexIInv, FilesKept
  <2>2. QED
    BY <1>2, <2>1 DEF Interpreting, Interpret
<1>4. QED
  BY <1>1, <1>2, <1>3, InterpretComputes

(* Whatever the methods of an APK do, every long opcode that is carried out agrees with *)
(* two's complement arithmetic on two words, for operands that do not overlap the      *)
(* result, and int-to-long for an int that is not negative (cmp-long, sub-long,         *)
(* add/sub-long/2addr, or-long, and-long, int-to-long).                               *)
THEOREM LongsAreRight == DexSpec => LongsAgree
<1>1. DexIInv /\ TypesKept /\ [DexNext]_dexVars
        => [StaysIn => LongsComputed(Ran, Top.regs, frames'[Len(frames)].regs)]_dexVars
  BY NextComputes
<1>2. DexInit => TypesKept
  BY InitTypesKept
<1>3. DexIInv /\ TypesKept /\ [DexNext]_dexVars => TypesKept'
  BY TypesAreKept
<1>4. QED
  BY <1>1, <1>2, <1>3, DexInvariant, PTL DEF DexSpec, LongsAgree
================================================================================
