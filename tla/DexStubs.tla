--------------------------------- MODULE DexStubs ---------------------------------
(* The calls an inline method never really makes: try_stubbed_invocation of      *)
(* ExecuteInlineInvokedMethod (src/apk_dex_bridge.cpp).  A stub answers from the  *)
(* arguments and from what the placeholder objects remember.                    *)
EXTENDS DexInstructions
LOCAL INSTANCE FiniteSetsExt

(* A stub wants at least these kinds of arguments.                              *)
Arguments(m, args, kinds, after) ==
  Need(/\ Len(args) >= Len(kinds)
       /\ \A k \in DOMAIN kinds : args[k].kind = kinds[k],
       m, "argument_missing", after)
Remembered(m, v, after) == Need(v.id \in DOMAIN m.heap, m, "object_missing", after)
Creating(m, class) == Returning(Materialize(m, class), Fresh(m, class))

--------------------------------------------------------------------------------
(* Stubs that only say yes.                                                     *)

VoidStubs == {"Object.<init>", "Activity.onCreate", "Activity.onCreate(Bundle)",
              "ComponentActivity.onCreate", "SchedulerStarter.performRestore",
              "ReportFragment.injectIfNeededIn"}
VoidStub(m) == m

IdentityStubs == {"Object.getClass", "Thread.currentThread"}
IdentityStub(m, name) ==
  Creating(m, IF name = "Object.getClass" THEN "Class" ELSE "Thread")

ThreadGetId(m) ==
  [m EXCEPT !.result = [value |-> Num(1), high |-> Num(0), wide |-> TRUE]]

MathMin(m, args) ==
  Arguments(m, args, <<"int", "int">>,
    Returning(m, IF args[1].n <= args[2].n THEN args[1] ELSE args[2]))

SetIterator(m) == Creating(m, "Iterator")
IterableIterator(m, args) == Arguments(m, args, <<"object">>, Creating(m, "Iterator"))

AssetStubs == {"Context.getAssets", "AssetManager.open"}
AssetStub(m, name) ==
  Creating(m, IF name = "Context.getAssets" THEN "AssetManager" ELSE "InputStream")

(* The constructors differ in the arguments they insist on.                     *)
ConstructorKinds ==
  [c \in {"InputStreamReader.<init>", "BufferedReader.<init>", "StringWriter.<init>",
          "HashMap.<init>", "LinkedHashMap.<init>", "LinkedHashSet.<init>",
          "ArrayList.<init>"} |->
     CASE c = "InputStreamReader.<init>" -> <<"object", "object", "object">>
       [] c = "BufferedReader.<init>"    -> <<"object", "object", "int">>
       [] OTHER                          -> <<"object">>]
Constructor(m, name, args) == Arguments(m, args, ConstructorKinds[name], m)

StringStubs == {"StringWriter.toString", "String.toCharArray", "String.getBytes"}
StringStub(m, name, args) ==
  Arguments(m, args,
    IF name = "String.getBytes" THEN <<"object", "object">> ELSE <<"object">>,
    IF name = "StringWriter.toString" THEN Creating(m, "String")
    ELSE Returning(MaterializeWith(m, "Chars", 1), Fresh(m, "Chars")))

CloseableClose(m, args) == Arguments(m, args, <<"object">>, m)

(* A reader is always at its end.                                               *)
ReaderRead(m, args) ==
  Arguments(m, args, <<"object", "object">>, Returning(m, Num(-1)))

--------------------------------------------------------------------------------
(* What the stubs remember of a collection or an iterator they remember under keys  *)
(* that no field of an app has: in the code they contain a dot, as no name may.     *)
ListKeys == {"collection", "index", "singleton"}
ASSUME ListKeysAssumption ==
  \A field \in DOMAIN FieldTypes : {field, HighOf(field)} \cap ListKeys = {}

(* Lists and iterators.  A collection that was never sized is as long as its     *)
(* last known element says, and is sized from then on.                          *)

InferredSize(object) ==
  LET known == IF object.elements = <<>> THEN object.length
               ELSE Max({object.length, Wrap(Max(DOMAIN object.elements) + 1)}) IN
  IF known >= 0 THEN known
  ELSE IF "singleton" \in DOMAIN object.fields THEN 1 ELSE 0
Sized(m, id) == SetLength(m, id, InferredSize(m.heap[id]))

ListSize(m, args) ==
  Arguments(m, args, <<"object">>, Remembered(m, args[1],
    Returning(Sized(m, args[1].id), Num(InferredSize(m.heap[args[1].id])))))

ArrayListWithCapacity(m, args) ==
  LET id == args[1].id IN
  Arguments(m, args, <<"object", "int">>, Remembered(m, args[1],
    LET put == SetField(m, id, "capacity", args[2]) IN
    IF put.heap[id].length < 0 THEN SetLength(put, id, 0) ELSE put))

SingletonList(m, args) ==
  Need(Len(args) > 0, m, "argument_missing",
    LET item == IF IsObject(args[1]) THEN args[1] ELSE Fresh(m, "Object")
        m1   == IF IsObject(args[1]) THEN m ELSE Materialize(m, "Object")
        m2   == Creating(m1, "List") IN
    SetField(SetElement(SetLength(m2, m1.next, 1), m1.next, 0, item),
             m1.next, "singleton", item))

ListIterator(m, args) ==
  Arguments(m, args, <<"object">>, Remembered(m, args[1],
    LET m1 == Sized(m, args[1].id)
        m2 == Creating(m1, "Iterator") IN
    SetField(SetField(m2, m1.next, "collection", args[1]), m1.next, "index", Num(0))))

HasCollection(m, iterator) ==
  LET fields == m.heap[iterator].fields IN
  /\ "collection" \in DOMAIN fields
  /\ IsObject(fields["collection"])
  /\ fields["collection"].id \in DOMAIN m.heap
CollectionOf(m, iterator) == m.heap[iterator].fields["collection"].id
IndexOf(m, iterator) == StoredInt(m.heap[iterator].fields, "index").n

IteratorHasNext(m, args) ==
  LET i == args[1].id IN
  Arguments(m, args, <<"object">>, Remembered(m, args[1],
    IF ~HasCollection(m, i) THEN Returning(m, Num(0))
    ELSE LET size == InferredSize(m.heap[CollectionOf(m, i)]) IN
         Returning(Sized(m, CollectionOf(m, i)),
                   Num(IF IndexOf(m, i) \in 0 .. size - 1 THEN 1 ELSE 0))))

(* The element, the singleton's item, or a new object that is kept.             *)
KeptElement(m, id, index) ==
  LET object == m.heap[id] IN
  IF index \in DOMAIN object.elements THEN object.elements[index]
  ELSE IF index = 0 /\ "singleton" \in DOMAIN object.fields
    THEN object.fields["singleton"] ELSE Unknown
NextElement(m, id, index) ==
  LET kept == KeptElement(m, id, index) IN
  IF kept.kind = "unknown" THEN Fresh(m, "Object") ELSE kept
WithNextElement(m, id, index) ==
  LET made == IF KeptElement(m, id, index).kind = "unknown"
                THEN Materialize(m, "Object") ELSE m IN
  SetElement(made, id, index, NextElement(m, id, index))

IteratorNext(m, args) ==
  LET i == args[1].id IN
  Arguments(m, args, <<"object">>, Remembered(m, args[1],
    Need(HasCollection(m, i), m, "collection_missing",
      LET id    == CollectionOf(m, i)
          index == IndexOf(m, i)
          m1    == Sized(m, id) IN
      Need(index \in 0 .. InferredSize(m.heap[id]) - 1, m, "next_out_of_range",
        Returning(SetField(WithNextElement(m1, id, index), i, "index", Num(Wrap(index + 1))),
                  NextElement(m1, id, index))))))

--------------------------------------------------------------------------------
(* AtomicReference and System.arraycopy.                                        *)

AtomicGetAndSet(m, args) ==
  LET id == args[1].id IN
  Arguments(m, args, <<"object", "object">>, Remembered(m, args[1],
    LET present == "value" \in DOMAIN m.heap[id].fields IN
    Returning(SetField(IF present THEN m ELSE Materialize(m, args[2].class),
                       id, "value", args[2]),
              IF present THEN m.heap[id].fields["value"] ELSE Fresh(m, args[2].class))))
AtomicSet(m, args) ==
  Arguments(m, args, <<"object", "object">>, Remembered(m, args[1],
    SetField(m, args[1].id, "value", args[2])))

(* Element by element from the front, also within one array; a missing element   *)
(* is invented in the source first.                                             *)
CopyElement(m, type, from, at, to, into) ==
  LET missing == at \notin DOMAIN m.heap[from].elements
      made    == IF missing /\ IsReferenceType(type) THEN Materialize(m, type) ELSE m
      value   == IF ~missing THEN m.heap[from].elements[at]
                 ELSE IF IsReferenceType(type) THEN Fresh(m, type) ELSE Num(0) IN
  SetElement(IF missing THEN SetElement(made, from, at, value) ELSE made,
             to, into, value)

\* Mutant: the arrays keep the length they had.
AtLeastForgotten(m, id, length) == m
AtLeast(m, id, length) ==
  IF m.heap[id].length < length THEN SetLength(m, id, length) ELSE m

LongEnough(m, args) ==
  LET length == args[5].n IN
  AtLeast(AtLeast(m, args[1].id, Wrap(args[2].n + length)), args[3].id,
          Wrap(args[4].n + length))
CopyNext(m, args, k) ==
  CopyElement(m, ElementType(args[1].class), args[1].id, Wrap(args[2].n + k),
              args[3].id, Wrap(args[4].n + k))
Copying(m, args) ==
  LET copied[k \in Nat] == IF k = 0 THEN LongEnough(m, args)
                           ELSE CopyNext(copied[k - 1], args, k - 1) IN
  copied
WithObjectsOf(m, copied) ==
  [m EXCEPT !.heap = copied.heap, !.next = copied.next, !.born = copied.born,
            !.lost = copied.lost]

ArrayCopy(m, args) ==
  LET type  == ElementType(args[1].class)
      other == ElementType(args[3].class) IN
  Arguments(m, args, <<"object", "int", "object", "int", "int">>,
  Remembered(m, args[1], Remembered(m, args[3],
  Need("none" \notin {type, other}, m, "array_operand_invalid",
  Need(type = other \/ (IsReferenceType(type) /\ IsReferenceType(other)), m,
       "arraycopy_type_mismatch",
  Need(\A k \in {2, 4, 5} : args[k].n \in Nat, m, "arraycopy_range_invalid",
    WithObjectsOf(m, Copying(m, args)[args[5].n])))))))

--------------------------------------------------------------------------------
(* The table.                                                                   *)

ListStubs == {"List.iterator", "Iterator.hasNext", "Iterator.next", "List.size",
              "ArrayList.<init>(int)", "Collections.singletonList"}
OtherStubs == {"Thread.getId", "Math.min", "CopyOnWriteArraySet.iterator",
               "Iterable.iterator", "Closeable.close", "Reader.read",
               "AtomicReference.getAndSet", "AtomicReference.set", "System.arraycopy"}
Stubbed == VoidStubs \cup IdentityStubs \cup AssetStubs \cup DOMAIN ConstructorKinds
             \cup StringStubs \cup ListStubs \cup OtherStubs

(* Framework methods whose signature ends in V.                                 *)
VoidMethods == VoidStubs \cup DOMAIN ConstructorKinds \cup
  {"ArrayList.<init>(int)", "Closeable.close", "AtomicReference.set", "System.arraycopy"}

ListStub(m, name, args) ==
  CASE name = "List.iterator"             -> ListIterator(m, args)
    [] name = "Iterator.hasNext"          -> IteratorHasNext(m, args)
    [] name = "Iterator.next"             -> IteratorNext(m, args)
    [] name = "List.size"                 -> ListSize(m, args)
    [] name = "ArrayList.<init>(int)"     -> ArrayListWithCapacity(m, args)
    [] name = "Collections.singletonList" -> SingletonList(m, args)
OtherStub(m, name, args) ==
  CASE name = "Thread.getId"                 -> ThreadGetId(m)
    [] name = "Math.min"                     -> MathMin(m, args)
    [] name = "CopyOnWriteArraySet.iterator" -> SetIterator(m)
    [] name = "Iterable.iterator"            -> IterableIterator(m, args)
    [] name = "Closeable.close"              -> CloseableClose(m, args)
    [] name = "Reader.read"                  -> ReaderRead(m, args)
    [] name = "AtomicReference.getAndSet"    -> AtomicGetAndSet(m, args)
    [] name = "AtomicReference.set"          -> AtomicSet(m, args)
    [] name = "System.arraycopy"             -> ArrayCopy(m, args)

Stub(m, name, args) ==
  CASE name \in VoidStubs               -> VoidStub(m)
    [] name \in IdentityStubs           -> IdentityStub(m, name)
    [] name \in AssetStubs              -> AssetStub(m, name)
    [] name \in DOMAIN ConstructorKinds -> Constructor(m, name, args)
    [] name \in StringStubs             -> StringStub(m, name, args)
    [] name \in ListStubs               -> ListStub(m, name, args)
    [] name \in OtherStubs              -> OtherStub(m, name, args)
================================================================================
