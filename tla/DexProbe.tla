--------------------------------- MODULE DexProbe ---------------------------------
(* The DEX proof of a launch (src/apk_dex_bridge.cpp): RunDexProof stages the DEX  *)
(* files of the APK in name order, and the first one that knows the entry point    *)
(* has it interpreted by RunExecutionProbe, which runs the methods it calls with   *)
(* ExecuteInlineInvokedMethod, one C++ call per frame.  The launch names the class  *)
(* and the method to look for.                                                     *)
(*                                                                               *)
(* An APK is [files, methods].  A file is [name, access, damage, class, defines]:  *)
(* whether it has the target class, and the class's methods in their order.  A     *)
(* method is [name, class, returns, params, registers, ins, state, code]: its code *)
(* gives, per instruction, a set of instructions, and the first time the           *)
(* interpreter decodes one its choice is settled in `code`.                        *)
EXTENDS DexStubs
LOCAL INSTANCE FiniteSetsExt

CONSTANTS
  Apks,            \* the APKs the proof may be run on
  TargetMethod,    \* name of the entry point
  ProbeRegisters,  \* registers the entry point has at least (16 in the code)
  MaxFrames        \* bound: frames the native stack has room for

VARIABLES apk, fileAt, dexPhase, report, code, frames, heap, born, lost

dexVars == <<apk, fileAt, dexPhase, report, code, frames, heap, born, lost>>

Methods == apk.methods
MachineUnchanged == UNCHANGED <<code, frames, heap, born, lost>>

NoReport == [ready |-> FALSE, staged |-> <<>>, errors |-> FALSE, by |-> 0,
             blocker |-> "none", returned |-> FALSE]

DexInit ==
  /\ apk \in Apks
  /\ fileAt = 1
  /\ dexPhase = "staging"
  /\ report = NoReport
  /\ code = [m \in DOMAIN apk.methods |-> <<>>]
  /\ frames = <<>>
  /\ heap = <<>> /\ born = 0 /\ lost = {}

--------------------------------------------------------------------------------
(* Staging.                                                                     *)

File == apk.files[fileAt]
Staging == dexPhase = "staging" /\ fileAt <= Len(apk.files)
Resolved == report.by # 0

AccessErrors == {"unsafe", "missing", "unreadable", "unwritable"}
HeaderErrors == {"header_truncated", "magic_invalid"}

(* A file that cannot be staged, or is no DEX file, is an error; the proof goes on. *)
SkipFile ==
  /\ Staging
  /\ File.access \in AccessErrors \cup HeaderErrors
  /\ report' = [report EXCEPT
       !.errors = TRUE,
       !.staged = IF File.access \in HeaderErrors THEN Append(@, File.name) ELSE @]
  /\ fileAt' = fileAt + 1
  /\ UNCHANGED <<apk, dexPhase>>
  /\ MachineUnchanged

(* ParseDexTables reports the first damage it comes to.                          *)
TableErrors == <<"table_bounds_invalid", "string_data_invalid",
                 "type_descriptor_invalid", "class_descriptor_invalid",
                 "class_data_truncated", "method_index_invalid">>
TablesParse(file) == file.damage = {}
FirstTableError(file) ==
  TableErrors[Min({k \in DOMAIN TableErrors : TableErrors[k] \in file.damage})]

(* What an APK of the launch consists of: its files, and the methods they define.   *)
MethodStates == {"code", "code_item_missing", "code_item_truncated",
                 "instructions_truncated"}
DexFiles ==
  [name : STRING, access : {"ok"} \cup AccessErrors \cup HeaderErrors,
   damage : SUBSET Range(TableErrors), class : {"missing", "no_data", "present"},
   defines : Seq(STRING)]
\* The literal of a const has 4 or 16 bits, and so is an int.
Instructions ==
  {i \in [op : STRING, a : Nat, b : Nat, c : Nat, lit : Int, name : STRING,
          args : Seq(Nat), cut : BOOLEAN] :
     i.op \in {"const/4", "const/16"} => Wrap(i.lit) = i.lit}
ASSUME DexAssumption ==
  \A a \in Apks :
    /\ a.files \in Seq(DexFiles)
    /\ \A k \in DOMAIN a.files : Range(a.files[k].defines) \subseteq DOMAIN a.methods
    /\ \A m \in DOMAIN a.methods :
         /\ a.methods[m].state \in MethodStates
         /\ a.methods[m].code \in Seq(SUBSET Instructions)

(* Tables that cannot be read answer for the entry point, wherever it is.         *)
RejectTables ==
  /\ Staging /\ File.access = "ok"
  /\ ~TablesParse(File)
  /\ report' = [report EXCEPT
       !.errors = TRUE,
       !.staged = Append(@, File.name),
       !.by = IF Resolved THEN @ ELSE fileAt,
       !.blocker = IF Resolved THEN @ ELSE FirstTableError(File)]
  /\ fileAt' = fileAt + 1
  /\ UNCHANGED <<apk, dexPhase>>
  /\ MachineUnchanged

(* FindEntrypointMethod takes the first method of that name, whatever its         *)
(* signature.                                                                    *)
Candidates(file) ==
  {k \in DOMAIN file.defines : Methods[file.defines[k]].name = TargetMethod}
Entrypoint(file) == file.defines[Min(Candidates(file))]

LookupBlocker(file) ==
  IF file.class = "no_data" THEN "class_data_missing"
  ELSE IF Candidates(file) = {} THEN "method_missing"
  ELSE Methods[Entrypoint(file)].state
LooksUp == Staging /\ File.access = "ok" /\ TablesParse(File)
Recorded == [report EXCEPT !.staged = Append(@, File.name)]

\* Mutant: a class without the method is looked for in the next file.
GoesOnWithoutMethod(file) == file.class # "present" \/ Candidates(file) = {}
GoesOn(file) == file.class = "missing"

(* The file does not have the class, or the entry point is already answered for.  *)
PassFile ==
  /\ LooksUp
  /\ Resolved \/ GoesOn(File)
  /\ report' = Recorded
  /\ fileAt' = fileAt + 1
  /\ UNCHANGED <<apk, dexPhase>>
  /\ MachineUnchanged

(* The class is there, its method or the method's code is not.                   *)
BlockLookup ==
  /\ LooksUp /\ ~Resolved /\ ~GoesOn(File)
  /\ LookupBlocker(File) # "code"
  /\ report' = [Recorded EXCEPT !.by = fileAt, !.blocker = LookupBlocker(File)]
  /\ fileAt' = fileAt + 1
  /\ UNCHANGED <<apk, dexPhase>>
  /\ MachineUnchanged

--------------------------------------------------------------------------------
(* Frames.  Frame 1 is the entry point's.                                        *)

Frame(method, regs, next) ==
  [method |-> method, regs |-> regs, pc |-> 0, next |-> next, statics |-> <<>>,
   pending |-> NoPending, invoked |-> 0]
Top     == frames[Len(frames)]
InProbe == Len(frames) = 1
Body    == Methods[Top.method].code

WindowBase(method) ==
  IF method.ins # 0 /\ method.registers >= method.ins
    THEN method.registers - method.ins ELSE 0

(* The entry point gets a receiver and, for a first parameter of reference type,  *)
(* an object for it.                                                             *)
ReceiverExpected(method) ==
  /\ method.ins # 0 /\ method.registers >= method.ins
  /\ method.ins > Len(method.params)
ReceiverAt(method) == IF ReceiverExpected(method) THEN WindowBase(method) ELSE 0
ParameterAt(method) == WindowBase(method) + IF ReceiverExpected(method) THEN 1 ELSE 0
GivesParameter(method) ==
  /\ method.ins # 0 /\ method.registers >= method.ins
  /\ method.params # <<>> /\ IsReferenceType(method.params[1])
  /\ ParameterAt(method) < Max({method.registers, ProbeRegisters})

EntryMachine(method) ==
  LET size == Max({method.registers, ProbeRegisters})
      bare == [regs |-> [r \in 0 .. size - 1 |-> Unknown], heap |-> <<>>, next |-> 1,
               born |-> 0, lost |-> {}]
      self == SetReg(Materialize(bare, method.class), ReceiverAt(method),
                     Fresh(bare, method.class)) IN
  IF GivesParameter(method)
    THEN SetReg(Materialize(self, method.params[1]), ParameterAt(method),
                Fresh(self, method.params[1]))
    ELSE self

EnterProbe ==
  /\ LooksUp /\ ~Resolved /\ ~GoesOn(File)
  /\ LookupBlocker(File) = "code"
  /\ LET m == EntryMachine(Methods[Entrypoint(File)]) IN
     /\ frames' = <<Frame(Entrypoint(File), m.regs, m.next)>>
     /\ heap' = m.heap /\ born' = m.born /\ lost' = m.lost
  /\ report' = [Recorded EXCEPT !.by = fileAt]
  /\ dexPhase' = "interpreting"
  /\ UNCHANGED <<apk, fileAt, code>>

(* An inline call starts from the highest id in use.                             *)
\* Mutant: the call starts with the highest id in use.
HighestId == IF DOMAIN heap = {} THEN 1 ELSE Max(DOMAIN heap)
FirstFreeId == IF DOMAIN heap = {} THEN 1 ELSE Max(DOMAIN heap) + 1
InlineRegisters(method, incoming) ==
  LET base == WindowBase(method)
      size == Max({method.registers, Len(incoming), 1}) IN
  [r \in 0 .. size - 1 |->
     IF r - base + 1 \in DOMAIN incoming THEN incoming[r - base + 1] ELSE Unknown]
InlineFrame(name, incoming) ==
  Frame(name, InlineRegisters(Methods[name], incoming), FirstFreeId)

--------------------------------------------------------------------------------
(* Interpreting.                                                                *)

Machine ==
  [regs |-> Top.regs, pc |-> Top.pc, next |-> Top.next, statics |-> Top.statics,
   pending |-> Top.pending, invoked |-> Top.invoked, heap |-> heap, born |-> born,
   lost |-> lost, stop |-> "none", result |-> NoResult]

Readable ==
  IF Top.pc \in DOMAIN code[Top.method] THEN {code[Top.method][Top.pc]}
  ELSE Body[Top.pc + 1]
Decodes(i) ==
  /\ dexPhase = "interpreting"
  /\ Top.pc < Len(Body)
  /\ i \in Readable
  /\ code' = [code EXCEPT ![Top.method] = Put(@, Top.pc, i)]
  /\ UNCHANGED apk

(* However deep the interpreter is, the whole run ends with that blocker.         *)
Conclude(blocker) ==
  /\ report' = [report EXCEPT !.blocker = blocker, !.returned = blocker = "none"]
  /\ dexPhase' = "staging"
  /\ fileAt' = fileAt + 1
  /\ frames' = <<>>

Updated(frame, m) ==
  [frame EXCEPT !.regs = m.regs, !.pc = m.pc, !.next = m.next,
                !.statics = m.statics, !.pending = m.pending, !.invoked = m.invoked]
Continue(m) ==
  /\ frames' = [frames EXCEPT ![Len(frames)] = Updated(@, m)]
  /\ UNCHANGED <<fileAt, dexPhase, report>>
Install(m) ==
  /\ heap' = m.heap /\ born' = m.born /\ lost' = m.lost
  /\ IF m.stop = "none" THEN Continue(m) ELSE Conclude(m.stop)

(* The opcodes, grouped as the entry point's interpreter lists them; the inline    *)
(* one has the same bodies for them.                                             *)
Moves(m, i) ==
  CASE i.op = "nop"           -> Advance(m)
    [] i.op = "move"          -> Move(m, i)
    [] i.op = "const/4"       -> Const4(m, i)
    [] i.op = "const/16"      -> Const16(m, i)
    [] i.op = "const-wide/16" -> ConstWide16(m, i)
Conversions(m, i, size) ==
  CASE i.op = "long-to-int"  -> LongToInt(m, i)
    [] i.op = "const-string" -> ConstString(m, i)
    [] i.op = "goto"         -> GotoOffset(m, i, size)
Lengths(m, i, size) ==
  CASE i.op = "array-length"  -> ArrayLength(m, i)
    [] i.op = "packed-switch" -> PackedSwitch(m, i, size)
Casts(m, i)   == CheckCast(m, i)
Queries(m, i) == InstanceOf(m, i)
Elements(m, i) == AgetObject(m, i)
Longs(m, i) ==
  CASE i.op = "cmp-long"    -> CmpLong(m, i)
    [] i.op = "int-to-long" -> IntToLong(m, i)
    [] i.op = "or-long"     -> OrLong(m, i)
Sums(m, i) ==
  CASE i.op = "sub-int"        -> SubInt(m, i)
    [] i.op = "add-int"        -> AddInt(m, i)
    [] i.op = "rsub-int/lit16" -> RsubIntLit16(m, i)
Differences(m, i) ==
  CASE i.op = "sub-long"                         -> SubLong(m, i)
    [] i.op \in {"add-int/2addr", "sub-int/2addr"} -> AddOrSubInt2Addr(m, i)
LongsInPlace(m, i) ==
  CASE i.op = "and-long/2addr"                       -> AndLong2Addr(m, i)
    [] i.op \in {"add-long/2addr", "sub-long/2addr"} -> AddOrSubLong2Addr(m, i)
ZeroTests(m, i, size) ==
  CASE i.op = "if-nez" -> IfNez(m, i, size)
    [] i.op = "if-ltz" -> IfLtz(m, i, size)
    [] i.op = "if-gtz" -> IfGtz(m, i, size)
Comparisons(m, i, size) ==
  CASE i.op = "if-lt" -> IfLt(m, i, size)
    [] i.op = "if-ne" -> IfNe(m, i, size)
Orderings(m, i, size) ==
  CASE i.op = "if-ge" -> IfGe(m, i, size)
    [] i.op = "if-gt" -> IfGt(m, i, size)
StaticLoads(m, i) ==
  CASE i.op \in {"sget", "sget-object", "sget-boolean"} -> Sget(m, i)
    [] OTHER                                            -> MoveResult(m, i)
Allocations(m, i) ==
  CASE i.op = "new-instance" -> NewInstance(m, i)
    [] i.op = "new-array"    -> NewArray(m, i)
StaticStores(m, i) == Sput(m, i)
WideStores(m, i)   == IputWide(m, i)
IntStores(m, i)    == Iput(m, i)
ObjectStores(m, i) == Iput(m, i)

(* The default case.                                                            *)
Unsupported(m) == Stop(m, "unsupported_opcode")

SharedStep(m, i, size) ==
  CASE i.op \in {"nop", "move", "const/4", "const/16", "const-wide/16"} -> Moves(m, i)
    [] i.op \in {"long-to-int", "const-string", "goto"} -> Conversions(m, i, size)
    [] i.op \in {"array-length", "packed-switch"}       -> Lengths(m, i, size)
    [] i.op = "check-cast"                              -> Casts(m, i)
    [] i.op = "instance-of"                             -> Queries(m, i)
    [] i.op = "aget-object"                             -> Elements(m, i)
    [] i.op \in {"cmp-long", "int-to-long", "or-long"}  -> Longs(m, i)
    [] i.op \in {"sub-int", "add-int", "rsub-int/lit16"} -> Sums(m, i)
    [] i.op \in {"sub-long", "add-int/2addr", "sub-int/2addr"} -> Differences(m, i)
    [] i.op \in {"and-long/2addr", "add-long/2addr", "sub-long/2addr"} ->
         LongsInPlace(m, i)
    [] i.op \in {"if-nez", "if-ltz", "if-gtz"}          -> ZeroTests(m, i, size)
    [] i.op \in {"if-lt", "if-ne"}                      -> Comparisons(m, i, size)
    [] i.op \in {"if-ge", "if-gt"}                      -> Orderings(m, i, size)
    [] i.op \in {"sget", "sget-object", "sget-boolean",
                 "move-result", "move-result-wide", "move-result-object"} ->
         StaticLoads(m, i)
    [] i.op \in {"new-instance", "new-array"}           -> Allocations(m, i)
    [] i.op \in {"sput", "sput-object", "sput-boolean"} -> StaticStores(m, i)
    [] i.op = "iput-wide"                               -> WideStores(m, i)
    [] i.op = "iput"                                    -> IntStores(m, i)
    [] i.op = "iput-object"                             -> ObjectStores(m, i)
    [] OTHER                                            -> Unsupported(m)

(* In the entry point a field nobody wrote reads as 0 or as nothing; no object is  *)
(* made for it.                                                                  *)
WrittenOr(m, i, default) ==
  LET fields == m.heap[m.regs[i.b].id].fields IN
  IF i.name \in DOMAIN fields THEN fields[i.name] ELSE default
ProbeIget(m, i) ==
  Loading(m, i, {i.a}, Advance(SetReg(m, i.a, WrittenOr(m, i, Num(0)))))
ProbeIgetObject(m, i) ==
  Loading(m, i, {i.a}, Advance(SetReg(m, i.a, WrittenOr(m, i, Unknown))))
ProbeIgetBoolean(m, i) ==
  Loading(m, i, {i.a}, Advance(SetReg(m, i.a, Truth(WrittenOr(m, i, Num(0))))))
ProbeIgetWide(m, i) ==
  LET fields == m.heap[m.regs[i.b].id].fields IN
  Loading(m, i, Wide(i.a),
    Advance(SetPair(m, i.a, StoredInt(fields, i.name),
                    StoredInt(fields, HighOf(i.name)))))
ProbeStep(m, i, size) ==
  CASE i.op = "iget"         -> ProbeIget(m, i)
    [] i.op = "iget-object"  -> ProbeIgetObject(m, i)
    [] i.op = "iget-boolean" -> ProbeIgetBoolean(m, i)
    [] i.op = "iget-wide"    -> ProbeIgetWide(m, i)
    [] OTHER                 -> SharedStep(m, i, size)

(* Inline methods know if-eqz and do not know nop.                               *)
InlineStep(m, i, size) ==
  CASE i.op = "iget"         -> Iget(m, i)
    [] i.op = "iget-object"  -> IgetObject(m, i)
    [] i.op = "iget-boolean" -> IgetBoolean(m, i)
    [] i.op = "iget-wide"    -> IgetWide(m, i)
    [] i.op = "if-eqz"       -> IfEqz(m, i, size)
    [] i.op = "nop"          -> Unsupported(m)
    [] OTHER                 -> SharedStep(m, i, size)

Calls   == {"invoke-super", "invoke-static", "invoke-static/range", "invoke-direct",
            "invoke-virtual", "invoke-interface"}
Returns == {"return-void", "return", "return-wide", "return-object"}
ProbeCalls    == Calls \ {"invoke-virtual", "invoke-interface"}
InlineReturns == Returns \ {"return-wide"}

ProbeInstruction ==
  /\ InProbe
  /\ \E i \in Readable :
       /\ i.op \notin ProbeCalls \cup Returns
       /\ Decodes(i)
       /\ Install(ProbeStep(Machine, i, Len(Body)))
InlineInstruction ==
  /\ ~InProbe
  /\ \E i \in Readable :
       /\ i.op \notin Calls \cup InlineReturns
       /\ Decodes(i)
       /\ Install(InlineStep(Machine, i, Len(Body)))

FallOffEnd ==
  /\ dexPhase = "interpreting" /\ Top.pc = Len(Body)
  /\ Conclude("fell_off_end")
  /\ UNCHANGED <<apk, code, heap, born, lost>>

--------------------------------------------------------------------------------
(* Calls.                                                                       *)

Passed(i)        == [k \in DOMAIN i.args |-> Top.regs[i.args[k]]]
NeedsReceiver(i) == i.op \notin {"invoke-static", "invoke-static/range"}
CallChecks(m, i) ==
  Whole(m, i, Registers(m, Range(i.args),
    Need(~NeedsReceiver(i) \/ (i.args # <<>> /\ IsObject(m.regs[i.args[1]])),
         m, "invoke_receiver_missing",
      Need(i.name # "no_such_method", m, "invoke_unresolved", m))))
Callable(i) == CallChecks(Machine, i).stop = "none"
HasCode(name) == name \in DOMAIN Methods /\ Methods[name].state # "code_item_missing"
Refuse(blocker) == Conclude(blocker) /\ UNCHANGED <<heap, born, lost>>
RefuseCall(i) == Refuse(CallChecks(Machine, i).stop)

MethodBlocker(name) ==
  IF name \notin DOMAIN Methods THEN "code_item_missing" ELSE Methods[name].state

(* The call itself.  Nothing but the native stack limits its depth.               *)
Deeper(i) ==
  IF Len(frames) < MaxFrames
    THEN /\ frames' = Append(frames, InlineFrame(i.name, Passed(i)))
         /\ UNCHANGED <<fileAt, dexPhase, report, heap, born, lost>>
    ELSE dexPhase' = "crashed" /\ UNCHANGED <<fileAt, report, frames, heap, born, lost>>
Enter(i) ==
  IF MethodBlocker(i.name) = "code" THEN Deeper(i) ELSE Refuse(MethodBlocker(i.name))

(* The framework methods a lifecycle method calls on its superclass: onCreate() is *)
(* stepped over, the others end the run.                                         *)
Frameworks == {"Activity.onCreate", "Activity.onCreate(Bundle)", "Context.getAssets"}
SuperStub(m, i) ==
  CASE i.name = "Activity.onCreate" -> Advance(m)
    [] i.name = "Activity.onCreate(Bundle)" ->
         Need(Len(i.args) > 1 /\ IsObject(m.regs[i.args[2]]), m,
              "invoke_argument_placeholder_missing", Stop(m, "framework_boundary_stubbed"))
    [] i.name = "Context.getAssets" ->
         Stop(Materialize(m, "AssetManager"), "framework_boundary_stubbed")

InvokeSuper ==
  \E i \in Readable :
    /\ InProbe /\ i.op = "invoke-super" /\ Decodes(i)
    /\ IF ~Callable(i) THEN RefuseCall(i)
       ELSE IF i.name \in Frameworks THEN Install(SuperStub(Machine, i))
       ELSE IF HasCode(i.name) THEN Enter(i)
       ELSE Refuse("framework_boundary_unimplemented")

InvokeStatic ==
  \E i \in Readable :
    /\ InProbe /\ i.op = "invoke-static" /\ Decodes(i)
    /\ IF ~Callable(i) THEN RefuseCall(i)
       ELSE IF HasCode(i.name) THEN Enter(i)
       ELSE Refuse("invoke_static_unimplemented")

InvokeStaticRange ==
  \E i \in Readable :
    /\ InProbe /\ i.op = "invoke-static/range" /\ Decodes(i)
    /\ IF Callable(i) THEN Enter(i) ELSE RefuseCall(i)

InvokeDirect ==
  \E i \in Readable :
    /\ InProbe /\ i.op = "invoke-direct" /\ Decodes(i)
    /\ IF Callable(i) THEN Enter(i) ELSE RefuseCall(i)

(* `invoked` counts, as history, the calls a frame was handed the result of.       *)
ReturnsVoid(name) ==
  IF name \in DOMAIN Methods THEN Methods[name].returns = "V" ELSE name \in VoidMethods
PendingOf(name, result, by) ==
  [valid |-> ~ReturnsVoid(name), wide |-> result.wide, low |-> result.value,
   high |-> result.high, by |-> by]
\* Mutant: a call without a result leaves the older one.
WithOlderResult(m, name, result) ==
  Advance([m EXCEPT
    !.pending = IF ReturnsVoid(name) THEN @ ELSE PendingOf(name, result, m.invoked + 1),
    !.invoked = @ + 1])
WithResult(m, name, result) ==
  Advance([m EXCEPT !.pending = PendingOf(name, result, m.invoked + 1),
                    !.invoked = @ + 1])

(* An inline method asks the stubs first, also for a method that has code.        *)
ExecuteOrStub(i) ==
  IF i.name \notin Stubbed THEN Enter(i)
  ELSE \E m \in {Stub(Machine, i.name, Passed(i))} :
         Install(IF m.stop # "none" THEN m ELSE WithResult(m, i.name, m.result))
InlineCall(i) ==
  /\ Decodes(i)
  /\ IF Callable(i) THEN ExecuteOrStub(i) ELSE RefuseCall(i)

InlineInvokeDirect ==
  \E i \in Readable : ~InProbe /\ i.op = "invoke-direct" /\ InlineCall(i)
InlineInvoke ==
  \E i \in Readable :
    /\ ~InProbe
    /\ i.op \in {"invoke-virtual", "invoke-super", "invoke-static", "invoke-interface"}
    /\ InlineCall(i)
InlineInvokeRange ==
  \E i \in Readable : ~InProbe /\ i.op = "invoke-static/range" /\ InlineCall(i)

(* What a return hands over: return and return-object make up for an unknown       *)
(* value.                                                                        *)
ReturnBlocked(i) == i.op # "return-void" /\ i.a \notin DOMAIN Top.regs
Made(i) ==
  LET type == Methods[Top.method].returns IN
  /\ i.op = "return-object" /\ Top.regs[i.a].kind = "unknown" /\ IsReferenceType(type)
ReturnMachine(i) ==
  IF Made(i) THEN Materialize(Machine, Methods[Top.method].returns) ELSE Machine
ReturnValue(i) ==
  LET type == Methods[Top.method].returns IN
  IF i.op = "return-void" THEN Unknown
  ELSE IF Made(i) THEN Fresh(Machine, type)
  ELSE IF i.op = "return" /\ Top.regs[i.a].kind = "unknown" /\ type = "int" THEN Num(0)
  ELSE Top.regs[i.a]

(* The entry point's invoke-super takes no result, and leaves an older one alone.  *)
Caller == frames[Len(frames) - 1]
CallerOp == code[Caller.method][Caller.pc].op
HandOver(frame, name, result) ==
  IF Len(frames) = 2 /\ CallerOp = "invoke-super" THEN Advance(frame)
  ELSE WithResult(frame, name, result)

InlineReturn ==
  /\ ~InProbe
  /\ \E i \in Readable :
       /\ i.op \in InlineReturns /\ Decodes(i) /\ ~ReturnBlocked(i)
       /\ LET m == ReturnMachine(i)
              result == [NoResult EXCEPT !.value = ReturnValue(i)] IN
          /\ heap' = m.heap /\ born' = m.born /\ lost' = m.lost
          /\ frames' = Append(SubSeq(frames, 1, Len(frames) - 2),
                              HandOver(Caller, Top.method, result))
  /\ UNCHANGED <<fileAt, dexPhase, report>>

ReturnOutOfRange ==
  \E i \in Readable :
    /\ i.op \in IF InProbe THEN {"return"} ELSE InlineReturns
    /\ Decodes(i) /\ ReturnBlocked(i)
    /\ Conclude("register_out_of_range")
    /\ UNCHANGED <<heap, born, lost>>

ProbeReturn ==
  /\ InProbe
  /\ \E i \in Readable :
       /\ i.op \in Returns /\ Decodes(i)
       /\ i.op = "return" => ~ReturnBlocked(i)
  /\ Conclude("none")
  /\ UNCHANGED <<heap, born, lost>>

--------------------------------------------------------------------------------
(* The end of the proof: what the interpreter met counts for nothing in `ready`.    *)

FinishProof ==
  /\ dexPhase = "staging" /\ fileAt > Len(apk.files)
  /\ report' = [report EXCEPT
       !.ready = apk.files # <<>> /\ ~report.errors,
       !.errors = @ \/ apk.files = <<>>,
       !.blocker = IF Resolved \/ apk.files = <<>> THEN @ ELSE "class_missing"]
  /\ dexPhase' = "done"
  /\ UNCHANGED <<apk, fileAt>>
  /\ MachineUnchanged

DexOver == dexPhase \in {"done", "crashed"} /\ UNCHANGED dexVars

Stage == SkipFile \/ RejectTables \/ PassFile \/ BlockLookup \/ EnterProbe
           \/ FinishProof
Interpret ==
  /\ dexPhase = "interpreting"
  /\ \/ FallOffEnd
     \/ /\ Top.pc < Len(Body)
        /\ \/ ProbeInstruction \/ InlineInstruction
           \/ InvokeSuper \/ InvokeStatic \/ InvokeStaticRange \/ InvokeDirect
           \/ InlineInvokeDirect \/ InlineInvoke \/ InlineInvokeRange
           \/ InlineReturn \/ ReturnOutOfRange \/ ProbeReturn

DexNext == Stage \/ Interpret \/ DexOver
DexSpec == DexInit /\ [][DexNext]_dexVars /\ WF_dexVars(DexNext)

--------------------------------------------------------------------------------
(* Properties.                                                                  *)

Phases == {"staging", "interpreting", "done", "crashed"}
Lost(v) == IsObject(v) => v.id \in DOMAIN heap

(* Types: every frame has its registers, a long's halves are ints of the width,   *)
(* and no register refers to an object that is not there (RunExecutionProbe,       *)
(* ExecuteInlineInvokedMethod).                                                  *)
DexTypeOK ==
  /\ dexPhase \in Phases
  /\ fileAt \in 1 .. Len(apk.files) + 1
  /\ DOMAIN code = DOMAIN Methods
  /\ frames # <<>> <=> dexPhase \in {"interpreting", "crashed"}
  /\ \A k \in DOMAIN frames :
       /\ frames[k].method \in DOMAIN Methods
       /\ frames[k].pc \in 0 .. Len(Methods[frames[k].method].code)
       /\ \A r \in DOMAIN frames[k].regs :
            LET v == frames[k].regs[r] IN
            /\ v.kind \in {"unknown", "int", "object"}
            /\ v.n = Wrap(v.n)
            /\ Lost(v)

(* A result that can still be moved is the one of the call the frame made last:    *)
(* a call without a result takes an older result away (the pending_result_valid    *)
(* assignments after each invoke).  The entry point's invoke-super is excepted:    *)
(* it does not count as a call here, see `HandOver`.                              *)
PendingIsLatest ==
  \A k \in DOMAIN frames :
    frames[k].pending.valid => frames[k].pending.by = frames[k].invoked

(* The long opcodes agree with two's complement arithmetic on 2 * WordBits bits,   *)
(* for operands that do not overlap the result, and for ints that are not negative *)
(* (cmp-long, sub-long, add/sub-long/2addr, or-long, and-long, int-to-long).       *)
LongBits == 2 ^ (2 * WordBits)
ULong(regs, r) == (regs[r].n % 2 ^ WordBits) + 2 ^ WordBits * (regs[r + 1].n % 2 ^ WordBits)
SLong(regs, r) == IF ULong(regs, r) * 2 >= LongBits THEN ULong(regs, r) - LongBits
                  ELSE ULong(regs, r)
Bit(n, k) == (n \div 2 ^ k) % 2
Apart(r, s) == r \notin {s - 1, s + 1}
LongsComputed(i, before, after) ==
  CASE i.op = "sub-long" ->
         ULong(after, i.a) = (SLong(before, i.b) - SLong(before, i.c)) % LongBits
    [] i.op = "add-long/2addr" ->
         ULong(after, i.a) = (SLong(before, i.a) + SLong(before, i.b)) % LongBits
    [] i.op = "sub-long/2addr" ->
         ULong(after, i.a) = (SLong(before, i.a) - SLong(before, i.b)) % LongBits
    [] i.op = "cmp-long" ->
         after[i.a].n = IF SLong(before, i.b) < SLong(before, i.c) THEN -1
                        ELSE IF SLong(before, i.b) = SLong(before, i.c) THEN 0 ELSE 1
    [] i.op = "or-long" /\ Apart(i.a, i.b) /\ Apart(i.a, i.c) ->
         \A k \in 0 .. 2 * WordBits - 1 :
           Bit(ULong(after, i.a), k) =
             Max({Bit(ULong(before, i.b), k), Bit(ULong(before, i.c), k)})
    [] i.op = "and-long/2addr" /\ Apart(i.a, i.b) ->
         \A k \in 0 .. 2 * WordBits - 1 :
           Bit(ULong(after, i.a), k) =
             Min({Bit(ULong(before, i.a), k), Bit(ULong(before, i.b), k)})
    [] i.op = "int-to-long" /\ before[i.b].n >= 0 -> ULong(after, i.a) = before[i.b].n
    [] OTHER -> TRUE
Ran == code'[Top.method][Top.pc]
StaysIn == dexPhase = "interpreting" /\ Len(frames') = Len(frames) /\ Top.pc < Len(Body)
LongsAgree ==
  [][StaysIn => LongsComputed(Ran, Top.regs, frames'[Len(frames)].regs)]_dexVars

(* As long as no object has been written over: every element of an object whose    *)
(* length is known lies within it, and an iterator has not passed the end of its   *)
(* collection (aget-object, the list and iterator stubs, System.arraycopy).        *)
CollectionsHoldTheirOwn ==
  lost = {} =>
    \A id \in DOMAIN heap :
      /\ heap[id].length >= 0 => DOMAIN heap[id].elements \subseteq 0 .. heap[id].length - 1
      /\ "collection" \in DOMAIN heap[id].fields =>
           heap[id].fields["index"].n
             \in 0 .. InferredSize(heap[heap[id].fields["collection"].id])

(* Only a method that has called another writes over an object: a call starts      *)
(* above every id in use, and its own ids then stay its own (next_object_id of     *)
(* ExecuteInlineInvokedMethod).                                                  *)
HasCalled(method) ==
  \E pc \in DOMAIN code[method] :
    code[method][pc].op \in Calls /\ code[method][pc].name \in DOMAIN Methods
LeavesNeverAlias == [][lost' # lost => HasCalled(Top.method)]_dexVars

(* A reference denotes the object it was made for, whatever is made later.         *)
References ==
  UNION {{frames[k].regs[r] : r \in DOMAIN frames[k].regs} : k \in DOMAIN frames}
    \cup UNION {{heap[id].fields[f] : f \in DOMAIN heap[id].fields} : id \in DOMAIN heap}
ReferencesKeepTheirObject ==
  \A v \in References : IsObject(v) => heap[v.id].born = v.born

(* The answer is the first file's that has the class or that cannot be parsed, a   *)
(* proof is ready exactly if no file of the APK failed, and only an APK all of     *)
(* whose files lack the class has the answer class_missing (RunDexProof).          *)
Deciding == {k \in DOMAIN apk.files :
               /\ apk.files[k].access = "ok"
               /\ ~TablesParse(apk.files[k]) \/ apk.files[k].class # "missing"}
ProofTellsItsFiles ==
  dexPhase = "done" =>
    /\ report.ready <=> /\ apk.files # <<>>
                       /\ \A k \in DOMAIN apk.files :
                            apk.files[k].access = "ok" /\ TablesParse(apk.files[k])
    /\ report.by = IF Deciding = {} THEN 0 ELSE Min(Deciding)
    /\ report.blocker = "class_missing" <=> apk.files # <<>> /\ Deciding = {}
    /\ report.returned => report.blocker = "none" /\ TablesParse(apk.files[report.by])

(* A proof of an APK whose branches all lead forward ends, or runs out of native   *)
(* stack: a recursion that never ends is not cut short (the loops of               *)
(* RunExecutionProbe and ExecuteInlineInvokedMethod, which count instructions but  *)
(* have no budget).                                                              *)
Branches == {"goto", "packed-switch", "if-eqz", "if-nez", "if-ltz", "if-gtz", "if-lt",
             "if-ge", "if-gt", "if-ne"}
OnlyForward ==
  \A m \in DOMAIN Methods : \A at \in DOMAIN Methods[m].code :
    \A i \in Methods[m].code[at] : i.op \in Branches => i.lit > 0
ForwardProofsEnd == OnlyForward => <>(dexPhase \in {"done", "crashed"})
================================================================================
