-------------------------------- MODULE Wasm --------------------------------
(***************************************************************************)
(* The WebAssembly subset (wasm.rs): Module::parse takes the sections of a   *)
(* module in any order, verify_body checks the one function, and            *)
(* Instance::run interprets it, finding the ends of blocks by scanning the   *)
(* bytes with find_control_end.                                             *)
(*                                                                         *)
(* An instruction is [op, arg].  Its opcode is at position 2 * i, the        *)
(* immediate at 2 * i + 1; the argument of "i64" is how its immediate looks  *)
(* when it is taken for an opcode, because find_control_end does not skip    *)
(* it.  The encoding of numbers is left out, and what the memory holds.      *)
(***************************************************************************)
EXTENDS Integers, Sequences, FiniteSets, SequencesExt

CONSTANTS
    MaxStack, MaxControl,    \* MAX_STACK (256), MAX_CONTROL (16)
    MaxMemory,               \* MAX_MEMORY in bytes (65536)
    IntBound,                \* i32 is -IntBound .. IntBound - 1
    Instructions, Later,     \* what bodies are made of, in short ones and later in longer ones
    Sections,                \* what modules are made of
    MaxBody, ShortBody,      \* bounds: instructions of a body that comes last, and of another
    Fuels                    \* what a run may be given

ASSUME WasmAssumption ==
    /\ {MaxStack, MaxControl, MaxMemory, IntBound, MaxBody, ShortBody} \cup Fuels \subseteq Nat
    /\ IntBound > 0

VARIABLE wasm   \* phase, module, body, verifier, run

I32 == -IntBound .. IntBound - 1
Wrapped(n) == ((n + IntBound) % (2 * IntBound)) - IntBound

-----------------------------------------------------------------------------
(* Module::parse: the module before and after a section.                     *)
Signature(parameters, result) == [parameters |-> parameters, result |-> result]
NewModule ==
    [types |-> <<>>, imports |-> <<>>, memory |-> FALSE, data |-> FALSE, seen |-> {},
     profile |-> FALSE, entry |-> FALSE, function |-> 0, error |-> FALSE]

ValidImport(import, signature) ==
    IF import = "exit" THEN signature = Signature(<<"i32">>, "none")
    ELSE signature = Signature(<<"i32", "i32">>, "i32")

(* parse_exports: entry is the function after the imports seen so far.       *)
ValidExports(m, exports) ==
    /\ \A e \in Range(exports) :
         \/ e.name = "main" /\ e.kind = "function" /\ e.index = Len(m.imports)
         \/ e.name # "main" /\ e.kind = "memory" /\ e.index = 0 /\ m.memory
    /\ \A i, j \in DOMAIN exports : exports[i].name = "main" /\ exports[j].name = "main" => i = j

(* The section is well formed for the module so far.                        *)
SectionOK(m, s) ==
    CASE s.id = "types" -> TRUE
      [] s.id = "imports" ->
            \A i \in DOMAIN s.imports :
                /\ s.imports[i].type \in DOMAIN m.types
                /\ ValidImport(s.imports[i].name, m.types[s.imports[i].type])
      [] s.id = "function" -> s.type \in DOMAIN m.types
      [] s.id = "memory" -> s.pages <= 1
      [] s.id = "exports" -> ValidExports(m, s.exports)
      [] s.id = "data" -> s.offset >= 0 /\ s.offset + s.length <= MaxMemory
      [] s.id = "code" -> m.function # 0
      [] OTHER -> FALSE
Section(m, s) ==
    IF s.id = "profile"
    THEN [m EXCEPT !.error = m.profile \/ ~s.valid, !.profile = TRUE]
    ELSE IF s.id \in m.seen \/ ~SectionOK(m, s) THEN [m EXCEPT !.error = TRUE]
    ELSE [m EXCEPT
            !.seen = @ \cup {s.id},
            !.types = IF s.id = "types" THEN s.types ELSE @,
            !.imports = IF s.id = "imports" THEN [i \in DOMAIN s.imports |-> s.imports[i].name] ELSE @,
            !.function = IF s.id = "function" THEN s.type ELSE @,
            !.memory = @ \/ s.id = "memory", !.data = @ \/ s.id = "data",
            !.entry = IF s.id = "exports" THEN \E e \in Range(s.exports) : e.name = "main" ELSE @]

Accepted(m) ==
    /\ ~m.error /\ (m.data => m.memory) /\ m.profile /\ m.entry
    /\ {"types", "function", "exports", "code"} \subseteq m.seen

-----------------------------------------------------------------------------
(* verify_body.  heights and dips are history: the stack before each         *)
(* instruction, and whether a block took values from below its start.       *)
NewVerifier ==
    [stack |-> <<>>, controls |-> <<[kind |-> "function", height |-> 0, else |-> FALSE]>>,
     ended |-> FALSE, error |-> FALSE, heights |-> <<>>, dips |-> FALSE]

Drop(v) ==
    IF v.stack = <<>> THEN [v EXCEPT !.error = TRUE]
    ELSE [v EXCEPT !.stack = Front(@), !.dips = @ \/ Len(v.stack) = Last(v.controls).height]

Pop(v, type) == IF v.stack # <<>> /\ Last(v.stack) # type THEN [v EXCEPT !.error = TRUE] ELSE Drop(v)
Push(v, type) ==
    IF Len(v.stack) = MaxStack THEN [v EXCEPT !.error = TRUE] ELSE [v EXCEPT !.stack = Append(@, type)]

Opened(v, kind) ==
    IF Len(v.controls) = MaxControl THEN [v EXCEPT !.error = TRUE]
    ELSE [v EXCEPT !.controls = Append(@, [kind |-> kind, height |-> Len(v.stack), else |-> FALSE])]
Else(v) ==
    LET c == Last(v.controls)
    IN  IF c.kind # "if" \/ c.else \/ Len(v.stack) # c.height THEN [v EXCEPT !.error = TRUE]
        ELSE [v EXCEPT !.controls = Append(Front(@), [c EXCEPT !.else = TRUE])]

(* Mutation of End: a block may leave values.                               *)
EndAnyHeight(v, result) ==
    IF Last(v.controls).kind = "function"
    THEN [(IF result = "none" THEN v ELSE Pop(v, result)) EXCEPT !.controls = <<>>, !.ended = TRUE]
    ELSE [v EXCEPT !.controls = Front(@)]

(* "end": a loop has the kind of the function and is refused here.           *)
End(v, result) ==
    LET c == Last(v.controls)
        popped == IF result = "none" THEN v ELSE Pop(v, result)
    IN  CASE c.kind = "function" -> [popped EXCEPT !.controls = <<>>, !.ended = TRUE]
          [] c.kind = "loop" -> [v EXCEPT !.error = TRUE]
          [] OTHER -> [v EXCEPT !.error = Len(v.stack) # c.height, !.controls = Front(@)]

Binary(v, type) == Push(Pop(Pop(v, type), type), type)
Checked(m, v, i) ==
    CASE v.ended -> [v EXCEPT !.error = TRUE]
      [] ~v.ended /\ i.op \in {"block", "loop"} -> Opened(v, i.op)
      [] ~v.ended /\ i.op = "if" -> Opened(Pop(v, "i32"), "if")
      [] ~v.ended /\ i.op = "else" -> Else(v)
      [] ~v.ended /\ i.op = "end" -> End(v, m.types[m.function].result)
      [] ~v.ended /\ i.op = "drop" -> Drop(v)
      [] ~v.ended /\ i.op = "call" ->
            IF i.arg + 1 \in DOMAIN m.imports /\ m.imports[i.arg + 1] = "log" THEN Binary(v, "i32")
            ELSE [v EXCEPT !.error = TRUE]
      [] ~v.ended /\ i.op = "load" ->
            IF m.memory THEN Push(Pop(v, "i32"), "i32") ELSE [v EXCEPT !.error = TRUE]
      [] ~v.ended /\ i.op = "store" ->
            IF m.memory THEN Pop(Pop(v, "i32"), "i32") ELSE [v EXCEPT !.error = TRUE]
      [] ~v.ended /\ i.op \in {"i32", "i64"} -> Push(v, i.op)
      [] ~v.ended /\ i.op = "eqz" -> Push(Pop(v, "i32"), "i32")
      [] ~v.ended /\ i.op = "add" -> Binary(v, "i32")
      [] ~v.ended /\ i.op = "addl" -> Binary(v, "i64")
      [] ~v.ended /\ i.op = "nop" -> v
      [] OTHER -> [v EXCEPT !.error = TRUE]
VerifyBody(m, v, i) ==
    LET after == Checked(m, v, i)
    IN  [after EXCEPT !.error = v.error \/ @, !.heights = Append(@, v.stack)]

-----------------------------------------------------------------------------
(* find_control_end: the positions of "else" (or -1) and "end" that the scan *)
(* from instruction k finds, byte by byte.  It skips the immediates of the   *)
(* opcodes it knows, i64.const not among them: the immediate of that counts  *)
(* as an opcode, and what looks like a call or a load swallows the bytes     *)
(* that follow.                                                              *)
Immediates(i) ==
    CASE i.op \in {"block", "loop", "if"} -> <<"void">>
      [] i.op \in {"call", "i32"} -> <<"plain">>
      [] i.op \in {"load", "store"} -> <<"plain", "plain">>
      [] i.op = "i64" -> <<i.arg>>
      [] OTHER -> <<>>
Token(scan, token, position) ==
    CASE scan.end # -1 \/ scan.trap -> scan
      [] ~(scan.end # -1 \/ scan.trap) /\ scan.typed -> [scan EXCEPT !.typed = FALSE, !.trap = token # "void"]
      [] ~(scan.end # -1 \/ scan.trap \/ scan.typed) /\ scan.skip > 0 -> [scan EXCEPT !.skip = @ - 1]
      [] OTHER ->
           CASE token \in {"block", "loop", "if"} -> [scan EXCEPT !.depth = @ + 1, !.typed = TRUE]
             [] token = "else" /\ scan.depth = 0 -> [scan EXCEPT !.trap = scan.else # -1, !.else = position]
             [] token = "end" /\ scan.depth = 0 -> [scan EXCEPT !.end = position]
             [] token = "end" /\ scan.depth # 0 -> [scan EXCEPT !.depth = @ - 1]
             [] token \in {"call", "i32"} -> [scan EXCEPT !.skip = 1]
             [] token \in {"load", "store"} -> [scan EXCEPT !.skip = 2]
             [] OTHER -> scan

Scanned(body, k) ==
    FoldLeft(LAMBDA scan, i :
                FoldLeft(LAMBDA s, token : Token(s, token, 2 * i + 1),
                         Token(scan, body[i].op, 2 * i), Immediates(body[i])),
             [depth |-> 0, else |-> -1, end |-> -1, trap |-> FALSE, typed |-> FALSE, skip |-> 0],
             [n \in 1 .. Len(body) - k + 1 |-> k + n - 1])
After(position) == position \div 2 + 1      \* the instruction after that byte

-----------------------------------------------------------------------------
(* Instance::run: at is the next instruction, outcome "none" while it runs.  *)
NewRun(fuel) ==
    [at |-> 1, stack |-> <<>>, controls |-> <<>>, fuel |-> fuel, given |-> fuel, outcome |-> "none"]
Trapped(r, trap) == [r EXCEPT !.outcome = trap]
Value(type, n) == [type |-> type, n |-> n]
PushValue(r, value) ==
    IF Len(r.stack) = MaxStack THEN Trapped(r, "StackOverflow") ELSE [r EXCEPT !.stack = Append(@, value)]

(* pop_i32 and pop_i64 count times, then what to do with the rest.           *)
Popping(r, count, types) ==
    LET taken == [i \in 1 .. count |-> r.stack[Len(r.stack) + 1 - i].type]
    IN  IF \E i \in 1 .. count : i <= Len(r.stack) /\ taken[i] # types /\ \A j \in 1 .. i - 1 : taken[j] = types
        THEN "TypeMismatch"
        ELSE IF Len(r.stack) < count THEN "StackUnderflow" ELSE "none"
Popped(r, count) == [r EXCEPT !.stack = SubSeq(@, 1, Len(r.stack) - count)]
Top(r, i) == r.stack[Len(r.stack) + 1 - i].n

(* LinearMemory::range: a negative address is far beyond the end.            *)
InRange(address, offset, length) == address >= 0 /\ address + offset + length <= MaxMemory

OpenBlock(r, body, kind, condition) ==
    LET scan == Scanned(body, r.at + 1)
        inside == [r EXCEPT !.controls = Append(@, [end |-> scan.end, kind |-> kind]), !.at = @ + 1]
    IN  CASE scan.trap \/ scan.end = -1 -> Trapped(r, "TypeMismatch")
          [] ~(scan.trap \/ scan.end = -1) /\ Len(r.controls) = MaxControl -> Trapped(r, "StackOverflow")
          [] OTHER -> IF condition # 0 THEN inside
                      ELSE IF scan.else # -1 THEN [inside EXCEPT !.at = After(scan.else)]
                      ELSE [r EXCEPT !.at = After(scan.end)]
RunElse(r) ==
    IF r.controls = <<>> \/ Last(r.controls).kind # "if" THEN Trapped(r, "TypeMismatch")
    ELSE [r EXCEPT !.at = After(Last(r.controls).end), !.controls = Front(@)]
RunEnd(r) ==
    IF r.controls # <<>> /\ Last(r.controls).end = 2 * r.at
    THEN [r EXCEPT !.controls = Front(@), !.at = @ + 1]
    ELSE IF r.stack = <<>> THEN Trapped(r, "StackUnderflow")
    ELSE Trapped(r, IF Last(r.stack).type = "i32" THEN "value" ELSE "TypeMismatch")

Operands(i) ==
    CASE i.op \in {"store", "add", "addl"} \/ (i.op = "call" /\ i.arg = 0) -> 2
      [] i.op \in {"if", "load", "eqz"} -> 1
      [] OTHER -> 0

(* What an instruction may do; values read from memory are arbitrary, and    *)
(* the host (external) may refuse a call.                                    *)
Results(r, i) ==
    LET rest == Popped(r, Operands(i))
        on == [rest EXCEPT !.at = @ + 1]
        give(n) == PushValue(on, Value("i32", n))
    IN  CASE i.op \in {"block", "loop"} -> {r}
          [] i.op = "call" -> IF i.arg # 0 THEN {Trapped(r, "HostDenied")}
                              ELSE {Trapped(r, "HostDenied"), give(0)}
          [] i.op = "load" -> IF InRange(Top(r, 1), i.arg, 4) THEN {give(n) : n \in I32}
                              ELSE {Trapped(r, "MemoryFault")}
          [] i.op = "store" -> {IF InRange(Top(r, 2), i.arg, 4) THEN on ELSE Trapped(r, "MemoryFault")}
          [] i.op = "i32" -> {give(i.arg)}
          [] i.op = "i64" -> {PushValue(on, Value("i64", 0))}
          [] i.op = "eqz" -> {give(IF Top(r, 1) = 0 THEN 1 ELSE 0)}
          [] i.op = "add" -> {give(Wrapped(Top(r, 1) + Top(r, 2)))}
          [] i.op = "addl" -> {PushValue(on, Value("i64", 0))}
          [] OTHER -> {on}

Executed(r, body) ==
    LET i == body[r.at]
        spent == [r EXCEPT !.fuel = @ - 1]
        popped == Popping(r, Operands(i), IF i.op = "addl" THEN "i64" ELSE "i32")
    IN  CASE r.at > Len(body) -> {Trapped(r, "TypeMismatch")}
          [] r.at <= Len(body) /\ r.fuel = 0 -> {Trapped(r, "FuelExhausted")}
          [] OTHER ->
               IF popped # "none" THEN {Trapped(spent, popped)}
               ELSE CASE i.op \in {"block", "loop"} -> {OpenBlock(spent, body, i.op, 1)}
                      [] i.op = "if" -> {OpenBlock(Popped(spent, 1), body, "if", Top(r, 1))}
                      [] i.op = "else" -> {RunElse(spent)}
                      [] i.op = "end" -> {RunEnd(spent)}
                      [] i.op = "drop" -> {IF r.stack = <<>> THEN Trapped(spent, "StackUnderflow")
                                           ELSE [Popped(spent, 1) EXCEPT !.at = @ + 1]}
                      [] OTHER -> Results(spent, i)

-----------------------------------------------------------------------------
Wasm(phase) ==
    [phase |-> phase, module |-> NewModule, body |-> <<>>, verifier |-> NewVerifier, run |-> NewRun(0)]
Refused == Wasm("refused")
WasmInit == wasm = Wasm("parse")

(* One section; the code section opens the body.                             *)
ParseSection ==
    /\ wasm.phase = "parse"
    /\ \E s \in Sections : \E m \in {Section(wasm.module, s)} :
         wasm' = IF m.error THEN Refused
                 ELSE [wasm EXCEPT !.module = m, !.phase = IF s.id = "code" THEN "verify" ELSE "parse"]
(* One instruction of it.                                                    *)
VerifyInstruction ==
    /\ wasm.phase = "verify"
    /\ Len(wasm.body) < IF Cardinality(wasm.module.seen) = 7 THEN MaxBody ELSE ShortBody
    /\ \E i \in IF Len(wasm.body) < ShortBody THEN Instructions ELSE Later : \E v \in {VerifyBody(wasm.module, wasm.verifier, i)} :
         wasm' = IF v.error THEN Refused ELSE [wasm EXCEPT !.body = Append(@, i), !.verifier = v]
(* The body is over; a body that is cut short is refused.                    *)
VerifyEnd ==
    /\ wasm.phase = "verify"
    /\ wasm' = IF wasm.verifier.ended THEN [wasm EXCEPT !.phase = "parse"] ELSE Refused
ParseEnd ==
    /\ wasm.phase = "parse"
    /\ wasm' = IF Accepted(wasm.module) THEN [wasm EXCEPT !.phase = "ready"] ELSE Refused

RunStart ==
    /\ wasm.phase = "ready"
    /\ \E fuel \in Fuels : wasm' = [wasm EXCEPT !.phase = "run", !.run = NewRun(fuel)]
RunStep ==
    /\ wasm.phase = "run" /\ wasm.run.outcome = "none"
    /\ \E r \in Executed(wasm.run, wasm.body) : wasm' = [wasm EXCEPT !.run = r]

WasmNext == ParseSection \/ VerifyInstruction \/ VerifyEnd \/ ParseEnd \/ RunStart \/ RunStep

(* No immediate of an i64.const looks like an opcode the scan knows.         *)
Regular(body) == \A i \in DOMAIN body : body[i].op = "i64" => body[i].arg = "plain"
Types(stack) == [i \in DOMAIN stack |-> stack[i].type]

(* What verify_body accepts runs as it was checked: an accepted body is also *)
(* accepted for the module with all its sections, whatever their order was;  *)
(* the interpreter's stack has the height the verifier computed at every     *)
(* instruction, and the types, unless a block took values from below its     *)
(* start; the stack never underflows or overflows, and a run goes only       *)
(* forward.  For functions that return an i32, and where find_control_end     *)
(* does not misread the immediate of an i64.const.                           *)
VerifiedRuns ==
    /\ wasm.phase = "ready" =>
         \E v \in {FoldLeft(LAMBDA v, i : VerifyBody(wasm.module, v, i), NewVerifier, wasm.body)} :
            v.ended /\ ~v.error
    /\ wasm.phase = "run" /\ wasm.module.types[wasm.module.function].result = "i32" /\ Regular(wasm.body) =>
         \E r \in {wasm.run}, v \in {wasm.verifier} :
            /\ r.outcome \notin {"StackUnderflow", "StackOverflow"}
            /\ r.outcome = "TypeMismatch" => v.dips
            /\ r.outcome = "none" => /\ Len(r.stack) = Len(v.heights[r.at])
                                     /\ v.dips \/ Types(r.stack) = v.heights[r.at]
                                     /\ r.given - r.fuel < r.at
=============================================================================
