------------------------------- MODULE Bridge --------------------------------
(* bridge.cpp and the host that drives it (run.js). The wasm module is one   *)
(* thread: the host calls an export, the export runs to its return, or the   *)
(* module aborts. Each export that loops is a call in progress, one action   *)
(* per turn of the loop, so that what a call has done when it fails half way  *)
(* is visible. Memory the bridge hands out is never freed (no export frees   *)
(* it), so the heap only grows, up to HeapCap rows.                          *)
(* All of it is one address space: unused words from address zero up, then   *)
(* static data (the table's header among it), the stack and the heap.        *)
EXTENDS ScriptCodec

CONSTANTS
  Tokens,       \* the tokens of the programs the host compiles
  Programs,     \* the programs it may compile, lists of tokens
  ByteStrings,  \* the byte arrays it may pass to byteCompile
  Outcomes,     \* what EvalScript may leave: [ok |-> BOOLEAN, stack |-> ...]
  LowWords,     \* unused words below the module's own data (256 with GLOBAL_BASE 1024)
  Garbage,      \* what memory that was written over may read as
  HeapCap,      \* rows the wasm memory has room for
  MaxScripts,   \* bound on the script table
  MaxResults    \* bound on the calls that return

ASSUME ByteStringsAssumption == ByteStrings \subseteq Data
ASSUME MemoryAssumption == LowWords \in Nat /\ Garbage \subseteq Data
ASSUME ProgramsAssumption == Tokens \subseteq ProgramTokens /\ Programs \subseteq Seq(Tokens)
ASSUME OutcomesAssumption ==
  Outcomes \subseteq [ok : BOOLEAN, stack : Seq(Data)]
ASSUME BoundsAssumption == HeapCap \in Nat /\ MaxScripts \in Nat /\ MaxResults \in Nat

VARIABLES
  scripts,  \* std::vector<CScript> scripts: handle h is scripts[h+1]
  heap,     \* the row blocks allocated so far; a row pointer is an index
  low,      \* the unused words written through a null lines array
  results,  \* what the calls that returned gave the host, in order
  views,    \* what the host extracted from them (extractStack)
  fn,       \* the loop in progress, "idle" between calls, "abort" or "spoilt" for good
  req,      \* the call in progress
  c,        \* its CScript
  pc, i,    \* its loop variables
  len,      \* codeout.len or stackout.len
  cells,    \* the words of the pointer array written so far
  path      \* history: where scriptCount's GetOp calls started

locals == <<c, pc, i, len, cells, path>>
vars == <<scripts, heap, low, results, views, fn, req, locals>>

NoRequest == [op |-> "none"]

Init == /\ scripts = <<>> /\ heap = <<>> /\ low = <<>>
        /\ results = <<>> /\ views = <<>>
        /\ fn = "idle" /\ req = NoRequest
        /\ c = <<>> /\ pc = 0 /\ i = 0 /\ len = 0 /\ cells = <<>> /\ path = <<>>

-----------------------------------------------------------------------------
(* Entering, leaving and losing a call. *)
Idle == fn = "idle" /\ Len(results) < MaxResults

NoLocals == c' = <<>> /\ pc' = 0 /\ i' = 0 /\ len' = 0 /\ cells' = <<>> /\ path' = <<>>

Return(result) == /\ results' = Append(results, result)
                  /\ fn' = "idle" /\ req' = NoRequest
                  /\ NoLocals

(* An uncaught C++ exception, or no memory left. *)
Abort == /\ fn' = "abort"
         /\ req' = NoRequest /\ NoLocals
         /\ UNCHANGED <<scripts, heap, low, results, views>>

(* strvecToSizedCharPtr: p' is the index of the new row. *)
(* Mutant: one static buffer for all rows. *)
NewRow_Static(d) == heap' = <<SizedRow(d)>> \o SubSeq(heap, 2, Len(heap))

NewRow(d) == heap' = Append(heap, SizedRow(d))
NewPtr == Len(heap) + 1
HeapFull == Len(heap) >= HeapCap

(* words[at] = p *)
Store(words, at, p) == [w \in DOMAIN words \cup {at} |-> IF w = at THEN p ELSE words[w]]

-----------------------------------------------------------------------------
(* stringCompile: encode token after token into a local script, then append  *)
(* it to the table and return its position.                                  *)
StringCompile(args) ==
  /\ Idle /\ Len(scripts) < MaxScripts
  /\ fn' = "encode" /\ req' = [op |-> "stringCompile", args |-> args]
  /\ UNCHANGED <<scripts, heap, low, results, views, locals>>

EncodeToken ==
  /\ fn = "encode" /\ i < Len(req.args)
  /\ ~Throws(req.args[i+1])
  /\ c' = encodeOp(c, req.args[i+1])
  /\ i' = i + 1
  /\ UNCHANGED <<scripts, heap, low, results, views, fn, req, pc, len, cells, path>>

(* Mutant: the half-encoded script stays in the table. *)
EncodeThrows_KeepsPrefix ==
  /\ fn = "encode" /\ i < Len(req.args)
  /\ Throws(req.args[i+1])
  /\ scripts' = Append(scripts, c)
  /\ fn' = "abort" /\ req' = NoRequest /\ NoLocals
  /\ UNCHANGED <<heap, low, results, views>>

EncodeThrows ==
  /\ fn = "encode" /\ i < Len(req.args)
  /\ Throws(req.args[i+1])
  /\ Abort

CompileReturns ==
  /\ fn = "encode" /\ i = Len(req.args)
  /\ scripts' = Append(scripts, c)
  /\ Return([op |-> "compile", idx |-> Len(scripts), args |-> req.args])
  /\ UNCHANGED <<heap, low, views>>

(* byteCompile: the bytes as they are, well-formed or not. *)
ByteCompile(bytes) ==
  /\ Idle /\ Len(scripts) < MaxScripts
  /\ scripts' = Append(scripts, bytes)
  /\ Return([op |-> "byteCompile", idx |-> Len(scripts), bytes |-> bytes])
  /\ UNCHANGED <<heap, low, views>>

-----------------------------------------------------------------------------
(* scripts.at(idx) throws on a handle nobody was given. *)
Handles == 0..(Len(scripts) - 1)

BadHandle(idx) == Idle /\ idx \notin Handles /\ Abort

(* scriptRun: EvalScript (external) may leave any outcome; then              *)
(* stackToCharArray copies the stack row by row, whether it succeeded or not. *)
ScriptRun(idx, outcome) ==
  /\ Idle /\ idx \in Handles
  /\ fn' = "rows"
  /\ req' = [op |-> "scriptRun", idx |-> idx, ok |-> outcome.ok, stack |-> outcome.stack]
  /\ len' = Len(outcome.stack)
  /\ UNCHANGED <<scripts, heap, low, results, views, c, pc, i, cells, path>>

(* Mutant: the stack is copied top first. *)
CopyRow_Reversed ==
  /\ fn = "rows" /\ i < len /\ ~HeapFull
  /\ NewRow(req.stack[i+1])
  /\ cells' = Store(cells, len - 1 - i, NewPtr)
  /\ i' = i + 1
  /\ UNCHANGED <<scripts, low, results, views, fn, req, c, pc, len, path>>

CopyRow ==
  /\ fn = "rows" /\ i < len /\ ~HeapFull
  /\ NewRow(req.stack[i+1])
  /\ cells' = Store(cells, i, NewPtr)
  /\ i' = i + 1
  /\ UNCHANGED <<scripts, low, results, views, fn, req, c, pc, len, path>>

RunReturns ==
  /\ fn = "rows" /\ i = len
  /\ Return([op |-> "run", idx |-> req.idx, success |-> req.ok, len |-> len,
             cells |-> cells, stack |-> req.stack])
  /\ UNCHANGED <<scripts, heap, low, views>>

-----------------------------------------------------------------------------
(* decompile, called by the host or by scriptToString: scriptCount sizes the *)
(* array of lines, a second pass over the script fills it. A count of -1     *)
(* asks malloc for almost 4 GB, lines is null, and the second pass stores    *)
(* its rows from address zero on.                                            *)
Decompile(op, idx) ==
  /\ Idle /\ idx \in Handles
  /\ fn' = "count" /\ req' = [op |-> op, idx |-> idx]
  /\ c' = scripts[idx+1]
  /\ UNCHANGED <<scripts, heap, low, results, views, pc, i, len, cells, path>>

(* Mutant: pushes are not counted (the empty test at bridge.cpp:168). *)
CountOp_SkipsPushes ==
  /\ fn = "count" /\ pc < Len(c) /\ GetOp(c, pc).ok
  /\ pc' = GetOp(c, pc).next /\ path' = Append(path, pc)
  /\ i' = IF GetOp(c, pc).op > OP_PUSHDATA4 THEN i + 1 ELSE i
  /\ UNCHANGED <<scripts, heap, low, results, views, fn, req, c, len, cells>>

CountOp ==
  /\ fn = "count" /\ pc < Len(c) /\ GetOp(c, pc).ok
  /\ pc' = GetOp(c, pc).next /\ i' = i + 1 /\ path' = Append(path, pc)
  /\ UNCHANGED <<scripts, heap, low, results, views, fn, req, c, len, cells>>

Allocate(count) ==
  /\ len' = count
  /\ fn' = "emit" /\ pc' = 0 /\ i' = 0
  /\ UNCHANGED <<scripts, heap, low, results, views, req, c, cells, path>>

CountFails == fn = "count" /\ pc < Len(c) /\ ~GetOp(c, pc).ok /\ Allocate(-1)

(* Mutants: a push that ends the script counts as cut short; one line too many. *)
CountEnds_LastPush ==
  /\ fn = "count" /\ pc >= Len(c)
  /\ Allocate(IF path # <<>> /\ GetOp(c, Last(path)).op <= OP_PUSHDATA4 THEN -1 ELSE i)
CountEnds_OneMore == fn = "count" /\ pc >= Len(c) /\ Allocate(i + 1)

CountEnds == fn = "count" /\ pc >= Len(c) /\ Allocate(i)

AtOp == fn = "emit" /\ pc < Len(c) /\ GetOp(c, pc).ok /\ ~HeapFull

\* Word i of a null array is past the unused ones.
PastLow == len = -1 /\ i >= LowWords

EmitRow ==
  /\ AtOp /\ ~PastLow
  /\ NewRow(<<GetOp(c, pc).op>> \o GetOp(c, pc).data)
  /\ IF len = -1
     THEN low' = Store(low, i, NewPtr) /\ UNCHANGED cells
     ELSE cells' = Store(cells, i, NewPtr) /\ UNCHANGED low
  /\ pc' = GetOp(c, pc).next /\ i' = i + 1
  /\ UNCHANGED <<scripts, results, views, fn, req, c, len, path>>

(* A pointer is written over static data, the stack or the heap. That may    *)
(* change the table in any way (its header is static data) and, store by     *)
(* store, any row; nor is the rest of the call determined, or any call after *)
(* it. What the host was told before, it knows.                              *)
Damage ==
  /\ scripts' \in {scripts} \cup UNION {[1..n -> Garbage] : n \in 0..MaxScripts}
  /\ heap' \in {heap} \cup {[heap EXCEPT ![p] = row] : p \in DOMAIN heap, row \in Garbage}
  /\ fn' = "spoilt" /\ req' = NoRequest /\ NoLocals
  /\ UNCHANGED <<low, results, views>>

Overwrite == AtOp /\ PastLow /\ Damage

Spoilt == fn = "spoilt" /\ Damage

(* A failing GetOp is reported; the loop goes on where the iterator stands.  *)
(* Mutant: the iterator is put back.                                         *)
EmitHole_Retries ==
  /\ fn = "emit" /\ pc < Len(c) /\ ~GetOp(c, pc).ok
  /\ UNCHANGED vars

EmitHole ==
  /\ fn = "emit" /\ pc < Len(c) /\ ~GetOp(c, pc).ok
  /\ pc' = GetOp(c, pc).next /\ i' = i + 1
  /\ UNCHANGED <<scripts, heap, low, results, views, fn, req, c, len, cells, path>>

DecompileReturns ==
  /\ fn = "emit" /\ pc >= Len(c) /\ req.op = "decompile"
  /\ Return([op |-> "decompile", idx |-> req.idx, len |-> len, cells |-> cells,
             path |-> path])
  /\ UNCHANGED <<scripts, heap, low, views>>

(* scriptToString returns the word lines[0]: one the loop stored, a word of   *)
(* low memory, or, of an array of no lines, whatever malloc left there, which *)
(* may be a row's address or not (NoRow).                                    *)
NoRow == 0
WordAt0(words) == IF 0 \in DOMAIN words THEN words[0] ELSE NoRow

FirstLines == IF len = 0 THEN {NoRow} \cup 1..Len(heap)
              ELSE {WordAt0(IF len = -1 THEN low ELSE cells)}

ToStringReturns ==
  /\ fn = "emit" /\ pc >= Len(c) /\ req.op = "scriptToString"
  /\ \E row \in FirstLines :
       Return([op |-> "toString", idx |-> req.idx, len |-> len, row |-> row])
  /\ UNCHANGED <<scripts, heap, low, views>>

(* new char[] with no memory left, in either loop that builds rows. *)
OutOfMemory ==
  /\ \/ fn = "rows" /\ i < len
     \/ fn = "emit" /\ pc < Len(c) /\ GetOp(c, pc).ok
  /\ HeapFull
  /\ Abort

-----------------------------------------------------------------------------
(* extractStack in the host, on a result of scriptRun: the rows become views *)
(* into the wasm memory, not copies, each with its length read as a signed   *)
(* byte; a negative length makes new Uint8Array throw.                       *)
RowLen(p) == Signed8(heap[p][1])

ExtractStack(k) ==
  /\ fn = "idle" /\ Len(views) < MaxResults
  /\ results[k].op = "run"
  /\ LET ptrs == [j \in 1..results[k].len |-> results[k].cells[j-1]]
     IN  views' = Append(views,
           IF \E j \in DOMAIN ptrs : RowLen(ptrs[j]) < 0
           THEN [of |-> k, threw |-> TRUE,  rows |-> <<>>]
           ELSE [of |-> k, threw |-> FALSE,
                 rows |-> [j \in DOMAIN ptrs |-> [ptr |-> ptrs[j], size |-> RowLen(ptrs[j])]]])
  /\ UNCHANGED <<scripts, heap, low, results, fn, req, locals>>

-----------------------------------------------------------------------------
Step == \/ EncodeToken \/ EncodeThrows \/ CompileReturns
        \/ CopyRow \/ RunReturns
        \/ CountOp \/ CountFails \/ CountEnds
        \/ EmitRow \/ EmitHole \/ DecompileReturns \/ ToStringReturns
        \/ OutOfMemory

Call == \/ \E args \in Programs : StringCompile(args)
        \/ \E bytes \in ByteStrings : ByteCompile(bytes)
        \/ \E idx \in 0..MaxScripts :
             \/ BadHandle(idx)
             \/ \E outcome \in Outcomes : ScriptRun(idx, outcome)
             \/ \E op \in {"decompile", "scriptToString"} : Decompile(op, idx)
        \/ \E k \in 1..Len(results) : ExtractStack(k)

\* The steps of a module whose memory is intact.
Intact == Step \/ Call

Next == Intact \/ Overwrite \/ Spoilt

Spec == Init /\ [][Next]_vars

(* A call in progress runs on: the module is one thread and nothing blocks. *)
FairSpec == Spec /\ WF_vars(Step \/ Overwrite)
=============================================================================
