----------------------------- MODULE BridgeProps -----------------------------
(* What must hold of the bridge, and that it implements ScriptService.       *)
EXTENDS Bridge

Rows == Seq({Unwritten} \cup Byte)

Pointers(words, rows) == \A w \in DOMAIN words : w \in Nat /\ words[w] \in 1..Len(rows)

(* Nothing of the module's own memory was written over.                      *)
Sound == fn # "spoilt"

IsResult(r, rows, table) ==
  /\ r.op \in {"compile", "byteCompile", "run", "decompile", "toString"}
  /\ r.idx \in 0..(Len(table) - 1)
  /\ r.op \in {"run", "decompile"} => Pointers(r.cells, rows) /\ r.len \in Nat \cup {-1}

(* The module's state has its type: bytes in scripts and rows, pointers of   *)
(* every array, finished or being filled, at rows that exist; handles are    *)
(* entries of the table as long as it is the module's.                       *)
TypeOK ==
  /\ scripts \in Seq(Data)
  /\ heap \in Seq(Rows)
  /\ Pointers(low, heap) /\ Pointers(cells, heap)
  /\ Sound => \A k \in 1..Len(results) : IsResult(results[k], heap, scripts)
  /\ fn \in {"idle", "encode", "rows", "count", "emit", "abort", "spoilt"}
  /\ c \in Data /\ pc \in Nat /\ (fn \in {"count", "emit"} => pc <= Len(c))
  /\ i \in Nat /\ len \in Int /\ path \in Seq(Nat)

-----------------------------------------------------------------------------
(* The two passes of decompile agree (bridge.cpp:112-127): a codeout whose   *)
(* count is not -1 has exactly that many lines, each stored once, inside the *)
(* array, and line j shows the operation the counting pass met as its j-th.  *)
ShowsOp(s, at, p) ==
  heap[p] = SizedRow(<<GetOp(s, at).op>> \o GetOp(s, at).data)

CodeoutComplete ==
  Sound => \A k \in 1..Len(results) :
    LET r == results[k] IN
    r.op = "decompile" /\ r.len # -1 =>
      /\ r.len = Len(r.path)
      /\ DOMAIN r.cells = 0..(r.len - 1)
      /\ \A j \in DOMAIN r.cells : ShowsOp(scripts[r.idx+1], r.path[j+1], r.cells[j])

(* While decompile fills its array it never stores a line outside it, nor in *)
(* low memory when the count was good.                                       *)
StoresInBounds ==
  fn = "emit" /\ len # -1 => DOMAIN cells \subseteq 0..(len - 1)

(* The service the bridge implements: the same table, the answers with their *)
(* pointers followed.                                                        *)
AbstractReply(r) ==
  LET row(w) == heap[r.cells[w]]
  IN  CASE r.op \in {"compile", "byteCompile"} -> [op |-> "handle", idx |-> r.idx]
        [] r.op = "run" -> [op |-> "run", idx |-> r.idx, success |-> r.success,
                            rows |-> [j \in 1..r.len |-> row(j-1)]]
        [] r.op = "decompile" -> [op |-> "list", idx |-> r.idx, known |-> r.len # -1,
                                  rows |-> [j \in 1..r.len |-> row(j-1)]]
        [] r.op = "toString" -> [op |-> "show", idx |-> r.idx,
                                 rows |-> IF r.len > 0 THEN <<heap[r.row]>> ELSE <<>>]

S == INSTANCE ScriptService WITH
       table   <- scripts,
       replies <- [k \in 1..Len(results) |-> AbstractReply(results[k])],
       status  <- CASE fn = "abort" -> "down" [] fn = "spoilt" -> "undefined" [] OTHER -> "up"

Compiles == {k \in 1..Len(results) : results[k].op \in {"compile", "byteCompile"}}

(* The script the host had compiled, as it knows it.                         *)
Made(r) == IF r.op = "byteCompile" THEN r.bytes
           ELSE FlattenSeq([k \in 1..Len(r.args) |-> TokenBytes(r.args[k])])

(* The null array of a count of -1 (bridge.cpp:112-113, a malloc of 4 * -1   *)
(* bytes) is only met on behalf of a script the host compiled that does not  *)
(* parse, and the module's own memory is written over only for one that has  *)
(* an operation past the unused words.                                       *)
LowMemoryClean ==
  /\ DOMAIN low # {} => \E k \in Compiles : ~S!WellFormed(Made(results[k]))
  /\ ~Sound => \E k \in Compiles : S!Overruns(Made(results[k]))

(* A handle is the host's only name for a script: the j-th compile that      *)
(* returned got handle j-1, and no script is in the table that no compile    *)
(* returned, also after a compile that threw half way (stringCompile).       *)
HandlesAreReturned ==
  Sound =>
    /\ Cardinality(Compiles) = Len(scripts)
    /\ \A k \in Compiles : results[k].idx = Cardinality({m \in Compiles : m < k})

(* Decompiling what stringCompile made gives one line for each token that    *)
(* was neither empty nor an unknown name, provided no token is a bare push   *)
(* opcode (OP_PUSHDATA1, or the name OP_UNKNOWN, which is the opcode of a    *)
(* one-byte push): that one swallows the bytes of the tokens after it.       *)
BarePush(t) == t.form = "op" /\ TokenBytes(t) # <<>> /\ TokenBytes(t)[1] \in 1..OP_PUSHDATA4

DecompileUndoesCompile ==
  \A k, m \in 1..Len(results) :
    /\ results[k].op = "compile" /\ results[m].op = "decompile"
    /\ results[k].idx = results[m].idx
    /\ \A j \in 1..Len(results[k].args) : ~BarePush(results[k].args[j])
    => results[m].len = Cardinality({j \in 1..Len(results[k].args) :
                                       TokenBytes(results[k].args[j]) # <<>>})

-----------------------------------------------------------------------------
(* What the host reads (extractStack, run.js:24-37) of what EvalScript left: *)
(* it never reads a byte the bridge did not write, it throws only for an     *)
(* element whose size does not fit a signed byte, and otherwise it sees each *)
(* element, cut to its size modulo 256.                                      *)
ViewsShowStack ==
  Sound => \A k \in 1..Len(views) :
    LET v == views[k]
        stack == results[v.of].stack
    IN  IF v.threw THEN \E j \in 1..Len(stack) : Len(stack[j]) % 256 > 127
        ELSE /\ Len(v.rows) = Len(stack)
             /\ \A j \in 1..Len(stack) :
                  SubSeq(heap[v.rows[j].ptr], 2, v.rows[j].size + 1)
                    = SubSeq(stack[j], 1, Len(stack[j]) % 256)

(* A view aliases the wasm memory and a handle an entry of the table, in the *)
(* one memory that lines[i] = ... of a failed count runs into from address   *)
(* zero (bridge.cpp:113, 124; bridge.h:17). As long as the host has compiled *)
(* no script that overruns, whatever it lists, well-formed or not, no step   *)
(* changes a row it holds or a script it compiled.                           *)
NothingHeldChanges ==
  [][ (\A k \in Compiles : ~S!Overruns(Made(results[k])))
        => IsPrefix(heap, heap') /\ IsPrefix(scripts, scripts') ]_vars

(* Each call comes to its end, also the second pass over a script that does  *)
(* not parse, which goes on after a failing GetOp (bridge.cpp:117-119),      *)
(* unless it writes over the memory it runs on.                              *)
CallsEnd == fn # "idle" ~> fn \in {"idle", "abort", "spoilt"}

(* The bridge implements the service. *)
ImplementsService == S!Spec

-----------------------------------------------------------------------------
(* README.md:30 shows what scriptToString gives for the program 1 2 OP_ADD:  *)
(* all of it. A string for the host has the lines of the whole script.       *)
ScriptToStringShowsScript ==
  Sound => \A k \in 1..Len(results) :
    results[k].op = "toString" /\ results[k].len > 0 =>
      heap[results[k].row] = FlattenSeq(S!Listing(scripts[results[k].idx + 1]))
=============================================================================
