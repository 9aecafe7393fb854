# aimoes: a verification development

`aosl-compiler` reads schema files (`*.aosl`), resolves their imports, checks
them and lowers them to an intermediate representation (IR). Back ends work
from the IR: one writes C++, another compiles every type to byte code for a small
virtual machine that encodes and decodes documents. This directory models the
parts of the repository with logic of their own in TLA+, checks them with TLC
and proves the module loader, the virtual machine, the pointers of the JSON
adapters, the widening of jumps, what bit streams hold and give back, that
validation decides exactly the rules, and the tables of the IR with TLAPS. Paths below are relative to `src/`.

## 1. The system

| Component | State | Operations | Talks to |
|---|---|---|---|
| Module loader, `compiler/src/SemanticContext.cpp` (`loadFile`) | `m_modules`, `m_errors`; per call: work list, parsed files, import graph | `loadFile(root)` | the frontend (resolve, parse), the validation passes |
| Symbols and validation, `SemanticContext.cpp`, `AstValidate*.cpp`, `AstBaseType.cpp` | symbol table, per-module maps, message numbers seen, `m_errors` | `validate`: seven passes over all modules, with the package names in the first | loader's modules; every pass runs, whatever the earlier ones found |
| Directives, `ComputeDirectives.cpp` | a stack of tables | the sixth pass: defaults and own directives, merged into what is in effect | the AST, which it fills in |
| IR generation, `compiler/src/IR.cpp`, `ResourceCache.h` | interning tables, slots of messages | `generateIR`, one symbol after the other | validated AST in, IR out |
| Assembler, `compiler/src/Assembler.cpp` | a list of entries with labels | emitters, `assemble` | the code generator |
| Code generator, `compiler/src/VM.cpp` | routine per type | `generateProgram` | IR in, code words and entry points out |
| Virtual machine, `compiler/include/ao/schema/VM.h` | `pc`, `flag`, `reg`, four stacks, `error` | one op at a time; `encode`, `decode` | calls an object adapter and a codec, reads their `ok()` after every op |
| JSON back end, `compiler/src/JSONBackend.cpp` | document, stack of pointers into it, sticky error | one function per op that the machine performs on the object | the machine |
| Disk codec, `DiskCodec.h` | sticky error, a byte stream | one function per op on the codec, skipping of unknown fields | the machine, `pack` streams |
| Net codec, `NetCodec.h` | none beyond a bit stream | as the disk codec, without tags | the machine, `pack` bit streams |
| Bit and byte streams, `pack/src/` | position and sticky status | bits, bytes, align, require; a size stream that only counts | the codecs |
| Integer codings, `Varint.h`, `ZigZag.h` | none | varint, prefix integer, zigzag | the codecs, on either kind of stream |
| C++ back end, `CppBackend.cpp`, `Cpp*Accessor.cpp` | errors, four outputs | names, the header in the order of the IR's types, accessors | the IR; files that the command line opens |
| C++ adapter, `CppAdapter.h` | stack of frames: an accessor and a raw pointer | one function per op, on objects of generated types | the machine |
| Command line, `cli/src/main.cpp` | one context, one exit code | load every input, validate, generate, write | all of the above but the machine |
| Parser, serializer, disassembler, `meta`, journal | data or unfinished | | |

Everything runs in one thread. What is hard is therefore not interleaving but

* *passes over shared tables*: seven passes go on after errors, in the order of
  a hash map, and read what an earlier module, refused or not, left behind;
* *ids handed out early*: a message is referred to before it is generated, a
  type is numbered when it is first met, and the header relies on the order;
* *pointers into what moves*: frames of the C++ adapter point into vectors,
  optionals and variants that later ops resize, reset and emplace;
* *histories*: one loader context, and one machine, live through several calls,
  and what an earlier (failed) call left behind meets the next;
* *two parties in step*: the program, the machine's stacks, the adapter's
  pointer stack and the tags on the wire each track the same nesting by
  themselves, and nothing but the generated program keeps them aligned;
* *partial failure*: errors are sticky flags, looked at later or by someone else
  (an unreadable import, an overflowed stream, an unknown arm);
* *fixpoints*: the loader's work list and elimination, the assembler's widening;
* *nondeterminism*: iteration order of hash maps, which the standard library
  decides (libstdc++ goes through small ones backwards);
* *boundaries*: relative jumps, indices that wrap, narrowing casts, values at
  the edge of their width, bytes that straddle words and bytes of a buffer.

What makes each part correct: the loader loads exactly what a root reaches,
never a cycle, and forgets no import; validation accepts exactly the sets of
modules that satisfy the rules, whatever order it meets them in; the IR says of
every declaration what its source says, and an id stays what it is; the exit code
tells what is in the four files; every assembled jump lands on its label; a
generated program never meets an op it cannot run, keeps frames and calls to
adapters nested, and ends; encoding accepts exactly the documents that fit and
writes exactly their bytes, from documents and from C++ objects alike; the whole wire, and no part of it, decodes to a
document with the same meaning; a bit stream gives back what was put in at any
bit position and disturbs nothing beside it. `PROJECT.json` lists the hazards with their
lines and the properties aimed at them.

## 2. Modules

```
ModuleGraph  <--refines--  ModuleLoader  <--  MCModuleLoader, ModuleLoaderProofs
    ^
 Compiler  <--  MCCompiler
    |--> Validation (INSTANCE) --> TypeProperties --> Ast     ValidationProofs
    |--> Directives, SchemaRules --> AstWalks --> Ast
    '--> IRMeaning --> IRGeneration --> IR, ResourceCache

Assembler  <--  AssemblerPasses  <--  MCAssemblerPasses, AssemblerProofs
    ^
 CodeGen  <--  Schemas
    |--> IR      ^
                 |
 VM  <--  VMNesting  <--  MCVM
  |          ^--  VMProofs
  ^
 JsonCodec = VM + JsonAdapters + a codec             JsonCodecProofs (with VMProofs)
    --refines-->  JsonContract, of what JsonReference says
  ^           ^
 MCJsonDisk  MCJsonNet     (both with JsonReference, Documents, Schemas)
  |           |             JsonContract  <--refines--  CppDisk  <--  MCCppDisk
  |           |             CppDisk = VM + CppObjects + DiskCodec
 DiskCodec   NetCodec --> Varint --> BitStream
                            ^
                         BitSession  <--  MCBitSession
                                        BitSessionProofs --> BitStreamProofs
```

**ModuleGraph, ModuleLoader.** The file system behind the frontend is chosen
once: which path each module name resolves to, and what each file imports or
that it does not parse. `ModuleLoader` has one action per step of `loadFile`:
`RootUnresolved`/`RootResolved` (entry), `Skip`, `ParseFails`, `Parse`,
`ImportUnresolved`, `ImportResolved`, `ImportsDone` (the work list and its inner
loop), `GraphBuilt`, `Eliminate` (any free node: the hash map's order),
`ReportCycle`, `Commit`. The C++ locals are the variables `moduleName`,
`toResolve`, `importer`, `decls`, `pendingFiles`, `dependedOnBy`, `dependsOn`.
`ModuleGraph` makes the whole call one step: it loads the least set closed under
imports of not yet loaded files, or fails on a cycle in it.

**Ast, AstWalks, TypeProperties.** A file as the parser leaves it: a sequence of
declarations (package, message, enum, default), blocks of fields, types with
their subtypes, properties and blocks. `AstWalks` has the walks that passes
share; they are recursive, and `Validation` takes the three that it needs as
constants so that it can be proved about. `TypeProperties` is the parsing of
`int(bits=..., encoding=...)`, with the error of each malformed property and the
exception that a number beyond `int` throws.

**Validation, Directives, SchemaRules.** `validate` and its passes, one action
each: `setPackageName`, `exportSymbols`, `resolveModuleSymbols`,
`validateGlobalMessageIds`, `validateFieldNumbers`, `validateFieldNames`,
`computeDirectives`, `validateAstTypeProperties`. The order of the modules is
chosen once, as the map does not change between the passes. A pass that writes a
table which modules share takes a step per declaration, another one a step per
module. `Directives` is the stack of tables of `ComputeDirectives.cpp`, with
`merge` and `setDirectives`. `SchemaRules` is the specification of all this
without tables and passes: when the declarations of a set of modules, taken at
once, are a schema.

**ResourceCache, IRGeneration, IRMeaning.** `getId` of the two caches, and
`generateIR`: an operator for every kind of declaration and type, from the
tables to the tables afterwards and the id that was made. Maps of the C++ code that are
iterated before they are sorted are gone through in one of two orders
(`hashed`). `IRMeaning` reads the tables back: what they say of a message, a
field, a type, a directive, and which types a header that follows them defines
too late.

**Compiler.** `main`: the inputs are loaded one by one (a step of `ModuleGraph`,
which `ModuleLoader` implements), validated by the passes of `Validation`
(`Passes`, an instance on the same variables), generated symbol by symbol in
any order, then the four outputs are opened, and written or not. The exit codes
are those of the code: 2 no inputs or one that is not there, 3 load, 4 validate, 5 IR, 8 back end, 1 an
exception; 139 stands for a crash.

**CppObjects, CppDisk.** Objects of the generated types as functions
from paths to nodes (struct, vector, optional, variant, value), the accessors of
each kind, and the two adapters of `CppAdapter.h` with their frames. `CppDisk`
is the machine with them and the disk codec, for a target that is new or was
used before; `Bytes` of `DiskCodec` is the wire that stands for a document, shared with
`MCJsonDisk`. `CppDisk` refines `JsonContract` as `JsonCodec` does: an object
stands for the document it is read as.

**Assembler, AssemblerPasses.** The emitters, one widening pass (`Widen`), the
fixpoint and the patching are operators, since the code generator uses their
result. `AssemblerPasses` is the loop as a state machine.

**IR, CodeGen, Schemas.** The IR as tables that refer to each other by
index; the routine of every kind of type in both directions; ten small schemas
that between them have every kind of type, and their linked programs, which the
runs use. The programs are generated by the model of the code generator, never
written by hand.

**VM.** One action per group of ops that change the same state, each with the
condition under which the C++ `switch` takes it (`encodeMode` is the template
argument). The adapters are parameters of a step: `answer` is what the op read,
`status` whether both are ok afterwards. `open` (which BEGINs the adapters have
seen without their END) and `leftover` (stack sizes when a run began) are
history variables. Popping an empty `std::vector` is undefined; the model has no
step there, and `FramesMatch`, `EndsInOrder` and `RunEnds` show that no
generated program gets there.

**VMNesting.** What the machine takes for granted of a program and never checks:
`WellNested` says of its code words that every BEGIN has its END behind it in
the text of its routine, that jumps stay at their depth and reach the places
they may, that a dispatch comes after an arm was read, and that each instruction
is one of the program's direction. `ArraysDecode` says of a decoding one that the length of
an array is given to the object before its loop, and not again while the array is
open (`InArray`). `GeneratedNested` checks both of everything
`CodeGen` generates; `VMProofs` assumes the first and nothing else about the
program, `JsonCodecProofs` both.

**JsonAdapters, DiskCodec.** The two parties as operators from their state to
[state, answer], one case per op. A document is a function from paths to nodes;
a pointer is a path. A wire is a sequence of cells: a tag, a prefix integer or a
raw byte (the bytes inside a prefix integer are abstracted). Streams have a
capacity, a position and a sticky status.

**JsonCodec, MCJsonDisk, MCJsonNet, JsonReference, JsonContract.** `JsonCodec` puts
an adapter and a codec in the place of `answer` and `status`, encodes a
document, lets part of what was written arrive, and decodes it. The codec is
a handful of constant operators (`Tell`, `Ask`, `Cells`, ...), as `runVM` is a
template over it; `MCJsonDisk` and `MCJsonNet` define them. Which documents fit
(`Meets`) and what stands for one (`Layout`) are constants as well, so that
`JsonCodec` itself has no recursion. The layout that stands
for a document (`Bytes` of `DiskCodec`, `Bits` of `MCJsonNet`) is a recursion over
the schema, without a program. `JsonReference` says in the same way which documents fit.
`JsonContract` is the promise, with each call one step. Its `Unfit` is where the
two differ: the disk encoder runs on after an overflow and still finds out
that a document does not fit; the net encoder stops at whichever comes first.

**NetCodec, Varint, BitStream, BitSession.** `BitStream` has the three streams of
`BitStream.cpp` as operators on `[data, bitPos, streamErr]`, down to the words
that unaligned bytes are shifted in; `Varint` the integer codings on top. The
sizes of a byte and of a word are constants (8 and 64 in the code): smaller
ones bring the word boundaries into reach. `BitSession` is a writer, a size
stream that is asked for the same, and a reader of some of the bytes; callers
size their buffers with the second. `NetCodec` has one case per op, with the
field widths of the program. `BitStreamProofs` has what the operations of the two
do to bits, apart from any session.

Indices count from 1 in the IR (TLA+ sequences) and from 0 in code words, as in
the source.

## 3. Runs

Deadlock checking is on for `compile`, where a step is possible in every
state (`Terminated` stands for the end). The other models stop when their calls are used up, and where
stopping early would be wrong a liveness property says so.

| Run | Question | Bounds | Distinct states |
|---|---|---|---|
| `loader` | Is what several calls load acyclic, complete, stable; does every call return; does it refine `ModuleGraph`; is no acyclic graph refused, in any elimination order? | 3 files, at most 2 imports each, two names for one path, one unresolvable name, 2 calls | 220,046 |
| `compile` | Does `validate` accept exactly the schemas; which directives are in effect; does the IR mean its source, with stable ids; is a type out of place in the header only when its message was used before it was generated; do the exit code and the files agree; does `main` end? | the projects of `MCCompiler`: modules p and q and p under a second path, 11 good and 16 bad types, blocks, packages and enums out of order in one way each, directives around, in and after blocks, missing inputs, missing, unparsable and cyclic files, outputs that cannot be opened; modules and symbols in every order | 25,059 |
| `assembler_passes` | Does every jump land where its label is; does the widening end? | all lists of up to 6 entries over 2 labels, short jumps of at most 1 word | 117,208 |
| `vm_programs` | Are generated programs nested? Do they run, nest and end for any answers and any failure? Do the frames left by a failed run disturb the next one? | 6 schemas, every start type, both directions, arrays of up to 2, arms 0..2 and uint32 max; a second run of 2 of the programs | 490,119 |
| `json_disk` | The contract over byte streams, for streams that are and are not large enough; do the adapter's pointers follow the machine and lead to nodes; is the machine's type invariant kept by the codec's answers, a flag 0 or 1 also when nothing more arrives; in `mixed` all stacks are in use at once. | 6 schemas, every arm, presence and length from 0 to 2, every document with one place spoiled, every cut | 326,959 |
| `cpp_disk` | The contract for objects of the generated C++ types; does what is decoded equal what was encoded, whatever the target held; do frames point to what is there? | 7 schemas, every arm, unset variants, presence and length from 0 to 2, targets new and fullest, streams of 17 and 100 cells, every cut | 107,250 |
| `json_net` | The contract over bit streams; does every document that fits come back as it was? | 8 schemas, the first and last number of each width, 1- and 2-byte prefix integers, characters 97 and 200; spoiled documents of 4; buffers of 2 and 50 bytes, cut at every byte | 107,093 |
| `bit_items` | Does a bit stream hold, size, return and cut its items? | bytes of 3 and words of 9 bits; 3 items of 6 kinds; coded integers next to the sizes where they grow; buffers of 2 and 6 bytes of zeros or ones; every cut | 1,417,162 |

Why the bounds are enough to mean something: three files are the least with a
cycle that closes through a module of another call, with a diamond and with a
self import beside it; with short jumps of one word, six entries chain three
widenings; the schemas nest each container in itself through another kind, which
is what one stack per kind could get wrong; lengths 0, 1 and 2 tell an empty
loop, one and a repeated one apart; 17 cells are fewer than some of the wires
and more than others; a word of 3 bytes, 2 of which fit after a shift, makes
runs of 3 and 4 bytes take two words. In `compile` each rule of a schema is broken alone, by a file that is otherwise
good, and the projects with q have every pair of importing and imported file,
so that what the passes share is shared by two modules in both orders. `U32`,
`U64` and `IntMax` are small powers of two or one less
(so that an index wraps), `UInt16Max` and `Int16Max` are the real ones wherever
they are not the subject of a run.

Fairness is weak fairness of a step of the running program (`Step`, `Pass`,
`Runs`, `Encoding \/ Decoding`; in `Compiler`, `Next`, written without ENABLED): a thread that is inside a call keeps
running. Nothing forces a further call. `RunEnds` holds for schemas that do not
contain themselves; the code has no step limit (`VMSettings` is never read).

Four runs check a statement that the repository makes and the code does not
keep (`findings` in `PROJECT.json` quotes both sides):

* `vm_unknown_arm`: an arm out of range is dispatched to the last arm, not to
  the entry the jump table has for it (`VM.h:442`).
* `json_skip`: `skipField` and the `FIELD_END` after it both read the End tag, so
  that no wire with a skipped field decodes (`DiskCodec.h:152`).
* `json_non_ascii`: characters of 128 and more are sign-extended on the way to
  the wire and refused on the way back (`JSONBackend.cpp:100`).
* `enum_order`: a name is an enum only if that enum was generated before the
  message that uses it; otherwise it becomes a message that nobody fills in
  (`IR.cpp:193`). The order is that of an `unordered_map`; with libstdc++, which
  goes through a small one from the last insertion to the first, declaring the enum
  first is the very case that goes wrong. The properties of `compile` describe
  what happens then (`TypeFor`, and the crash in `ExitTells`), so that this run alone shows it.

Two more are known and no run is spent on them: `EXT32`, which the assembler
emits for long jumps, has no case in the machine (`VM.h:419`; no checked schema is long enough
to meet it, so neither `GeneratedNested` nor `ProgramsRun` would), and a oneof's
case is cut to 32 bits before it is looked up (`JSONBackend.cpp:124`).

What no run would notice, since the property expects what the code does: a name used twice within
an array or an optional is accepted (`AstValidateIds.cpp:177`; `FieldNamesFree` looks
where the code looks), and a message that was used before it was generated may come too
early in the header (`CppBackend.cpp:451`; `HeaderInOrder` says that nothing else does).

Things the contract takes as they are: over byte streams the machine reports Ok
for a stream that overflowed, and the caller has to ask the stream
(`overflowed` in the model); a value wider than its field loses its high bits on
a bit stream, without an error, and keeps them on disk (`json_net` stays within
the widths); and a field that is missing reads as the array `[null]`
(`JSONBackend.h:111`), so that a missing optional is refused while a null one is
absent (`FieldPath` in `JsonReference`).

## 4. Proofs

`ModuleLoaderProofs` proves, for all sets of names, paths and file systems
that satisfy `LoaderAssumption` (the frontend's answers are well-typed) and any
number of calls:

* `Invariance`: `Spec => []IInv`, and from it `TypeCorrect`,
  `ModulesAcyclic`, `DependenciesAccountedFor`, `CleanIsComplete`;
* `ModulesStable`: loaded modules stay as they are (an action property);
* `LoaderImplementsGraph`: `Spec => Graph!Spec`.

The properties are not inductive by themselves. That a commit leaves the loaded
modules acyclic needs to know what an empty `dependedOnBy` says about the files
parsed: `EliminatedInv` states it for every set of pending files (a set that
reaches into the eliminated nodes has a member that no member imports), which
an elimination step preserves because the node it takes has no importer left,
by `GraphInv` (the graph holds exactly the remaining importers of the remaining
nodes). New files are acyclic among themselves, and cannot close a cycle through
loaded ones since a loaded module imports only loaded modules or files that do
not parse (`DepsAccountedFor`); that in turn needs `WorkListInv`: whatever a
parsed file imports is parsed or queued. The other half of `WorkListInv`, that
nothing is parsed which the root does not reach, gives the refinement: at a
commit the parsed files are exactly `Reached(root)`. `CleanInv` carries the
same for error-free histories. `IInv` is also an invariant of `loader`.

`ValidationProofs` is about `validate`, on any modules, in whatever order the
passes meet them. `AcceptedObeyRules` says that what it accepts obeys the rules
(`ObeysRules`: a package per file, types with their arguments and properties,
no number twice in a block and no name in one that the code looks into, which is none
within an array or an optional, declarations apart, and every name standing
for one declaration, the one it was resolved to), and `RefusedBreakRules` that
what it refuses, or throws on, breaks one, if `loadFile` found no errors: the
passes decide exactly the rules. `AcceptedAreUnique` is the part of the first
that needs one assumption less. `SchemaRules` has the rules in a second form,
with its walks recursive; that the two forms agree on every module of the run
is part of `AcceptsByTheRules`.

The assumptions are the types of what `loadFile` left; `FillsInOnly`, that
`computeDirectives` leaves kind, name, message number and number of declarations
alone; and `KeepsRules`, that a file uses the same names and breaks the same
rules about numbers, names, arguments and packages before and after it.
`ScopedDirectives` in the run `compile` checks both of the `Directives` module,
which is recursive and so out of the prover's reach.

The properties speak about the end, and the tables are what carries them there.
The first invariant (`IInv`) says that, as long as nothing was reported, every
declaration the export pass has behind it is in the symbol table (`Exported`),
which has every name once (`SymbolsUnique`), that the numbers of every message
pass 3 has behind it are among those seen (`Seen`), and that they are apart
(`NumbersApart`). `Behind` orders declarations by pass, module and place. The
second (`RulesInv`) says that symbols are those of declarations
(`SymbolsSound`), and what each pass has established of the modules it has
behind it (`Checked`): a name resolved in pass 2 had one candidate, so at the end
it stands for one declaration, because every declaration was exported and no
symbol is of anything else. The third (`ReasonsInv`) turns this around: the
first error has a reason in the files (`ErrorsHaveReasons`), since until then the
tables hold nothing that is not behind (`SymbolsBehind`, `SeenBehind`), and the
order has every module once (`OnceInOrder`; with a module twice, its own symbols
would count as duplicates). Later errors need no reason, which is as well: after a
file without a package, a name that nothing is wrong with may be reported too.

`VMProofs` is about the machine, for every set of nested programs
(`ProgramsNested`, each program satisfies `WellNested`), every width of its
registers, whatever the adapters answer and whenever they fail, and any number
of runs on one machine. `TypeCorrect`, `FramesAgree`, `OrderOfEnds`, `CleanEnds`,
`ElementsExist` and `RunsThrough` are the six invariants of `vm_programs`, and
`FramesAlwaysThere` says that no `back()` or `pop_back()` of the machine, none of
which is guarded, meets an empty stack, whether or not a program runs in the
direction it was generated for. None of these is inductive: that an END finds its BEGIN on top depends
on the text of the program and, after a RET, on what the callers have open. The
invariant says that what the adapters have open is a pile of parts, one for
each routine on the call stack and one for the routine that runs (`Nests`: there
are depths at which the parts begin), that each part is what the text of
the routine opens before that place (`Around`), and that the registers are what
the place needs: an arm of 32 bits before a dispatch, an index below the
length before an element (`InStep`). A call puts a part on the pile, a RET stands at
a place where its own part is empty, a jump leads to a place with the same part. The frames of
an earlier run that failed lie below (`leftover`), and the invariant says nothing of them but their
number: nothing reaches down there. `GeneratedNested` checks that the assumption holds of
the programs that `CodeGen` generates, in both directions; the generator folds over types, fields and arms,
and that it writes nested programs for *every* schema stays with TLC.

`JsonCodecProofs` is about `encodeJson` and `decodeJson`, for every set of
documents, every codec and every set of programs that are nested, read arrays in
order and run in their own direction (`ProgramsNested`, `ProgramsDecode`,
`Directed`). `PointersAlwaysFollow`: while a run goes on, the stack of pointers
of either adapter holds one for the root and one for everything that is open and
has a pointer, and each leads to a node of the document, which the code
follows without looking. `MachineAgrees`: with these adapters as object the machine keeps its own
invariants. The machine's theorems cannot be cited for this, since
`JsonSpec` runs its steps with answers of an adapter that the steps change; its
lemmas can, because they hold whatever the answer and the status are, and
`JsonInvariance` builds on them. The invariant (`JInv`) adds to that of the
machine that the pointer stack is as long as what is open says (`Pointers`) and,
when decoding, three things. Pointers are paths, each one key longer than the one
below (`IsDecoder`), so that what a call writes at the top lies below every other pointer
and takes away none of them; closing a string replaces the characters of that
array alone. An array that is open knows from the text which of its instructions are
behind it (`ArraysNest`, which `ArraysDecode` feeds). And from `O_WRITE_ARRAY_LEN`
on, its elements are nodes as far as the length in the frame of the machine says
(`ElementsThere`): the same register prepares the object and fills the frame, and
`ElementInRange` keeps the index below. The codec is anything that answers with
numbers, and with 0 or 1 where a bool is asked for (`CodecAnswers`, the antecedent
of both theorems): the machine keeps an answer in `reg` or `flag`, so `TypeOK`, which
`json_disk` checks, says it of the disk codec. That `PointersFollow` holds for the C++ adapter as well (`FramesPointTo`)
is not covered: it has frames of another kind.

`AssemblerProofs` is about the loop of `computeJumpLabels`, for every list that
the emitters can make (`SourcesAssumption`) and every reach of a short jump.
`EveryJumpLands`: when the loop is done, each jump and each word of a jump table
leads to the instruction that carries its label, and a jump that stayed short
fits the 16 bits it is cast to. `LoopAssembles`: the loop makes of the list what
`assemble` does, the operator that stands for it in the code generator, so
that as many passes as there are instructions are always enough. The invariant
(`IInv`) is that the list of a pass lies over what was emitted (`Layout`): there
is an increasing sequence of positions, one for each instruction, at which the
list has either that instruction or an `EXT32` with its word, under the same
label. When the loop is done, one more pass would change nothing, hence every
short distance fits. `InTime` counts: each pass but the last widens a jump, and
the list never has more than two places for an instruction. `Widen` and `Stable` are
recursive functions, of which the prover knows only their defining equation; that
such functions exist (`Recursion`), and that what is preserved along them holds at the
end (`Onward`), is proved from the least element of a set of numbers.

`BitSessionProofs` proves `SizesAgree`, for every size of a byte and of a word
(`BitStreamAssumption`: a byte has more than one bit, a word at least two bytes),
every buffer and every sequence of items: the size stream is where the writer
is, beyond the buffer if the writer overflowed, and refuses what it refuses. The
argument never looks at the bits. `Runs` says of an operation that it moves a
writer on by so many bits, or overflows because the buffer has not got them; it
holds of a bit, of a run of bytes at any position, of each of the three parts of
`writeBits`, and of two operations in turn (`RunsOn`); `Alike`
says of an item that both streams move by the same number of bits, or that both
refuse it. The invariant (`SizeInv`) adds to `SizeTells` only that the two are streams and that
the writer's buffer keeps its size.

The other three invariants of that run are about the bits: `WriterAlwaysHolds`
(what was written stays, and nothing else is disturbed), `AllReadBack` (a reader
of it returns every item and is where the writer was) and `CutsAlwaysFail` (a reader
of fewer bytes fails with `Eof`, exactly at the first item that is not whole). Assumed of the
constants is `BitSessionAssumption`: bytes are bytes, what is coded is an unsigned
word, and a word has at most as many bytes as a byte has bits (64 = 8 * 8), which is the room
that the first byte of a prefix integer has to count them. `BitStreamProofs` has
the lemmas. No prover here knows an exponent, so that 2^n doubles with n
(`Power`) comes from the number of subsets of a set; a number is its bits (`BitsTell`), and shifting,
masking, or-ing are what they do to single bits. A writer then puts so many bits behind its position
and leaves every other place of the buffer alone (`Puts`), a reader moves over so
many (`Moved`) and has what was there (`Taken`), whatever the operation: one bit, a few, a run
of bytes through shifted words, an alignment. On these rest two theorems of their own,
`GetVarint` and `GetPrefix`: an encoded number that is in the buffer, at any bit, is
decoded to what it was, and the decoder finds its length by itself.

None of the three properties is inductive. `WriterInv` says of each accepted item that its bits
lie in the buffer between the positions before and after it (`Held`), and of
everything at or behind the position that it is as the caller left it. `ReaderInv` says
that the reader's bytes are the first of the writer's, that it has received the items before the one
it is at, that it is at the position the writer had there, and, when it has failed, that the item it
failed at ends beyond its bytes.

`ResourceCache` proves of `getId`, for every table and value, that an id
handed out earlier names the same value afterwards (`IdsStay`) and that no value is
stored twice (`StoredOnceKept`), the two facts that `IdsAreStable` checks along
`generateIR`.

Acyclicity is stated with sets (each nonempty part has a source), the form that
the invariant can carry; `NoModuleImportsItself` proves from it that no chain of
imports of whatever length comes back to where it began.

Only model-checked:

* liveness (`CallReturns`, `Assembles`, `RunEnds`, `EveryRunEnds`,
  `CompilerEnds`), which needs fairness and ENABLED;
* the compiler as a whole, the directives, the C++ objects, which documents fit, and
  what stands for them on a wire, hence the contract of the codecs: they are defined by
  recursion over schemas, types and documents, in modules with RECURSIVE
  operators. So are `FramesPointTo`, since the objects that an emplace or a resize
  makes are built by recursion over types, and `WrittenIsPrefix` and `FittingComeBack`,
  which compare with the layout and with what fits;
* that generated programs are nested (`GeneratedNested`), which the theorems about the
  machine and the JSON adapters assume of the programs they are about.

## 5. Not modelled, and the plan

Left out of what is modelled:

* a failing write of an output: the streams are never looked at after they were
  written (`CppBackend.cpp:491`), so that exit code 0 would say less;
* errors that only a program far beyond any schema meets: a jump distance or an index of more
  than 32 bits in the assembler, the `INTERNAL` errors of the code generator for kinds and widths
  that the IR does not have, a machine started without a program;
* the storage class of an enum: the objects of `cpp_disk` have enums of `int`;
* literals of directives that are not strings (`stoll` and `stod` throw on
  overflow), the options of the command line, the text of the generated code;
* the C++ adapter over bit streams: it meets the same machine there, and the
  codec has its own run;
* wires that another schema wrote, beyond the one skipped field of `json_skip`:
  unknown arms on the wire, cells at random, arrays longer than their maximum;
* schemas that contain themselves, at run time: the machine and the adapters
  nest as deep as the input does (`compile` has one, and its IR is finite).

Not modelled at all: the Boost.Spirit grammar and the disassembler, which keep
no state; the compile-time reflection in `meta`; the serializer, a straight
recursion over IR structs; the journal, which is unfinished and called by
nothing; headers of `pack` that nothing uses.

Worth doing next, in this order:

1. **Evolved and corrupted wires**: readers with other fields or arms and
   arbitrary cells for the disk codec, arbitrary bits for the net codec.
2. **A recursive schema** with a bounded depth.
3. **The serializer** as a codec of the IR, with the tables of `compile`.

Proofs worth having next: that every schema whose routines are short enough for
16-bit jumps gets nested programs, by an induction along the folds of `CodeGen`; and
that a field of a program comes back over the net codec, which the lemmas of
`BitStreamProofs` are enough for.
