# Aer (AerScript): specification, model checking and proofs

This directory holds TLA+ models of the Aer interpreter (`src/engine`,
`src/include`; the engine descends from PH7), the TLC configurations that check
them on small instances, and TLAPS proofs about the models.  `PROJECT.json`
maps every definition to the lines it stands for and lists runs, mutants,
hazards, findings and theorems.

Run a model with `tlc -config X.cfg M`, a proof with `tlapm M.tla`, where M is one
of `VmMemObjProofs`, `ForeachProofs`, `OutputControlProofs`,
`HostProofs`, `HashmapProofs`, `HashmapRefinement`, `StreamsProofs`, `ObjectsProofs`
(`HashmapProofs` takes about nine minutes, `HashmapRefinement` and `ObjectsProofs` four to
six, the others one to three).

## 1. The system

| Part | Source | State | Operations |
|---|---|---|---|
| C interface, engine, life cycle | `engine/api.c` | list of engines, list and count of VMs per engine, magic numbers | init, config, compile, exec, reset, release |
| Lexer, preprocessor | `engine/lexer.c`, `lib/tokenizer.c` | token set | tokenize |
| Compiler | `engine/compiler.c` | byte-code containers, stack of blocks, jump fixups, labels and gotos, literals | one routine per statement; classes; functions |
| Expression parser | `engine/parser.c` | expression tree | precedence passes, tree building, code emission |
| Virtual machine | `engine/vm.c` | frames, object pool, reference table, exception stack, byte-code stack, output buffers, magic number | about 100 instructions, include, callbacks, exceptions, `ob_*` |
| Script arrays | `engine/hashmap.c` | buckets, ordered list, cursor, automatic index, `iRef` | lookup, insert, unlink, grow, sort, copy, iterate |
| Values | `engine/memobj.c` | `ph7_value` | conversions, comparison, store, release |
| Classes and instances | `engine/oop.c` | attributes, methods, bases, `iRef` | inherit, implement, create, release, destructor |
| Libraries | `engine/lib/` | memory pool, `SySet`, `SyHash`, `SyBlob`, PRNG, zip archives | allocation, containers, formatting, dates |
| Built-in functions, VFS | `engine/builtin.c`, `engine/vfs.c`, `engine/constant.c` | stream buffers, open handles | string, date, file functions |
| Extensions | `modules/` | parser state of json and xml | functions of the modules |
| Command line | `sapi/cli/main.c` | none | init, compile, exec, release |

How they interact.  `ph7_compile_*` runs the compiler, which pushes
instructions on the byte-code container the VM points it to
(`PH7_VmEmitInstr`), then `PH7_VmByteCodeExec` runs the `main` method of class
`Program`.  `VmByteCodeExec` calls itself for every script call, every catch and
finally block, every case expression and every default value.  All script values
that outlive an expression live in one pool, `pVm->aMemObj`; frames, arrays
(`hashmap.c`) and instances (`oop.c`) hold indexes into it and share it through
`PH7_ReserveMemObj`, `PH7_VmRefObjInstall`, `PH7_VmRefObjRemove` and
`PH7_VmUnsetMemObj`.  The engine has no threads and no locks; what is hard comes
from re-entrancy (script code run from inside a release, a case expression, a
flush), from recycled indexes and cursors held across such calls, and from
unwinding: `break`, `return`, `goto`, `exit` and exceptions leave several
half-finished activities at once, each cleaned up by a different routine.

What makes each part correct:

* pool, references, frames: an index is handed out to one owner at a time; the
  reference table and its users always know of each other; leaving a frame takes
  nothing away from another one;
* compiler and control flow: the byte code of a statement does what the statement
  means, in the frames its nesting calls for, with the right handlers in place;
* arrays: an ordered map under insertion, deletion, growth and iteration, with
  automatic keys that are fresh;
* expressions: the instructions compute what the precedence table and the order
  of evaluation say;
* classes and objects: what a class answers to is what its declaration and its
  bases say, an instance is released when its last reference goes, and it keeps
  its class through the calls that lend it another one;
* library functions: searches, cuts and joins agree with one another; a handle
  gives every character of its file once;
* memory: a block or chunk has one owner, and what is counted is what is in use;
* output buffers: nothing lost, duplicated or reordered;
* life cycle: lists and counts agree, and each object is released once.

## 2. Modules

### `VmMemObj`: object pool, reference table, frames

`aMemObj`, `aFreeObj`, `slotVal` are the pool; `installed`, `keep`, `aReference`,
`aArrEntries` the `VmRefObj` table; `pFrame`, `kind`, `hVar`, `sLocal`, `sRef` the
frames; `nodeArr`, `nodeSlot` the nodes of arrays; `attr` the attribute slots of
instances, `static` the slot of a static variable; `operand` the lvalue an
expression keeps on the operand stack across a nested call.  The actions are the
instructions and builtins that touch these: `Declare` (OP_DECLARE), `Call`,
`CallByValue`, `CallByRef`, `CallStatic` (the parts of OP_CALL), `EnterBlock`
(OP_LF_START, OP_LOAD_EXCEPTION, finally), `EnterCatch` (VmThrowException),
`LeaveFrame`/`FinishLeave` (VmLeaveFrame), `Load`/`Pop`, `Unset`
(`unset()`), `ArrayInsert`/`ArrayRemove` (hashmap.c), `NewInstance`, `Assign`,
`AssignArray` (OP_NEW, OP_STORE), `ConfigCreate` (PH7_VmConfigure).
`PH7_VmUnsetMemObj` is recursive (it releases arrays and instances, whose
elements are unset in turn); `todo` holds the calls still to be made and
`UnsetMemObj` makes one.

Abstractions: a frame or hash entry is identified with its place in the frame
stack; the free list is a bag (any free slot may be reused; the code pops the
latest); a value is the container it refers to; one attribute per instance, one
static variable; destructors do not run.

### `VmMemObjProofs`: theorems of `VmMemObj`

The inductive invariants, one lemma per action, and the theorems of section 5.  The
second half is about scripts that unset nothing and store over no reference to an
instance (`pure`).

### `CodeGen`: the code of statements

The generator state `ph7_gen_state`: containers, block stack, fixup tables.
One operator per routine of `compiler.c`: `EnterBlock`, `FetchBlock`,
`NewJumpFixup`, `FixJumps`, `FixGoto`, and `CompileWhile` ... `CompileSwitch`.
Statements are records; expressions are abstracted to the instructions that
matter to control flow.  Jumps are patched by index in the container in use, as
the code does.  Every instruction carries a ghost `nest` saying which loops and
try statements surround it.

### `ScriptSemantics`: what statements mean

A big-step semantics of the same statements, written from the language's
documentation in the comments of `compiler.c`, without byte code.  It is the
abstract specification `VmControl` is checked against.

### `VmControl`: running the code

State: `frames` (pVm->pFrame and its parents with their flags), `acts` (the C
stack of `VmByteCodeExec` activations), `aException`, `pFrame` (per try
statement), `released` (finally blocks whose byte code was released), `out`,
`asked`.  One action per instruction, plus one per way an activation ends:
`EndCatch`, `EndThrowFinally`, `EndPopFinally` are the parts of
`VmThrowException` and `VmExecFinallyBlock` after their `VmLocalExec`, `EndCall`
the part of OP_CALL after the body.  Conditions, case comparisons and foreach
steps are answered nondeterministically; `asked` records the answers so that the
semantics can be run on the same ones.  Where OP_CALL reads the flags of a frame
that was released meanwhile, either value is possible.

### `Hashmap`, `HashmapProofs`, `HashmapRefinement`: one array, link by link

A `ph7_hashmap` is the record `h`: its live nodes with their four links, the
buckets, `pFirst`, `pLast`, `pCur`, `nSize`, `nEntry`, `iNextIdx`.  The operators
carry the names of the routines of `hashmap.c`: `HashmapNodeLink`,
`PH7_HashmapUnlinkNode`, `HashmapGrowBucket`, `HashmapInsert`,
`HashmapRehashIntNode`, `HashmapMergeSort`, `PH7_HashmapDup`; the actions are the
builtins and instructions that change the array.  The allocation of a bucket
array may fail where the code asks for one.  A node that was freed is no longer
in the domain of `h.node`, so that following a link to it is an error of the run.
The union and the reversal that preserves keys insert integer keys without moving
the automatic index; `IndexBehind` keeps the script to keys below it (observation 6).
`HashmapProofs` has the theorems about the links, `HashmapRefinement` the one about
the map they make.

### `ArrayCursor`, `OrderedMap`: what a script sees

`ArrayCursor` is the sequence of entries with the position of the internal
cursor, counted from the end, and what each operation does to it.  `OrderedMap`
adds keys and the automatic index.  `Hashmap` implements `OrderedMap`
(`ImplementsMap`, under the mapping `AbstractMap`); `Foreach` is built on
`ArrayCursor`.  So the loop is modelled over the operations that the pointer
structure is shown to have.

### `Foreach`, `ForeachProofs`: loops over arrays

`Start`, `Yield`, `Finish` and `Stray` are OP_FOREACH_INIT and the outcomes of
OP_FOREACH_STEP; `Leave` is a break, a return or an exception.  Between them the
script creates and drops arrays, inserts, removes, and moves cursors.  A loop
finds its array in `pMap` of its statement and its place in the cursor of the
array; `iRef` counts variables and loops.  The fields `seen`, `start` and `lost`
of a loop are history variables: `lost` marks the loops whose array or cursor
something else took (a builtin, a second loop over the array, a recursive
call through the statement), which the code does not protect.

### `OutputControl`, `OutputControlProofs`: output buffers, filters, shutdown callbacks

One VM: the installed consumer and the one `ob_start` saved, the stack `aOB`, the
activations of `VmObConsumer` whose filter is still running (`filters`), the
shutdown callbacks and the loop over them, `nMagic`.  The n-th print writes the
chunk n.  A filter is script code: between `VmObConsumer`'s two halves the script
can print, open, flush, clean and end buffers.  `disturbed` notes what a script
did that gives up order or integrity; the properties say what remains.
`OutputControlProofs` has the theorems.

### `DList`, `Engine`: library, engines, VMs

`DList` is `MACRO_LD_PUSH` and `MACRO_LD_REMOVE`; `HostProofs` shows what they do
to a list of any length.  `Engine` has the list of
engines, the list of VMs of each, both counts, the state (`nMagic`) of each VM and
one action per function of the interface that changes them, failures included;
`Released`, `Strays` are the counted walk of `EngineRelease`.  `misused` notes the
engines for which the host made one of the two calls that the interface accepts
and that set count and list apart.

### `MemBackend`, `Host`, `HostProofs`: where the memory comes from

A backend's list of blocks, its pool of chunks (`apPool`, per size), the account
all backends share (`nSize`, `nLimit`), allocation, reallocation, release, and the
failure of each.  `held` is what the owners have.  Sizes are counted in units of
the smallest chunk.  `Host` puts `Engine` and `MemBackend` beside each other in one
run; they share no state in the model.  `HostProofs` has the theorems about both.

### `Values`, `ArrayLib`, `ArrayCalls`: values and the array functions

`Values` has the conversions, the comparison, the addition and the typed stores of
`memobj.c`.  `ArrayLib` has one operator per array function, over arrays as
sequences of entries (what `Hashmap` is shown to give a script).  `ArrayCalls` is a
script with two arrays that calls them in any order; the comparison function a
script passes to `usort` answers anything.

### `ExprTree`, `ExprCode`, `Operators`, `Expressions`: expressions

The passes of `parser.c` that turn tokens into a tree, the emission of code in
`compiler.c`, the instructions that compute in `vm.c` with the index (`nIdx`) every
operand carries.  `Expressions` executes one expression after its declarations and
has the reference meaning: it cuts the tokens at the operator that binds least and
evaluates the pieces, with no tree, instruction or stack.

### `Classes`, `ClassQueries`, `Objects`, `ObjectsProofs`: classes and instances

`Classes` is the class table: what the compiler collects, and what `CLASS_INIT`
and `INTERFACE_INIT` copy from the bases, with the tables' order (newest first).
`ClassQueries` answers `is`, `method_exists`, `get_object_vars`, comparison and the
like.  `Objects` first links the declarations of a program, then runs it: `control`
is the C and script stack, so that a destructor, a nested call or a release in
between is a sequence of steps others can follow.  `ObjectsProofs` has the theorems
about counts and lent classes.

### `TextLib`, `PathLib`, `TextCalls`, `Streams`, `Library`: texts and files

`TextLib` and `PathLib` have one operator per function of `builtin.c` and of the path
part of `vfs.c`.  `TextCalls` adds those that join texts, applies them all to a text, and
runs nested loops over `strtok`, whose state outlives a call.  `Streams` has files and handles: the
position of the device, the buffer that was read ahead, the modes, and the
functions that read, write, seek and truncate; `StreamsProofs` has the theorems about
them.  `Library` is a script that does the one or the other: the two share no state.

`MCVmMemObj`, `MCVmControl`, `MCHashmap`, `MCForeach`, `MCOutputControl`, `MCEngine`,
`MCArrayCalls`, `MCExpressions`, `MCObjects` and `MCLibrary` instantiate the models;
`MCVmControl`, `MCExpressions` and `MCObjects` build the programs.

## 3. Runs

| Run | Question | Result |
|---|---|---|
| `frames` | calls, blocks, references and static variables over three frames | holds |
| `containers` | shared, overwritten, nested and released arrays and instances | holds |
| `control` | 264 programs: output, frames, handlers, termination | holds |
| `hashmap` | list, chains, keys, and an ordered map to the script | holds |
| `foreach` | every entry once, and the array outlives the loop | holds |
| `output` | prints, buffers, filters and shutdown callbacks in two executions | holds |
| `engine` | engines and VMs in any order of calls; memory under them | holds |
| `arrays` | array functions in any order on two arrays | holds |
| `expressions` | is the value of an expression what its text says? | holds |
| `objects` | class declarations in any order; object statements in any order | holds |
| `library` | string functions, nested `strtok` loops, two handles on a file | holds |
| `object_compare` | are objects that compare equal equal? | violated |

### Properties

Frames and pool.  `FreeListSound`: no index is free twice or free while in use.
`NodesBacked`, `SymbolsBacked`: the reference table and the array nodes and
symbol-table entries it names agree.  `PureBindingsLive`, `PureLeaveKeepsOuter`: a
script that unsets nothing and stores over no reference to an instance never loses
a variable, an operand or an element of another frame (observations 1 and 18 show
why each of the two is excluded).

Control flow.  `FramesMatch`: every print runs in exactly the frames its nesting
calls for.  `HandlersMatch`: `aException` holds exactly the try statements around
the running code.  `Conforms`: output and ending are those of `ScriptSemantics`.
`Terminates`: with finitely many conditions that hold, the program ends.

Arrays and loops.  `ListIntact`, `ChainsIntact`: the doubly linked list and the
collision chains of an array are whole after every operation (the traversals count
to `nEntry` and never test a link).  `KeysUnique`: a key names one entry.
`ImplementsMap`: every step of `Hashmap` is a step of `OrderedMap` or leaves it
unchanged (the mapping does not say which operation of the map it is).
`OwnsArray`, `VisitsOnce`, `VisitsAll`: a loop that nothing disturbs keeps its array
alive, visits no entry twice and passes over none that was there at its start.
`ComparesRight` and `NothingLost` of `ArrayCalls`: `array_diff`, `array_intersect`
and their kin select what a definition over sets of entries selects; what
`array_splice`, `array_slice`, `array_chunk`, `array_keys`, `array_values`,
`array_combine`, `array_reverse`, the sorts and `array_pad` take apart or put
together is all there.

Output.  `ConsumerHasBuffer`: `VmObConsumer` is installed only while there is a
buffer, with a real consumer behind it.  `NothingLost`: no chunk is
written twice, or after it was dropped; and unless a filter opens or closes buffers,
every chunk printed is delivered, buffered, being filtered, or was dropped.  `InOrder`: with nothing in `disturbed`, chunks keep the
order of the prints across consumer and buffers.  `ShutdownInOrder`: shutdown
callbacks run once, in order of registration, all that the main program registered.

Life cycle and memory.  `ListsLinked`: the lists link exactly what is allocated and
compiled, and the counts are their lengths.  `WalksEnd`: a release walks its list to
the end and no further.  `OneOwner`: a unit of memory is held once or free once, in
a block its own backend frees.  `BlocksTracked`: every allocated block is in one
list, and counted.  `LimitHonoured`: nothing is allocated or grown while the blocks
together would pass the configured limit.

Expressions.  `ValueAsRead`: value, variables and failure of an executed expression
are those of the reference meaning, and one operand is left on the stack.

Objects.  `RefsCounted`: `iRef` is the number of references that exist, `$this`,
`$parent` and operands among them.  `ClassRestored`: an instance is of the class it
was created from, or of the class of the innermost of its methods that runs.
`MethodsInherited`: a class answers a method name with the declaration a reader
finds: its own, or the public or protected one of the first base that has or inherits
one; names a class above declares private are left out (observation 19).
`MembersAgree`, `KindsAgree`: the class functions agree with calls, reads and
declarations; of `is_subclass_of`, that an interface a class lists is found and that
classes with nothing above them in common are not, and nothing of a class and its
base (observation 14).

Texts and files.  `CallsAgree`: searches agree with each other and with prefixes and
suffixes; what is split, encoded or quoted is restored; paths taken apart go
together; patterns match their language (`TextsAgree`); the lines `file()` gives make up
the file, and `fgetcsv` reads a row as it was written (`LinesAgree`).  Where the
code does otherwise (observations 15 and 17) the case is left out and neither outcome
required: `strrpos` when the only place is 0, empty pieces, the mark of `nl2br`,
a second place in `strtr` with an array, a set behind a star, rows with empty or
enclosed fields.  `TokensInOrder`: each `strtok` loop gets
the words of its own text, in order, to the end.  `ReadsInOrder`: what a handle
has given since its last move, and holds in its buffer, is the part of the file
its device went over.  `SeesTheRest`: each way to read begins at the first unread
character, the end is reported when nothing is left, and what reads a file at once gives
all that was asked for.

### Bounds

`VmMemObj`: three or four slots let one be freed, recycled for another owner and
freed again while a stale index is around, the shortest such story; three frames
give a caller, a callee and a block between them; two arrays and an instance give
shared and nested containers.  Slots, names, nodes and arrays are symmetric:
nothing orders them.  `VmControl`: two nested loops of every kind with every jump,
switches with up to three cases, one or two try statements with up to two catch
blocks, calls one or two deep; four answers that may be true, so a loop runs twice
inside a loop that runs twice.  `Hashmap`: three nodes give a first, a middle and a
last one; the table starts with one bucket instead of 16 and a fill factor of 2
instead of 3, so that it grows with entries in it; the hashes collide before and
after the growth; five integer keys, one negative, run into the automatic index
from both sides.  `Foreach`: two loops, nested, or one left early and its count
leaked; two arrays; three elements, so that an entry can be removed behind, at and
ahead of the cursor.

`OutputControl`: three prints, two buffers, two filters inside each other: a filter
prints in a buffer whose own filter prints.  `aOB` starts with one entry
instead of 8, so that the second buffer moves it; two executions leave a buffer
from one to the other; two shutdown callbacks, one registered by the other.
`Engine`: two engines; three VMs, so that the list of one engine has a
middle; a fourth initialisation reuses an address.  `MemBackend`: one backend and
a child, three blocks, two sizes of chunks of which a block gives several, requests
for a small chunk, a large one and a whole block, a limit that two blocks reach.

`ArrayCalls`: three entries together, offsets and lengths one past both ends; keys
and values are numbers, and texts that are and are not numbers.  `Expressions`:
every operator between two operands of sixteen kinds, and three operands
with two of eleven operators, nearly one per level of precedence; integers have 8
bits, so that shifts and products overflow (the code's have 64); numerals end at 20.
`Objects`: 74 orders of declarations with up to two bases, interfaces, overloads,
attribute redeclarations; two programs with three instances, three running methods,
one variable.  Two bases have a public method of one name, one of them inherited
itself, so that the order of the bases decides; `NamePrefixes` says which attribute name is the beginning of another.
`MaxNest` (31) is the code's, `MaxCompared` ends a comparison that does not end.
`Library`: texts of up to three characters over the alphabets {a, A, space},
{a, quotes, &}, {a, slash, point}; two `strtok` loops with two masks; files of four
characters, enough for a row of two fields, written as that row, as a line end with a
character, or cut to a prefix; read-ahead of one by `feof` and of two by the line
reader instead of 4096 and 8192, one handle that reads and one that writes.

Deadlock is checked in `control` and `hashmap`.  The other runs stop when the slots,
calls, prints or addresses of the instance are used up, or when the program has
ended, and disable it.

### Fairness

`VmControl` assumes weak fairness of `Next`: one thread executes the instruction
`pc` points to and nothing blocks.  The only other assumption of `Terminates` is the
bound on true answers.  The other specifications state safety only: what a script or
a host does next is its own choice, so nothing is promised to happen.

### What the passing runs exclude

`frames` and `containers` exclude no script of the modelled kind.  The other runs
leave out what the code does otherwise (section 4), since a run stops at the
first violation: `control` the shapes of observations 2 to 5 and the cases after
them; `hashmap` given keys beyond the automatic index; `foreach` loops whose cursor
something else has moved (`lost`); `output` what `disturbed` names; `engine` engines
the host has misused; `arrays` the chunk, splice and difference cases of
observation 11; `expressions` the forms listed in section 6; `objects` inherited
names that a class above declares private, and `is_subclass_of` of a class and its base;
`library` the text, pattern and table cases of observations 15 and 17, an inner
`strtok` loop over a one-word text and what a handle reads after a write.

The control programs, and the cases they exclude, were run with the interpreter
built from `src/`, and so were samples of the class, expression, array, text and file
models: the outputs agree with what the models predict (`foreach`, whose steps
cannot be answered from outside, was not compared this way).

## 4. Findings and observations

Finding (`object_compare`): `$a == $b` walks both attribute tables with the cursor
kept in the table.  If both objects refer to a third that refers back, the
inner comparison moves the cursor of the outer one, which ends early and answers
"equal" though an attribute differs; with the operands exchanged it answers
"different".

Observed while modelling; the model has the same behaviour, and the properties
exclude it where they would be about it.

Frames, control flow, arrays:

1. `unset()` of a local leaves its index in `sLocal`; if the slot is reused,
   leaving the frame destroys another variable.
2. A variable declared in a try block is created in the exception frame, which
   lookups skip.
3. A switch with cases in a loop, or `new` of a class with attribute defaults there,
   leaves the frame of the iteration; `return;` in a loop, a goto out of two loops,
   and `return` or `break` out of a try or catch block leave a frame or a handler
   too many or too few.
4. Only the innermost try statement is searched for a handler.
5. A finally block runs once per program run after a catch.
6. Union and `array_reverse($a, true)` do not move the automatic index; a later
   `$a[] = ...` makes a second entry with an existing key.
7. A foreach inside a foreach over the same array resets the outer one, which
   then never ends.

Output and memory:

8. Buffers still open at the end of an execution are not flushed; the next execution
   of the VM finds them.
9. The account of memory in use never gives back what a failed allocation or a
   released backend (so: a released VM) had counted, so a limit is reached early.
   `MemBackendRealloc` and `MemBackendFree` read the size before the block also with
   allocators the host brings, and `SyMemBackendPoolRealloc`, which nothing
   calls, returns the header's address for a big block.

Expressions and array functions:

10. The comma operator crashes the compiler; `f(($m[0]),2)` is split at the wrong
    place and `f((g(1)))` is refused; `$a + 1 += 2` stores into `$a`; `1 + $m` with a
    mixed `$m` is an int, `$m + 1` is mixed; `float $f = $m` makes `$f` mixed;
    `$m[7] ?? 5` inserts an element; assigning an `int[]` to a `float[]` converts the
    shared array in place, and `$a += $b` loses the element type.
11. `array_chunk` loses the last chunk if it is full; `array_filter` without a
    callback keeps nothing; `array_keys($a, x)` nulls entries of `$a`; `array_splice`
    with a text key the array has already makes a second entry;
    `array_diff_assoc` looks at the first entry with the value only.

Classes and objects:

12. `clone $this` in an inherited method takes the class lent to the call; storing
    `$this` in a destructor does not save the instance; `(new B())->f()` with an
    inherited `f` never runs `B`'s destructor; comparing an uninitialised `object`
    attribute crashes; a cyclic comparison stops at nesting 31.
13. Calls from a base's method are not virtual; `$this->m()` finds the first base's
    method and `$parent->m()` the last one's; an overload in a subclass hides those of
    the base; attribute names are matched by prefix in three places (`oop.c:175`,
    `vm.c:4122`, `vm.c:4137`).
14. `is` ignores interfaces inherited by interfaces and follows only the first base
    above the direct ones (and never returns on a cycle of bases); the arguments of
    `is_subclass_of` are exchanged (it looks for the first class and its bases among
    the bases of the second): it is true of a base and a class that extends it, and of
    two classes with a base in common, and false of a class and its base, against
    `vm.c:6043`; `get_object_vars` lists a base's private attributes; a redeclared
    attribute has the base's value in `(array)$o`.

Texts and files:

15. `stripslashes` never returns on a backslash before an ordinary character;
    `strrpos` never finds position 0; `rtrim` and `trim` with a list give "" when one
    character is left; `explode`, `implode` and the csv functions drop empty pieces; `strtr` with
    an array replaces only the first place of each key;
    `nl2br` has its flag exchanged; `substr` and `strpos` fall back to other
    offsets at the ends.
16. `strtok` over a text of one word keeps nothing: inside another loop, the next
    call takes the outer loop's words.
17. `ftell` and `SEEK_CUR` count from the place of the device, ahead of the script;
    writing keeps the buffer of what was read; `copy(f, f)` empties the file and
    `copy` answers TRUE if a write fails; `fpassthru` prints the beginning again
    for each further 8192 characters; `"rb+"` does not write; `fputcsv` does not
    double quotes inside a field and `fgetcsv` keeps the closing one of the last;
    `basename("/a")` is "/a"; a bracket after a star in a pattern never matches.

Frames, once more:

18. `OP_MEMBER` leaves the slot of the attribute on the operand and gives back its
    reference to the instance.  If a call later in the same expression stores over
    the last variable that holds the object, the slot is freed, and may have been
    reused, when the assignment writes to it.

Classes, once more:

19. `PH7_ClassInherit` copies the private methods of a base like the others
    (`oop.c:272`), where its comment says that a class inherits the public and protected
    ones (`oop.c:207`).  So a private method of the first base answers for a class
    that inherits a public one of that name from a later base, and hides it.

## 5. Proofs

`VmMemObjProofs` proves, for any finite or infinite sets of slots, names, nodes,
arrays and instances and any depth of frames, from `MemObjAssumption` alone (Nil
is no slot or container, arrays and instances are disjoint, `MaxFrames` is a
positive natural number):

* `Invariance`: `Spec => []IInv`;
* `TypeCorrect`, `FreeListIsSound`, `NodesAreBacked`, `SymbolsAreBacked`: type
  correctness and the invariants of the runs.

`FreeListSound` is not inductive: that `PH7_VmUnsetMemObj` frees a slot only once
rests on the reference table (`TableSound`: what is installed is allocated and
not free), on the attributes (`AttrSound`: live attributes are distinct, marked
keep and installed), on the pairing of nodes and slots (`NodesPaired`,
`NodesBacked`) and on what frames may hold (`FramesSound`, `SymbolsBacked`).
`IInv` is their conjunction, one lemma per action shows that it is kept, and
`NextInv` combines them.

It proves, from the same assumption, what a script with `pure` relies on:

* `PureInvariance`: `Spec => [](IInv /\ PureInv)`;
* `BindingsAreLive`: `Spec => []PureBindingsLive`;
* `LeaveKeepsOuter`: `Spec => PureLeaveKeepsOuter`, an action property.

Leaving a frame destroys the slots of its locals, and with them what only they hold:
elements, attributes, elements of elements.  That none of this belongs to another
frame is a statement about everything the release will reach, before it has begun.
`Confined` says it without counting: for every depth d there is a set of slots T
that contains the locals of the frames above d, is closed (a container that only
slots of T refer to has its elements and its attribute in T), and contains nothing
that a variable, an operand or a static of the frames up to d names.  `TearDown` is
the step of the release that uses it.  The other conjuncts of `Sheltered` keep it
inductive: free slots refer to nothing (`FreeBlank`), an operand's container is still
in its slot (`OperandsHeld`), a container with parts has a holder (`PartsHeld`), and
the reference table records no entry of an outer frame for a slot on its way out
(`References`).

`ForeachProofs` proves, for any sets of statements, arrays and elements and any
depth of loops, from `ForeachAssumption` (Nil is no array, the builtins are the four
that move the cursor):

* `Invariant`: `Spec => []IInv`;
* `TypeCorrect`, `ArrayOwned`, `VisitedOnce`, `AllVisited`: the invariants of the run.

A loop's claims concern an array that the loops inside it are working on, so
they are not inductive alone.  `InnerApart` closes the gap: as long as a loop is
not lost, no loop inside it has its statement or walks its array, so a step of the
innermost loop leaves the cursors and counts of the outer ones alone.
`EntriesDistinct` is what makes "seen" and "still ahead" exclude each other.  The
lemmas `WithoutCursor`, `ExtendedCursor`, `AdvanceCursor` and `MovedCursor` say what
each operation of `ArrayCursor` does to the entries ahead of the cursor and
behind it, for sequences of any length.

`HostProofs` proves, for any sets of engines and VMs and any number of
initialisations, from `EngineAssumption` (the null pointer is no address):

* `EngineListsLinked`: `Spec => []ListsLinked`;
* `EngineWalksEnd`: `Spec => []WalksEnd`.

That a list links its members both ways is not inductive: a cycle beside the list
links its members, too.  `Holds(l, M, n)` says that there is an order in which the
list goes through the n items of M; `PushHolds` and `RemoveHolds` show that the two
macros keep it, `HoldsLinked` that it gives the links and the length, and
`StepsThrough` that counting n - 1 steps from the head passes M and nothing else.
That last one is an induction along the list, made from a least counterexample
(`LeastNat`, from `WFMin` and the well-foundedness of the naturals).  The theorems
are about `Engine` by itself; the run checks the same formulas with the memory
backends beside it.  The blocks of a backend are such
lists, too.

`HostProofs` also proves, for any backends, any finite set of addresses, any sizes
and requests, from `MemBackendAssumption` (the null pointer is no address, the root
is no child, sizes are natural numbers):

* `MemInvariance`: `MemSpec => []MemInv`; `MemTypeCorrect`;
* `MemBlocksTracked`: `MemSpec => []BlocksTracked`;
* `MemOneOwner`: `MemSpec => []OneOwner`;
* `MemLimitHonoured`: `MemSpec => LimitHonoured`, an action property.

`OneOwner` speaks of units, pieces of memory inside a block, and is not inductive:
two chunks of one pool do not overlap because both were cut from the block at
multiples of the same size.  `InPlace` and `PiecesApart` keep that history: a piece
is at a multiple of its bucket's size in a block big enough for it, or it has the
block for itself, and all pieces of a block are of one bucket.  `Tracked` is the
invariant of `Engine` again, with disjoint lists.  For the limit, `Accounted` says
that the account is never below the sum of the blocks' sizes (it may be above,
observation 9).  That sum is a fold; `TotalOfOne` and `TotalOfLess` show, from a
least set for which it would fail, what changing one summand does to it.

`OutputControlProofs` proves, for any number of prints, buffers, nested filters,
callbacks and executions, from `OutputAssumption` (the stack of buffers starts with
room for one):

* `Invariance`: `Spec => []OutputInv`; `TypeCorrect`;
* `ConsumerIsBuffered`, `ChunksAreKept`, `ChunksAreInOrder`, `ShutdownIsInOrder`: the
  four invariants of the run.

What is printed lies in places, the consumer's at the bottom and one for each buffer
above it; a step appends to a place, empties one, or moves the last behind the
first, and one lemma for each says what that does to the order and to "once".  A
filter that is running holds a chunk that is in no place, and a pointer to the
place it will store it at, which a growth of the stack leaves dangling:
`FiltersInv` says what each filter holds, that no two hold the same, and that the
pointers are good unless a filter opened or closed a buffer.  `ShutdownInv` ties
the loop over the callbacks to the set it walks, which grows while it walks and is
emptied afterwards.

`HashmapProofs` proves, for any finite set of nodes, any interval of integer keys
that has as many as there are nodes, any other keys, any hash, any first size and
fill factor of the table, from `HashmapAssumption` (the null pointer is no node,
sizes and hashes are natural numbers, no blob is an integer, values are integers):

* `Invariance`: `Spec => []IInv`; `TypeCorrect`;
* `EntriesIntact`: `Spec => []ListIntact`;
* `BucketsIntact`: `Spec => []ChainsIntact`;
* `KeysDistinct`: `Spec => []KeysUnique`.

`ListIntact` and `ChainsIntact` say what walks from the heads see, and a walk that
is cut at `nEntry` does not say what a node elsewhere links to, so they are
replaced by what implies them: there is a sequence on which each live node stands
once and whose neighbours are the links of each node (`Strung`, for the entries
`Listed` and for each bucket `Hangs`).  `Whole` puts the two together, `Keyed` ties
the hash of a node to its key, and `Good`, the inductive invariant, adds that no key
has two nodes and that the automatic index is above all integer keys (without
which a keyless insertion would make a second node of a key).  One lemma for each
helper says what it does to the sequences: an item put first or last, or taken out
(`FirstStrung`, `LastStrung`, `OutStrung`).  Growing, renumbering, copying and
sorting pass through states in which one of the two structures is not whole, so
they have invariants of their own: `Hung(m, S)`, the chains of the nodes rehashed so
far, `Fits`, what a copy has of the original so far, `Sewn`, a list whose `pLast` is
still the old one.  That the sort leaves each node once, in the order of the values, is
proved over the merges and the table of lists.  The recursive functions and the folds of the model have a section of lemmas that
gives them a value (`Recursion`, `FoldDefined`), from the well-foundedness of the
naturals, since the library's induction theorems cannot be instantiated.

`HashmapRefinement` proves, from the same assumption,

* `ImplementsOrderedMap`: `Spec => ImplementsMap`: `Hashmap` implements `OrderedMap` under
  the mapping `AbstractMap`.

`View(m)` is that mapping for any array, and `Shows(m, s, l)` says that the nodes of m
are the sequence s and l of them are ahead of the cursor; `ViewShown` gets the view from
it.  Each operation has a lemma that compares the view it leaves with what the operation
of the map does to a record of three fields: insertion, removal, pop and shift, the
cursor (`PutNewView` ... `CursorMoves`); the operations that make a new array
say of it that it is made of copies (`CopiesSeen`), and renumbering that a node gets the
number of integer keys before it as its key.  A sort is compared as a relation: what it
leaves rises (`OrderSeen`), and has the same entries, or as many of each value
(`SameEntrySet`, `SameValueBag`), because both lists go through the same nodes once.
Values are integers because they stand for their places in the order a sort
compares with.  Refusal of a bucket array is a stutter of the map (`InsertView`).  The
mapping does not carry the name of the operation: that `array_pop` does what the
map's `Pop` does is what `StepMapped` goes by, and the theorem says that it does what
some operation of the map does.

`StreamsProofs` proves, for any files, texts, chunk sizes and any number of handles, from
`StreamsAssumption` and `OpeningsAssumption` (chunks are not empty, texts are texts,
files are opened in one of the modes of `fopen`):

* `StreamsReadInOrder`: `StreamSpec => []ReadsInOrder`;
* `StreamsSeeTheRest`: `StreamSpec => []SeesTheRest`.

Each way to read (`fread`, `fgets`, `fgetc`, `feof`, `fpassthru` ...) takes what the
device gives next behind what the handle keeps, and splits the two into what the script
gets and what is kept now; `OrderStep` shows that this carries the order over, whatever
the split.  A line is read in a loop of unknown length: that the loop ends is shown from
the longest file (`DevReadMost`), and that a line is a beginning of what it has read is
all the order needs (`LineReads`).  A write, a truncation, an `fopen` that empties and a
`copy` change a file under the handles that have it open: a handle that has read past the
change is torn off, and says no more; the others see the same beginning
(`OrderKept`).  `StreamInv` adds types, the longest file, and that no handle outlives its
file.  
`SeesTheRest` follows from the same invariant.  What is unread is what the handle keeps
and what is behind its device; `KeptAndRead` says that the two put together by a read are
a beginning of it, whatever the chunks, so `fgetc` and `fread` give one (`ReadsUnread`),
and `feof` moves characters from the one part to the other (`FeofUnread`).  The loop of
the line reader stops when it has a line, as much as was asked for, or when the device
gives no more than before, and then all that is unread has been read (`NoMore`,
`LineUnread`); the first line of a beginning that has one is the first line of the whole
(`LineOfBeginning`).  A file that is read block by block is read to its end:
`WholeFileRead` counts the blocks that are not empty, and goes through them with
`FromOneTo`, which takes the least block for which it fails where induction over the
blocks is meant.  The theorems are about `Streams` by itself; the run checks the same
formulas with the text functions beside them.

`ObjectsProofs` proves, for any programs, any finite sets of variables and instances and
any bound on running methods, from `ObjectsAssumption` (programs are sequences of
declarations, `"x"` is a variable, `$this` and `$parent` are not, 1 is an instance and
Nil is none):

* `InductiveInvariant`: `Spec => []ObjectsInv`;
* `ReferencesCounted`: `Spec => []RefsCounted`;
* `ClassGivenBack`: `Spec => []ClassRestored`;
* `TypeCorrect`: `Spec => []TypeOK`.

`Sound(heap, control, names)` is the part of `ObjectsInv` that says something: heap and
control stack are well formed over the objects that were created, and every live instance
is `Balanced`.  That is two things.  Its count is `HeldIn(control, o)`, a sum over the
items of the stack, plus the number of attributes that refer to it (`CellsTo`).  And it is
`Lent`: `ClassRestored` speaks of the innermost item that lends the object only, so a
return could uncover an item that gives back the wrong class; `Lent` says of every frame
and of every pending restore that the class it will give back is the right one for the
calls below it.

`Sound` has the heap and the stack as parameters, so that an action is shown to keep it
as a composition: the creation of an instance (`Created`), then a frame pushed for its
constructor (`FramePushed`, `MagicKeeps`); a value counted and the item that holds it
pushed (`Counted`); an item done (`TopDone`).  The lemmas they rest on count: a sequence
of values, the variables of a frame, the attributes of the heap, when one of them changes
(`RefsPut`, `VarReplaced`, `CellsChanged`), and what references dropped one by one hold
(`UnrefsHold`).  Linking keeps the class tables well formed (`LinkKeepsTable`), so that
the methods found are methods of the program (`MemberMethodIn`, `OverloadIn`) and the
classes lent are classes.  Nothing is said of an instance whose destructor has begun:
its destructor can leave references to it behind, and what happens then is the
`undefined` outcome of the model.

Only model-checked: `VmControl` (its code is generated by recursive operators, and
`Conforms` compares with a recursive semantics), the array and string functions and
expressions, which compute over data by recursion on it (`LinesAgree`, which folds the
lines of a file with a test that is an operator, among them), and what `Objects` says of
inheritance and of the class functions (`MethodsInherited`, `MembersAgree`,
`KindsAgree`), which compares recursions over the bases of a class.
Liveness and ENABLED are out of the prover's reach.

## 6. Plan and what is not modelled

Next: the pointers into `aMemObj` across a growth of the set (`vm.c:4597`), which need
addresses.

Left out of modelled parts:

* pool and frames: destructors inside a release (they are in `Objects`), aliases of
  `$GLOBALS`, environments of closures;
* control flow: exception handlers, include;
* arrays: exhausted memory outside the bucket arrays, counts of references;
* expressions: the comma operator, member access, `new` and `clone` (in `Objects`),
  closures, arrays of arrays, subtraction of texts, negative shift counts, calls and
  subscripts in parentheses inside the arguments of a call, reals other than halves,
  casts of an array whose cursor moved, local constants, references, `??` on a
  missing element;
* classes: static variables and static calls at run time, initialisers of class
  constants, autoload, `__get`, `__set`, `__call`, checked stores of scalars,
  exceptions out of methods;
* output: the functions that only read the stack of buffers;
* life cycle: registration of foreign functions, values and contexts of the C
  interface, configuration;
* memory: allocators the host brings, mutexes, `SyBlob`, `SyMemBackendPoolRealloc`,
  the release of the library's own backend;
* texts: number formatting, hashes, dates, ini files, constants;
* files: directories, locks, stat, other devices, failures of a device, seeks past
  the end, a handle used after `fclose`.

Not modelled: lexing (`lexer.c`, `lib/tokenizer.c`), formatting and conversion
libraries and the zip reader (`lib/`), all pure functions of characters or bytes;
`SySet` and `SyHash` by themselves (they are sequences and functions to the other
modules; their order and cursors are modelled where the language shows them);
`debug.c`, which changes no state; the extension modules; `sapi/cli`, one of the call
orders `Engine` allows.  `PROJECT.json` lists every part with its status, and every
hazard with the property that covers it or the reason why none does.
