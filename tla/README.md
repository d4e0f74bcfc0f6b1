# Adiar: TLA+ models, model checking and proofs

Adiar (`src/src/adiar/`) is a C++ library for decision diagrams, BDDs and ZDDs, that may
be far larger than main memory. A diagram is a file of nodes, sorted by level. Where other
packages recurse with a memoisation table, Adiar *sweeps* once over its input files and
lets priority queues, sorted by level, carry the recursion requests to the nodes they are
for (time-forward processing). An operation is a top-down sweep that writes the *arcs* of
an unreduced diagram, followed by a bottom-up sweep (*Reduce*) that writes the nodes of
the reduced one.

This directory holds the TLA+ models of the library, the configurations under which TLC
checks them, and the theorems the TLA+ proof system (TLAPS) proves. `PROJECT.json` lists
the components, the runs, which lines of the code each definition stands for, for each
property a plausible bug that the property catches, and the hazards the properties are
aimed at.

The library runs in one thread. What is hard about it is not interleaving but *order*:
several files are read once, in one direction, in step with one or two queues, and a
single element that comes a moment too early or too late is silently lost; *sizes*: every
queue is allocated for a bound computed from meta data that another algorithm wrote; and
*ownership*: files that several handles and streams share and that move half-way.

## 1. Inventory

### 1.1 Data structures

| Component | State | Operations | What is hard |
|---|---|---|---|
| levelized priority queue, `internal/data_structures/levelized_priority_queue.h` | ring of buckets (one sorter for each level ahead) with the level of each, a merged stream of the levels not yet in the ring, an overflow queue, one element taken out of the front bucket, one cached by `top()`, a count | `push`, `top`, `pull`, `setup_next_level(stop)` | three places for the elements of one level; buckets are recycled and relabelled on the word of a count; the stop level may be known or not, ahead of everything or behind |
| level merger, `level_merger.h` | a level stream per input | `hook`, `peek`, `pull` | a level that several files share comes once |
| sorter, priority queue, stack | an array, or a TPIE structure | `push`, `sort`, `pull`, `reset` | phases: a sorter takes no element once sorted |

Correct: a levelized queue is a priority queue by level, of which only the current level
can be pulled, and which moves on to the next level that has something, or to the stop.

### 1.2 Data and files

| Component | State | Operations | What is hard |
|---|---|---|---|
| pointers, nodes, arcs, requests, `internal/data_types/` | a 64-bit word: level, identifier, out-index, flag; terminals above all nodes, nil above all | comparison, `flag`, `essential`, negation, shift | one order on raw words serves every queue; flags and out-indices must be stripped where they do not belong |
| file and writer of nodes, `io/node_file.h`, `io/node_ofstream.h` | nodes, level infos, canonicity flags, counts of terminals, width, 1- and 2-level cuts of four kinds; the writer's counters | `push`, the `unsafe_*` functions, `close` | cuts are over-approximated from long and short arcs; flags decide whether equality is tested node by node |
| file, writer, reader of arcs, `io/arc_*.h` | internal arcs, terminal arcs in order and out of order, level infos | `push`, `close`, `pull_terminal` | terminal arcs out of order are kept apart, sorted, and merged back in |
| handles, `internal/dd.h`, `io/node_ifstream.h`, `io/node_raccess.h` | a shared file, negation, shift | reading, meta data, random access to a level | negation and shift are applied lazily, everywhere |
| files and persistence, `io/file.h`, `io/levelized_file.h`, `io/shared_file_ptr.h` | paths, temporary or persistent, reference count | `touch`, `copy`, `sort`, `move`, `make_persistent`, opening by a prefix, deletion | several files make one diagram and are moved one at a time |
| streams, `io/ifstream.h`, `io/ofstream.h` | a share in the file, the read head, one element looked at | `open`, `push`, `peek`, `pull`, `seek`, `reset`, `close` | the looked-at element is past the head; backwards too |

Correct: meta data that other algorithms rely on is sound: cuts bound the true cuts, counts
are exact, flags are only set on canonical files. A diagram's content lasts as long as
somebody refers to it, and a persistent one beyond that; a reader is a cursor.

### 1.3 Algorithms

| Component | State | What is hard |
|---|---|---|
| builder, `builder.h` | a file being written, a count of unreferenced nodes, phases; pointers with a shared cell | pointers outlive their phase; the roots are only counted |
| reduce, `algorithms/reduce.h` | two arc streams, a queue, two mappings of old to new uids, cuts | both arcs of a node must meet, the mappings and the internal arcs must stay in step, arcs rerouted by the first rule make earlier cuts wrong |
| product construction, `algorithms/prod2.h`, `bdd/apply.cpp`, `zdd/binop.cpp` | two node streams, a queue across levels, one within a level | a pair of nodes may not be at hand at once; one is passed and its children carried; bounds on both queues; operands change places |
| nested sweeping, `algorithms/nested_sweeping.h` | an outer bottom-up sweep, its queue, the requests of inner sweeps | an inner sweep top-down and then bottom-up for some levels of the outer one; arcs of both share queues, told apart by a flag |
| quantification and projection, `algorithms/quantify.h` | requests with one or two targets; partial or nested | repeated transposition, when to stop, which variant |
| selection, `algorithms/select.h` | requests with one target | levels that are fixed are skipped; their arcs are bridged one by one |
| interspersed levels, `algorithms/intercut.h`, `convert.h` | requests, levels to be added | levels that no input has; terminals below them |
| replacement, `algorithms/replace.h`, `bdd/replace.cpp` | a map of levels, its type | a shift or a monotone map only renames, and within Reduce or a nested sweep; flags and cuts are copied |
| if-then-else, `bdd/if_then_else.cpp` | three streams, a queue across levels, two within | two carried pairs of children; three files with separate levels are concatenated |
| relational product, `bdd/relprod.cpp` | a composition | a product that prunes, then nested sweeping that renames on the way |
| comparison, `algorithms/pred.h`, `pred.cpp` | as the product construction, without output | shortcuts on meta data; the fast test relies on the canonicity flags |
| counting, optimisation, evaluation, `algorithms/count.h`, `optmin.h`, `traverse.h` | sums over in-going arcs; the best path so far; a path | in-order accumulation over skipped levels; what is left unread |
| basic diagrams, `algorithms/build.h` | the writer only | cuts and counts given by formulas |

Correct: the result denotes the right function; its file is in the form the next algorithm
needs; no queue outgrows its allocation; no stream passes a node still wanted.

### 1.4 How the parts interact

    builder ── push ──▶ node writer ──▶ node file ◀── reads ── handle (negate, shift)
                                            │                     │
                        levels of the files │                     ▼ nodes, cuts
                     level merger ──▶ levelized queue ◀──▶ product construction, ...
                                            ▲                     │ arcs
                                            │                     ▼
                     node writer ◀── nodes ── reduce ◀── arc file ◀── arc writer

Calls are synchronous. State is shared only through files: once written, a file never
changes (but for an explicit `sort` or `move`), and is deleted with the last handle or
stream that refers to it, unless it is persistent. The contract between two algorithms is the
file with its meta data; the contract between an algorithm and a queue is
`LevelizedQueue`.

### 1.5 What is hard to test

`PROJECT.json` lists the hazards by line. By kind: elements of one level that lie in
several places (queue, Reduce, product construction); counts and flags that stand for a
property of the whole structure (`size() == overflow.size()`, `unref_nodes`, the
canonicity flags); bounds computed elsewhere (cuts); calls legal each but not together
(builder after a failed build, look-ahead of three, labels above the root); a call that
fails half-way (a move); and edges (stop levels, empty files, inputs and results that are
terminals).

## 2. Modules

| Module | Models | Used by |
|---|---|---|
| `LevelizedQueue` | what a levelized priority queue promises | `LevelizedPQ`, `UnbucketedPQ`, `Reduce` |
| `LevelizedPQ` | the bucketed queue | `SweepQueues` |
| `UnbucketedPQ` | the queue without buckets (`LookAhead = 0`) | `SweepQueues` |
| `LevelMerger` | the merge of level files: the constant `Stream` of `LevelizedPQ` | `SweepQueues` |
| `SweepQueues` | the three side by side, as the execution policy chooses among them | |
| `DecisionDiagram` | pointers, nodes, reduction rules; denotation, canonical diagram and cuts as reference | all below |
| `NodeFile` | node file and writer, an operator per member function; how Reduce counts cuts | `NodeWriter`, `Builder`, `Reduce`, `Handle`, `Quantify` |
| `NodeWriter` | a client of the writer | |
| `ArcFile` | arc file, writer and reader | `Reduce`, `Quantify`, `DoubleInput`, `SingleInput` |
| `Handle` | a diagram as algorithms see it | `DoubleInput`, `SingleInput` |
| `Builder` | the builder and its client | |
| `Reduce` | the bottom-up sweep, renaming levels if asked | |
| `DoubleInput` | what the sweeps over two diagrams share: streams, requests, two queues, the carry | `Prod2`, `Pred` |
| `Prod2` | the binary operators and the type that wraps them; the product construction, the relational product's first part among its policies | `IfThenElse` |
| `IfThenElse` | the sweep over three diagrams, its shortcuts and the concatenation | `ProductSweeps` |
| `Pred` | equality, inclusion, disjointness; predicates on one diagram | `ProductSweeps` |
| `ProductSweeps` | the three, with their properties | |
| `Quantify` | the top-down sweep of quantification and its policies | `NestedSweep` |
| `NestedSweep` | quantification as it is called: repeated, partial, pruned or nested; nested sweeping; the next states of a relation | |
| `SingleInput` | what the sweeps over one diagram share: the queue of arcs, levels, the writer | `Select`, `Intercut`, `Chain` |
| `Select` | the sweep that fixes levels: restrict, and the sets with or without given variables | `SingleSweeps` |
| `Intercut` | the sweep that adds nodes on given levels: expansion, complement, change, conversion | `SingleSweeps` |
| `Chain` | basic diagrams, written bottom-up as a chain | `Replace`, `Count` |
| `Replace` | renaming: the type of a map, shift, monotone copy, refusal | `SingleSweeps` |
| `Count` | paths, satisfying assignments, size of a family; the cheapest assignment | `Traverse`, `SingleSweeps` |
| `Traverse` | evaluation, membership, the extreme assignments and sets | `SingleSweeps` |
| `SingleSweeps` | the operations on one diagram, with their properties | |
| `Files` | files on disk, who refers to them, writers and readers | |
| `DiagramStore` | what the files of a diagram promise | `Files` |
| `Cursor` | what a reader promises | `Files` |
| `SweepQueues_proofs` | theorems about `LevelizedPQ`: the count, the ring, the refinement of `LevelizedQueue`, which the queue without buckets implements too; the merger | |
| `NodeFile_proofs` | lemmas about uids and what a push and a close do; the cuts of a diagram, what a writer counts of them and what it makes of that | `Denotation_proofs` |
| `Denotation_proofs` | what the pointers of a diagram denote; when a diagram is the canonical one | `NodeWriter_proofs`, `Builder_proofs`, `Reduce_proofs` |
| `NodeWriter_proofs` | the counts, the cuts and the flags in the files of `NodeWriter` | |
| `Builder_proofs` | theorems about `Builder` | |
| `Reduce_proofs` | theorems about `Reduce`: its streams stay in step, its use of the queue and the queue's size, the output is canonical | `ReduceMetaData_proofs` |
| `ReduceMetaData_proofs` | its meta data is exact and its cuts sound | |
| `Files_proofs` | theorems about `Files`, which implements `DiagramStore` and `Cursor` | |

### The levelized queue

`LevelizedQueue` has two variables, the elements and the current level, and three actions:
push to a later level, pull a least element of the current level, and advance. `Target`
says where an advance ends.

`LevelizedPQ` has a variable per member of the C++ class (`label` is `_buckets_level`,
`next` is `_next_from_bucket`, `pos` how far the level merger is) and an action per public
function; `setup_next_level` has three outcomes (`SetupStays`, `SetupRelabels`,
`SetupForwards`), the loop of `forward_to_nonempty_bucket` is an action per iteration
(`Forward`) with its early exit (`ForwardStops`). Assertions on the caller are guards:
what the assertions say of the queue itself is a property. Elements that the comparator
cannot tell apart differ in a third field, so that sets serve as multisets, and the choice
among them is left open, as it is in a heap. Levels are numbered in the order of the
comparator, so that the bottom-up sweeps are the same model.

`UnbucketedPQ` is one ordinary queue and a current level. `SweepQueues` composes the two
and the merger: `given` says which of them is at work.

### Diagrams, files, writers

A pointer in `DecisionDiagram` is a number with the bit layout of `ptr_uint64`, of fewer
bits: comparing two pointers compares the raw words, as the code does in every queue and
sorter. The same module has the mathematics the code is held to, which no code computes:
`Denotes` (the set of assignments a pointer stands for), `CanonicalNodesOf` (the one
canonical diagram of a function, identifiers included) and `OneLevelCut`/`TwoLevelCut` (the
true cuts, by going through all of them). `zdd` stands for the template parameter.

A writer in `NodeFile` is a record of `node_ofstream`'s members and those of the file it
is attached to; each operator maps it to the writer after one call. `ArcFile` does the
same for `arc_ofstream`, and defines what Reduce needs of a file:
`IsDiagram` (a diagram with well-formed identifiers, children on later levels and one root)
and `IsSemiTransposed` (its arcs, transposed as far as a top-down sweep can). What every
sweep leaves is checked to meet the second (`OutputCanBeReduced`).
`Handle` wraps the nodes of a file with its negation and shift; it gives the *least* cuts
a writer may have left: a bound that is enough with these is enough with every sound one.

`NodeWriter` and `Builder` add a client that makes every call the class allows, in every
order, with every argument it can hold. `Builder` models the calls that are refused too,
with what they leave behind.

### Sweeps

`Reduce` goes through the phases of `__reduce`: for each level, pull pairs of arcs
(`PullHigh`, `PullLow`, with the first rule), output the nodes with the second rule
(`Output`), forward the merged mappings along the internal arcs (`ForwardArc`,
`NextMapping`), and set up the next level (`EndLevel`). A diagram that is a single node
takes `ReduceSingleNode`. Its queue is a set with the order of the code; `KeepsToTheQueue`
states that it is used as `LevelizedQueue` allows, which the two queue modules implement.

`ProductSweeps` computes one *job*: an operation and up to three handles; the job's name
says whether it is a product, a relational product, an if-then-else or a predicate, and
`algorithm` which of the sweeps runs.

`Prod2`: `Resolved` are the cases without a sweep. `Begin(mode)` starts one with two queues
(`"pq"`) or with random access to one input (`"ra"`); which fits in memory is left open, so
both are checked on every job. All requests for one pair are answered in one action
(`request_foreach`): with random access (`AnswerWithRandomAccess`), in order
(`AnswerInOrder`), or by moving them to the second queue with the children of the node that
is passed (`CarryAcross`). The order of requests for the same pair is by source, as in a
debug build. A ZDD policy may skip a node, and `bdd_relprod` one on a level to quantify of
which a child is true (`SkipTo`, `SkipToTerminals`). The policies of `bdd_apply` and
`zdd_binop` are written side by side, told apart by `zdd`.

`IfThenElse` adds the third input. Requests are triples; the second queue holds those that
carry one pair of children, the third those that carry two, or one for both branches;
whose they are is inferred from the order of the targets, as in the code. The shortcuts
(terminals, equal files) hand over to `Prod2` or return an input; three diagrams with
separate levels are written one after the other (`zipped`), past the sweep.

`Pred` compares: on the meta data, node by node when both files are canonical, or by a
sweep that stops at the first pair that settles it. For equality, the number of pairs on a
level is bounded by that of the first input's nodes.

`Quantify` is one top-down sweep, with random access or with two queues, by the policies of
`bdd_exists`, `bdd_forall`, `zdd_project` and `bdd_relnext` (`op`), the last of which differs
from the first in the cut its queues are sized by; `ResolveRequest` puts up to four pointers
into the canonical form of a request, and with `partial` a node is left where four
stay four. It neither starts nor ends by itself: `Start` sets it up on a diagram, and
`phase` becomes `"terminal"` or `"swept"`. The variable `roots` holds the requests of a
nested sweep, which `down__pq_decorator` merges with its queue (`PqFirst`): they are sorted
with the flags on their targets and read without them.

`NestedSweep` composes it with the two sweeps bottom-up. A *job* is a diagram, the levels to
quantify and the entry point: one level, a predicate by repetition, a predicate by nested
sweeping (after `RepeatPartial` or `StartWithPruning`), an unreduced diagram, a generator by
repetition (`"repeated"`) or by nested sweeping (`"generator"`).
For the next states of a relation (`"next"`, or the arcs of the pruned product) what is left
is renamed by `map` while it is reduced; the levels still to quantify have old labels.
The outer sweep reduces a level (`ReduceLevel`) until the next one to quantify, whose nodes
become requests (`AskFromLevel`); then the inner sweep runs (`StartInner`, the steps of
`Quantify`, `InnerTurns`, `ReduceInnerLevel`, `InnerEnds`), or is put off (`Postpone`), or
nothing is left for it (`Prune`). `Streams` are the arcs and levels a sweep has not read,
with its queue and that queue's level. Both sweeps reduce a level in one step: that pulling
arcs one by one and merging the two mappings comes to the same is what the run `reduce`
shows. What is kept is whatever two sweeps share: which arcs go to the outer queue, the
inner one or the roots, the three places that are counted for a cut (`Crossing`), where the
queue stops (`Advance`), when the file is closed, replaced or a terminal. Nodes with the
same children may differ in their flags; any of them counts (`Representatives`).

`SingleSweeps` computes one *job*, too: an operation on one handle, with labels and what
else it takes: values, a variable, a map, costs, an assignment. `SingleInput` has the state
of the sweeps, the other modules an action for each branch of their loops. All requests for
one target are answered in one step. In `Select` a policy either skips a node, and its
requests go on to a child (`Bridge`), or outputs it with other children; the labels still
ahead decide what the sets with all variables lose (`OnsetLow`, `LosesHigh`). In `Intercut`
requests that end on the current level (`ResolveExisting`) come before those that only cross
it (`ResolveCut`); an arc to a terminal waits in the queue as long as a level ahead is to
cut it (`CutTerminal`). A conversion reads one kind of diagram and writes the other, so that
`zdd` is the kind of the output. The chains that are built when the input is a terminal are
`OnTerminalInput`. `ReducedFile` is the meta data Reduce leaves with a canonical diagram,
which the bound of `Select` is computed from.

`Chain` writes a node per label, from the last to the first, with the policies of
`bdd_and`, `zdd_vars` and the others, and refuses labels that do not descend; the cuts are
the formulas of the code, set past the writer's own. `Replace` finds the type of the map
first: the same file with another shift, a copy node by node with the flags and cuts of the
original, or an exception. `Count` merges the requests for one target with the number of
levels they have passed; the optimisation in `Count` keeps the best path to a true terminal and rebuilds it
from the arcs it wrote; `Traverse` walks from the root along one path.

### Files

`Files` maps paths to contents (`disk`), and has the objects in memory with the path and the
persistence of each of their parts, the user's handles, one writer and one reader. Every
operation that drops a reference ends with `Collect`: objects nobody refers to go, with
those of their files that are temporary. `Move` takes the parts one by one, the level
information first; `MoveFails` stops after any number of them, and may leave a copy behind,
since a move that cannot rename copies and deletes. `MakePersistentAt` moves and persists.
The reader has the head and the element looked at; it reads forwards or backwards.

`DiagramStore` knows contents only: a diagram in memory has one, which changes by appending
and sorting until the diagram has a name, and a name keeps its content for good. `Files`
implements it with `content` being what is at an object's paths, wherever they are
(`ImplementsStore`). `Cursor` has what is still to be read, and the latest element pulled;
the pending element is the first of what is to be read (`ImplementsCursor`).

## 3. Runs

| Run | Instance | What it shows |
|---|---|---|
| `sweep_queues` | 2 buckets (the default), 6 levels of which one is skipped, 7 elements, 5 stop levels; the merger with 3 files over 4 levels | both queues implement `LevelizedQueue` and are drained by a sweep; the ring covers the levels ahead, the count is exact; each level of the files comes once, in order |
| `node_writer` | 3 levels, 2 nodes on all but the first; ZDDs with gaps | cuts, counts and flags of any file the writer closes |
| `builder` | 3 nodes in one phase; 2 nodes in two phases | under legal and illegal calls and every reuse of pointers: nodes are pushed in order with their children in the file, the roots are counted, pointers mean what was asked, what is built has one root, exact counts and sound cuts |
| `reduce` | four families of unreduced diagrams, 4 levels | the output is the canonical diagram, with sound meta data; queue and streams stay in step |
| `product_sweeps` | all pairs over 2 variables for products and predicates, all triples for if-then-else; diagrams with 3 nodes on a level; separate levels; relational products | the result is right and can be reduced, verdicts are right, concatenated files have sound meta data, queues and streams stay within bounds |
| `nested_sweep` | 18 canonical BDDs and as many ZDDs over 4 levels, five sets of levels, every entry; all unreduced diagrams of a shape; relations with interleaved or blocked variables | the result is the quantification of the input, renamed if asked, canonical and with sound meta data; both sweeps stay in step; queues keep to their bounds |
| `single_sweeps` | all functions of 3 variables out of 4, some shifted or negated; up to six sets of labels; all chains of up to 3 labels; six maps, four cost functions | results and answers are the documented ones, in a form other operations can take; what is refused cannot be done |
| `files` | 2 objects of 2 files each, 2 handles, 2 prefixes, 1 failure | the files implement `DiagramStore`, a reader `Cursor`; the parts of a diagram stay in step and none is left behind |
| `zdd_disjoint` | pairs of families of one node | a *violation*: families that share a set are called disjoint |
| `onset_label_above_root` | one variable above the root | a *violation*: sets that lack this variable are kept |
| `complement_of_the_empty_set` | domain of 2 variables | a *violation*: sets are missing |
| `select_queue_bound` | a BDD of 11 nodes, one on each level | a *violation*: nine requests in a queue for eight |

### Bounds, and why they are enough

- `sweep_queues`: the levels are not consecutive, so that a stop level may be unknown; one
  is skipped at the start (`level_skip`); six levels wrap the ring of two buckets around
  twice and leave the merger exhausted; there are two elements on a level that differ in
  their key, two that do not, and levels without elements. Two buckets are what the library
  is built with; that recycled sorters are not handed out in the wrong phase
  (`PushableBucketsAreUnsorted`) is proved for up to three, and fails for four (see below).
- `node_writer`: two nodes on each level below the root are the least for which a 2-level
  cut exceeds all 1-level cuts. `MaxId` is 3; real files have 2^41 identifiers. `CutMax`,
  the largest cut, is out of reach here; the theorems of section 4 hold for any that is
  larger than the number of uids.
- `builder`: three nodes are the least with a diamond or two roots; two phases with two
  nodes in total are enough for a pointer of one phase to be used in the other. `MaxNodes`
  and `MaxPhases` bound a client that could go on forever.
- `reduce`: two nodes over two nodes let both rules and both streams meet on one level; a
  chain under two nodes lets a rerouted arc cross levels counted before; the ZDDs have
  levels left out, single nodes and terminals, and a `map_level` that skips a level; the
  last BDDs are moved up by one level, where identifiers of input and output may meet.
- `product_sweeps`: all functions of two variables, with each class of operator (one that
  shortcuts on one side, on both, on none; commutative or not); negation, a shift by one,
  the same file twice; `MaxId` is large since a product may have many nodes on a level.
  Pairs with three nodes on a level are the least for which a carried pair is asked for when
  its stream has moved past others, and triples of them meet nodes of one level in every
  order. Files numbered the other way around are not canonical, so that equality sweeps.
  Left out: inclusion of families without a node in others on the shortcut of the first
  finding, and of families for which `zdd_ispoint` is wrong (below).
- `nested_sweep`: by the first two variables the canonical diagrams choose among three
  functions of the last two, so that there are up to three nodes on a level, requests for
  two nodes of one level, and arcs that skip the quantified levels; the sets of levels make
  the inner sweep the first, the last, one of several, next to another one and on the last
  level. In relations over two variables the next states are interleaved with the present
  ones or come after all of them, so that renamed and old labels cross. With at most two
  partial sweeps all of partial, repeated and pruned starts occur. The unreduced diagrams
  have redundant and equal nodes on levels above, on and below quantified ones.
- `single_sweeps`: the variables are 0, 2 and 3, so that labels may lie above the root, on a
  level no node is on, on several levels in a row and on the last; all functions include
  both terminals, which take a path of their own. Labels above the root are left out for
  `zdd_onset`, and the family of the empty set and the empty domain for `zdd_complement`:
  these are findings below. `SweepsWithinBounds` states the bound of the queue for the
  operations that only add nodes, `zdd_expand` and `zdd_complement`, and for counting and
  optimisation; where a node may be skipped (`zdd_change` and the conversions) the arcs that
  are bridged over it exceed any multiple of the cut on diagrams far larger than these, as
  in `select_queue_bound`. Costs are small integers. `MetaDataIsSound` leaves out the cuts
  of `zdd_ithvar` and the flags of a renamed negation, of which more is said below.
- `files`: two objects and two handles are the least for sharing, for a copy, and for one
  object opened from what another persisted; one file next to the level information is
  enough for a move to stop half-way (node files have one, arc files three). At most two
  elements are on disk when another is written (`MaxElements`), and a file has an element
  once. A reader is open while no writer is and before a move has failed
  (`ReadsUndisturbed`): it never shares a file with a writer, so that the two only multiply
  the states. Restrictions on the user, as all callers in the repository keep to them: no
  stream is attached to a file that is moved, persisted or sorted; a stream is reset or
  opened again without a pending element; a path another object goes by counts as taken;
  only prefixes that were persisted are opened; a move fails only before an object's first
  successful one.
- `select_queue_bound`: four nodes have an arc to the one that is bridged, and four nodes
  below it an arc to its child; with fewer, the two that the code adds to the cut suffice.

A queue, a merger, a writer and a set of files may simply not be used further, so that their
runs end in states without a successor: `CHECK_DEADLOCK FALSE` is set for those runs only.
`Reduce`, `ProductSweeps`, `NestedSweep` and `SingleSweeps` have an action for being done, so
that a sweep that is stuck is a deadlock TLC reports.

### Fairness

Only `sweep_queues` states a liveness property: `EveryQueueDrains`. The fairness is that of a
sweep's two nested loops (`while (!pq.empty()) { pq.setup_next_level(); while
(!pq.empty_level()) ... pull }`, for instance prod2.h:307-321): a sweep that can set up a
level does, one that can pull does, and the loop inside `setup_next_level` runs. Nothing
is assumed of pushes. All other models are programs that terminate; their deadlock check
and the properties of their last state say that they arrive. In `Files` nothing must
happen: every step is a user's call.

### Findings

1. `zdd_disjoint`: two families that are a single node of the same variable each are
   compared by their children, and are called disjoint when these differ: `{{}, {0}}` and
   `{{0}}` share `{0}`. Larger families take the sweep, which is right.
2. `onset_label_above_root`: `zdd_onset` consumes its labels level by level, from the root
   on, and drops those above. If another label is met later, the sets that lack the dropped
   one stay: the sets in `{{1}}` with both 0 and 1 come out as `{{1}}`, where the
   documentation (zdd.h:927) asks for none.
3. `complement_of_the_empty_set`: the complement of `{{}}` is built as a chain whose last
   node has the children false and true and whose other nodes have their successor twice.
   That is the family of all sets with the last variable; of the powerset of `{0, 1}` the
   set `{0}` is missing. The test expects the same chain.
   The empty domain, too, takes a path of its own, on which a family is its own complement.
4. `select_queue_bound`: the queue of `select` is allocated for the 2-level cut of the input
   and two more. A node with k parents that is bridged over leaves k requests for its child,
   where the input has one arc. What a queue in internal memory does with more than it is
   allocated for is outside the model.

More observations have no run of their own. Where one contradicts a property, the property
or the instance says so by leaving that case out.

- `relabel_buckets` (levelized_priority_queue.h:998-1002) resets the read-only bucket only.
  With four buckets or more, others behind the front are sorted too, and relabelling hands
  one of them out: `sweep_queues` with four buckets violates `PushableBucketsAreUnsorted`,
  and the next push to that bucket fails the assertion of the sorter (sorter.h:105).
  `ADIAR_LPQ_LOOKAHEAD` may be set to such a value (line 53); the default of one is not
  affected.
- The policy with which `bdd_relnext` quantifies is said to be "a one-to-one copy" of that of
  `bdd_exists` (bdd/relprod.cpp:197), but names another cut (line 247): internal arcs and
  those to true, although a request drops arcs to false and collapses at those to true. The
  queues of its inner sweeps are therefore sized otherwise than those of `bdd_exists` for the
  same file. `nested_sweep` checks them against the bound the code computes (`RelnextCut`)
  and finds none too small on its instances.
- `build` (builder.h:425-427) closes the writer before it throws for several roots, and
  keeps the file; the next `add_node` that has to push is refused with `domain_error` until
  `clear` is called (`PushFails` in `Builder`).
- The inner sweep upwards asserts that its queue is at the level it reduces
  (nested_sweeping.h:1476). After a level that leaves arcs for the outer sweep only, the
  epilogue sets up no level, and the one before is still the current one when the next
  level has nothing but terminals: a debug build stops, a release build goes on to the
  right result.
- `zdd_ispoint` (zdd/pred.cpp:46-55) takes every family of one node on a level and one arc to
  true for a point; with a node that has the same child twice, as in `{{1}, {0, 1}}`, it is
  none.
- A monotone renaming copies the flags of the file, although the negated nodes come in
  another order within a level than the flags say (replace.h:155-162, node_file.h:50-81).
- The 2-level cut of concatenated files is the largest of the three files'
  (if_then_else.cpp:104-111); a cut through two files may be larger.
- `zdd_ithvar` over a domain (build.h:117-169) counts an arc to false only on the level where
  it begins; its cut with false terminals is too small for two such arcs.
- `bdd_satcount` and `bdd_pathcount` of a terminal are `1u << n`, an `int`-sized shift
  (bdd/count.cpp:53, 66).
- The queues of an equality test are sized for equal inputs (pred.cpp:29-39), those of
  `zdd_subseteq(A, zdd_empty())` for none.
- `bdd_eval` by a generator that is empty at once reads the default pair (0, false)
  (bdd/evaluate.cpp:64-73). `bdd_optmin` notices a negative cost only where it gets
  (bdd/optmin.cpp:38).
- Files: an object that was moved once keeps its flag for canonical paths when a later move
  fails half-way, so that it can be persisted with its parts under two prefixes, which no
  constructor opens (levelized_file.h:107-108, 427-438). A failed move cannot be repeated
  with the same prefix, as the object's own level information is there by then. Two files
  never written to may be moved to the same prefix. `open()` and `reset()` of a reader leave
  a pending element in place (ifstream.h:164-174). A file that is opened by its prefix has
  no meta data (levelized_file.h:145-164, "TODO").

## 4. Proofs

TLC checks the instances of section 3; the theorems below hold for every value of the
constants. Each is an invariant or a refinement that a run checks too, so that the statement
has met the model before it was proved, and rests on an inductive invariant.

| Component | Theorems | For every |
|---|---|---|
| bucketed queue | `TypeCorrect`, `SizeIsExact`, `BucketsKeepTheirLevel`, `RingIsCovered`, `PushableAreUnsorted` (at most three buckets), `BucketedImplementsQueue` | number of buckets above one, ascending stream of levels, finite set of elements, set of stop levels |
| queue without buckets, merger | `UnbucketedImplementsQueue`, `MergerDelivers`, `BucketedAtWork` | also number of files and of levels in them |
| files and streams | `FilesInvariant`, `PartsStayInStep`, `LeaksNothing`, `FilesImplementStore`, `ReaderImplementsCursor` | number of objects, parts, handles, prefixes, elements and failures |
| writer of nodes | `ClosedFilesAreCounted`, `ClosedFilesHaveSoundCuts`, `ClosedFilesAreCanonical` | number of levels and identifiers, width of a level |
| builder | `UnreferencedAreTheRoots`, `PushesAreOrdered`, `BuildsDiagrams`, `BuildsSoundCuts`, `AnswersMeanWhatWasAsked` | also number of nodes and phases |
| Reduce | `SweepKeepsEveryArc`, `ReduceStaysInSync`, `ReduceQueueWithinCut`, `ReduceKeepsToTheQueue`, `ReducesToCanonical`, `ReducesWithSoundMetaData` | number of levels and identifiers, kind of diagram, `map_level` and diagram with one root |

### Assumptions on the constants

They are stated, named, in the modules that declare the constants, and hold of the code:
there is at least one level and one identifier (`DiagramAssumption`; 2^21 and 2^41,
ptr.h:177, 415), there are fewer uids than the largest cut (`CutAssumption`; fewer than 2^62,
and 2^64 - 1, cut.h:37), a builder does not run out of
identifiers on a level (`BoundsAssumption` of `Builder`, where 2^41 are enough for any
file), temporary paths are no canonical ones and no object is the null pointer
(`NamesAssumption`; a temporary name is made up by TPIE), the levels given to a queue ascend.
What is reduced is a diagram with one root, and `map_level` keeps the order of its levels
(`JobsAssumption`). The last part of that assumption, `KeepsApart`, came out of the proof of
`ReducesToCanonical`: `reduction_rule` says "not redundant" by answering with the uid of the
node itself (reduce.h:311-312), so that a child in the output must not have this uid. Where
`map_level` moves a level up to where the input had another, it could, if the sweeps did not
number nodes from 0 up and Reduce from `MaxId` down: with two identifiers to a level TLC finds
a node that is taken for redundant, with 2^41 a level would have to be half full.
`PushableAreUnsorted` assumes at most three buckets. The library has two
(`ADIAR_LPQ_LOOKAHEAD` is 1 unless redefined); with four the property fails, as TLC shows.

### The bucketed queue

None of the first three properties is inductive. Recycling the front bucket loses elements
unless that bucket is spent, and it is, because `setup_next_level` is only called on an
empty level and the element taken from the bucket belongs to the current level; relabelling
loses elements unless all buckets are empty, and they are, because the count is exact. So
`IInv` joins the three with `FrontIsSpent` (nothing taken from the front bucket means
nothing left in it), `NextIsCurrent` (the element taken is of the current level, and there
is none while `forward_to_nonempty_bucket` runs), `OutTogether` (without buckets there is no
front bucket) and `ForwardsAtLeastOnce` (the stop level cannot end the loop before there is a
front bucket).

`RingInv` adds where the ring has got to: labels ascend around it and stay behind what the
merger has left (`RingAscends`), lie ahead of the front bucket's level (`RingIsAhead`), the
front bucket's level is known, and the current one unless the queue is moving on (`FrontIsKnown`), and
the ring is only short of a bucket when the merger is exhausted (`RingIsFull`). From it the
ring and the rest of the stream are, as sequences, the levels ahead.

`ContentInv` adds where elements may be: only in the front bucket or in those that can be
pushed to, nothing in the overflow queue behind the current level, the cached element least,
and, while the queue moves on, a bucket with an element to be found at or before the stop
level (`ForwardFinds`). With all three every push is a push of `LevelizedQueue`, every pull
takes out a least element of the current level, wherever of the three places it was in, and
the iterations of `forward_to_nonempty_bucket` are stutters but for the last, which ends at
the level `LevelizedQueue` says.

### The queue without buckets and the merger

`HeapInv`: nothing in the queue is behind its level. `MergerInv`: what is left of each file
ascends, and what was pulled, with what is left, is the union; that a level in several
files comes once is because `pull` takes it from all of them.

### Files

`FilesInv` is in two halves. `StoreInv`, of the objects and the disk: every path is the
object's own or canonical for some prefix, two objects only share a path when both are
persistent, an object with the flag for canonical paths has them at one prefix and what is
persistent has the flag, a temporary path is on disk only for its object, and the parts are
in step. `UsersInv`, of handles and streams: an object lives exactly as long as it is
referenced, a writer is alone with its file, a reader's head is inside its file with at most
one element looked at. A move goes part by part; the proof is about what the parts that
moved and those that did not have in common after a failure. `LeaksNothing` needs another
count: a failed move leaves at most one copy, and dropping the last reference leaves none.
The abstract `content` of a diagram is what is at its paths, so that a move, of which half
the parts may be under new names, is a stutter of `DiagramStore` as far as content goes.

### Writer and builder

`NodeFile_proofs` has what both need: uids are ordered by level, then identifier, and told
apart by both; and what a file holds after one more push or after `close`. A writer is
`Fresh`, holds one terminal, or is `Filled`: uids fall, the latest node is the last, the
level infos are those of all levels but the latest one's, whose width is still being
counted, and the arcs to terminals are counted. `close` writes the level info that is missing.

`BuilderInv` relates three views of one file: the nodes in it, the pointers of this phase
that are out, and the cells of those that are unreferenced. The pointers of a phase are to
just the nodes in its file (`FileIsInStep`), all uids above the next one on its level were
given out and everything in the file is above it (`PlaceIsFree`), the children of each node
are in the file under a larger uid, and the unreferenced pointers of the phase are those to
the roots. A call passes through several builders (attached, moved, noted, pushed) before it
returns, so that the invariant is a predicate on a builder, kept by each part of the call.
That identifiers do not run out follows from counting the pointers that are out.

### Cuts

A queue is allocated for the cuts in the meta data, and these are guesses from above: the
writer never sees a cut. `close` takes the least of three bounds, and each of them has to
hold of every cut of every kind, for the true one is the maximum over all cuts.

- The number of nodes and one (`CutIsWithinNodes`): of the arcs that leave the nodes above a
  cut, each node among them but the root takes one in.
- The number of arcs without those to a terminal the kind leaves out (`CutIsWithinArcs`).
- What the writer counted while the nodes went by (`OneLevelCutsAreWithin`). An arc is short
  if no level with nodes lies between its ends. The arcs to nodes across a 1-level cut are
  long or short arcs of the one level just above, so that all long arcs with the most short
  ones of a level are enough; with a terminal arc of any node above the bottom level; or, at
  the bottom, all terminal arcs and no others.

A 2-level cut goes through the nodes of a level. Let `i` arcs to nodes cross the 1-level cut
above the level, and let the nodes `S` of it be on the upper side. Each of them takes in an
arc at least and gives out two at most, so that the cut has at most `|S|` arcs more than the
1-level cut above. Compared with the 1-level cut below, it has the arcs to the other nodes of
the level more, `i - |S|` at most. One of the two is within `i / 2`
(`TwoLevelCutIsWithin`), which is what `3/2` stands for in the code; if each level has one
node only it is one of the two 1-level cuts. This asks nothing of a file but that its 1-level
cuts are bounds (`BoundsCuts`), so that what `close` derives is sound whoever counted them
(`FixupIsSound`).

The second half of the argument is about the writer, which only knows a node's uid and
compares it with the largest possible uid of the level before the current one. `CutAccount`
says of a writer that holds the nodes `N` that its counter of long arcs is the number of
them in `N`; that its current counter of short arcs is that of the level it is on, its
maximum that of those below, which no node pushed later can change, since a new node is
above all others (`DiagramGrows`, `SidesAreTold`); and that the terminal arcs it set aside
are those of the bottom level. A push keeps the account (`FirstPushCounts`,
`NextPushCounts`), `close` completes it for the last level and is sound by what was said of
the three bounds (`ClosedCutsAreSound`). The cases that a bound on 64 bits cuts off
(`Count(f) > CutMax \div 2` and two more) make the bound weaker, never wrong, and the sum
the first bound makes does not wrap, as there are fewer uids than the largest cut.

For the builder it remains that every node is given to the writer on top of what is there,
with its children on deeper levels (`NextIsTopNode`), and that what is built has one root.

### What a diagram denotes

`Denotes` is a recursive function on pointers, and the prover cannot instantiate a theorem
of induction with a predicate. But a set of numbers that is not empty has a least one
(`LeastExists`) or, if it is finite, a greatest, so that an induction can be done by hand:
take the set of the places where a claim fails, and its least member. That is how
`DenotationExists` shows that there is a function that satisfies the equation `Denotes` is
defined by, on any set of nodes whose children have larger uids, so that the one chosen does
(`DenotesIs`). From it:

- A node denotes the choice between its children (`NodeDenotes`), and what is left of one that
  is reduced away denotes the same (`ReducedDenotes`): what `add_node` hands out means
  `label ? high : low` of what it was given, with the reduction rule or without it, in the
  file as it is when the call returns (`AnswersMeanWhatWasAsked`).
- The cofactors of a diagram's function at a level are what the pointers across that cut
  denote (`CofactorsAreReached`). In a reduced diagram two of them that denote the same are
  the same (`ReducedAreTold`, from the last level upwards), so that the nodes of a level are
  one for each cofactor that is not redundant there.
- If moreover identifiers go down from the largest, without a gap, and the nodes of a level
  are in the order of their children, the diagram is the canonical one, identifiers included
  (`NumberedDiagramIsCanonical`), and the canonical diagram has these properties
  (`CanonicalIsNumbered`).

The writer compares each node only with the latest one. `FlagsInv` says what that amounts
to: as long as the flag `sorted` is left, the nodes of each level are in the order of their
children, and as long as `indexable` is, the identifiers of each level are those from the
largest down. So a file with both flags whose nodes are reduced and have one root is the
canonical diagram of its function (`ClosedFilesAreCanonical`), which is what comparing
two files node by node relies on.

### Reduce

What the assertions of reduce.h rely on is that three streams, each in its own order, yield
at any moment the arcs of one node. `ReduceInv` says where every arc of the input is. An arc
is pending while its source is on a level still to come, or on this one and not yet part of
a node that was put together. The file of arcs to terminals has just the pending ones; an
arc to a node is in the file of internal arcs until its target was reduced, and then, as
long as it is pending, in the queue under the same source (`TerminalsAreUnread`,
`InternalsAreUnread`, `QueueHasTheRest`). As both are read largest source first, the next
arc is the largest that is pending on the level, whichever of the two it is in: the high
arc of the largest node not put together (`HighComesFirst`), and after it its low arc, as
no other source lies between them. Mappings are of nodes on this level and internal arcs go
to no later one, so that the largest mapping is never behind the arcs.

At the end of a level the queue has to be moved to the next one. It is not empty if there
is one, since only the root, which is the only one, has no parent, and the level just done
does not have the root. And where it stops is the next level: either it has an arc from
there, or the first arc to a terminal is from there and stops it (`QueueAdvances`). With
this each step of the sweep is a push, a pull or an advance of `LevelizedQueue`, or leaves
the queue alone; together with `BucketedImplementsQueue` that is a sweep on its queue.

An arc in the queue goes from above the level being reduced to below, so that the queue
maps, source by source, into the arcs across one cut of the input, of which the 1-level cut
is the maximum (`QueueIsAcross`). That an arc's target in the queue is the reduced one, and
that arcs to terminals are among them by then, does not matter.

That the output is the canonical diagram (`ReducesToCanonical`) rests on a second invariant,
`CanonInv`, of what pointers mean. A pointer of the output *stands for* one of the input if it
denotes the same function, its variables renamed (`Stands`). As nodes are only added, above
all there are, what stood for something goes on to do so (`GrownStands`). So the arcs in the
queue (`ArcsCarry`), the nodes put together (`IsGathered`) and the mappings (`MappingsStand`)
stand for what they come from, the flags of rule 1 aside; a node of the input whose mapping
is known is settled, by rule 1 in its child or as a node with the children that stand for
its own (`DoneIsSettled`). Meanwhile the output is tidy at every step (`OutIsTidy`): reduced,
since the sorter brings nodes with equal children next to each other and `out_node` is all
they need to be compared with (`ComesNext`); in order and without a gap, since identifiers
count down with the nodes (`Numbering`, where the width of the input's level shows that they
do not run out). At the end every node is settled; in a reduced diagram only one pointer
stands for each (`OnlyOneStands`), so that all nodes but the one for the root have a parent
in the output (`SettledIsCanonical`), and `NumberedDiagramIsCanonical` applies. If there is no
output at all, the last mapping of rule 1 was the root's and leads to a terminal
(`SomeMapping`, `TopmostIsTheRoot`), the one whose node is written.

That its meta data is sound (`ReducesWithSoundMetaData`) rests on a third, `MetaInv`. Reduce
does not see a cut either: at each level it counts what is in the queue and in the terminal
file, adds the children of the nodes it writes, and takes the maximum with what it had. The
invariant looks at the cut below each level that is done. The arcs of the nodes written
above it, with those still to come (`Held`: in the queue and the terminal file, at hand, or
of nodes put together), are no more than the cut so far (`CutsHold`), and below the level
being written they are no more than the counts of this level (`LabelCutHolds`). Output moves
an arc from the second part to the first (`WrittenCuts`), and what is forwarded crosses what
it crossed before. All but the arcs that rule 1 lets skip a node: such an arc goes deeper
than it did when a lower level was counted. It is flagged, an arc with a flag is not counted
among those to come (`Passing`), and when a node with it is written it goes into the tainted
cut, which is added to the maximum over all levels. With nothing left to come the cuts bound
all 1-level cuts of the output (`OutputCutsHold`), and the rest is `FixupIsSound`.
`CountsHold` is the same for the level infos, the width and the numbers of arcs to
terminals; a diagram of one node, which has no sweep, is a case of its own
(`OneNodeIsSound`, `TerminalFileIsSound`).

### What is model-checked only, and why

- Liveness (`EveryQueueDrains`): fairness and `ENABLED` are out of the prover's reach.
- That the other sweeps compute what they should: `ResultIsRight`, `ResultIsQuantified`. The
  lemmas of `Denotation_proofs` are what such a proof would rest on; it also needs the
  meaning of every request that is under way. What is reduced after them is covered by
  `ReducesToCanonical`, as far as the diagram they leave is one with one root
  (`OutputCanBeReduced`, checked by TLC).
- `MetaDataIsSound` of the nested and the single sweeps: an inner sweep reduces with two queues
  and a sorter at once, and what is not reduced at the end has its cuts copied or given by
  formulas. For a result that Reduce leaves it is `ReducesWithSoundMetaData`.
- The top-down sweeps (`NothingIsPassed`, the bounds on their queues and the others): see the
  plan.

## 5. Abstractions

- Memory: how much each structure gets, and hence which variant runs (internal or external,
  bucketed or not, random access or not) is a free choice or left out: all variants promise
  the same. The bounds computed for the queues are modelled, since a wrong one is a crash.
- Sorters and ordinary priority queues are sets with the comparator of the code; where it
  leaves an order open, so does the model, except where stated (`Prod2` and `IfThenElse`,
  requests for the same targets).
- Of TPIE and the file system, `Files` has what paths exist with what content; a failure is
  one of moving. Statistics are not modelled.
- Quantification: the threshold on the growth of partial sweeps is a free choice. The
  reduction without sorting (`fast_reduce`) is left out, as no policy of quantification
  enables it.
- Identifiers, counts and cuts do not overflow within the bounds of the runs; costs are
  integers.
- ZDDs are neither negated nor shifted, as zdd.cpp:48-53 asserts.

## 6. Plan

What is left, in order.

1. Proofs about the top-down sweeps: `NothingIsPassed` of `Prod2`, `IfThenElse` and
   `Select`, from the order of requests and of the streams.
2. The cuts of an inner sweep's Reduce (`MetaDataIsSound` of `NestedSweep`), with `MetaInv`
   for the arcs that wait in two queues and in the sorter of requests.

## 7. Not modelled

`domain` (a global list of labels, an argument of the operations here), memory and the
choice of internal or external structures, initialisation and statistics, DOT output, type
aliases and the declarations in `bdd.h` and `zdd.h`; `fast_reduce`; files that are read and
written at once (`iofstream`: in Reduce a sequence of mappings); the operators of C++ that
forward to an operation. `PROJECT.json` gives the reason for each component.
