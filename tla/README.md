# TLA+ verification of omolsm

omolsm is an LSM tree (`src/internal/lsm`) and an inverted index for document
search on top of it (`src/internal/invertedindex`). This directory holds TLA+
modules that model the program, TLC configurations that check them on small
instances, and TLAPS proofs of the results that matter most for every instance.
`PROJECT.json` lists the components, the runs, the line of code behind every
definition, the hazards, the findings and the theorems.

    tlc -config MCLSMTree_core.cfg MCLSMTree      # a run
    tlapm LSMTreeProofs.tla                       # the proofs

## Inventory

| Component | State | Operations | What makes it correct |
|---|---|---|---|
| LSM tree (`lsm/tree`) | memtable, levels of nodes, a sequence number per level, SST files, counters | Put, Delete, Get, Scan, Close; inside Put: flush, cascade of compactions, removal of inputs | it behaves as a map from keys to values; no flush or compaction is visible; nodes, files and numbers agree |
| Memtables (`lsm/memtable`) | sorted map or hash map, size counter | Put, Get, All, Size | the counter is the size of the contents |
| Node (`lsm/node`) | index of block ends, filter per block, reader | Get, GetRange, Destroy | finds what was written, no block missed |
| SST writer (`lsm/sst_io/writer`) | block and filter being filled, data, index, previous key and block | Append, Finish | blocks tile the data, index keys are block ends |
| SST reader (`lsm/sst_io/reader`) | file | ReadBlock, ReadData, ReadIndex, ReadFilter, ReadFooter | decodes what was encoded |
| Block (`lsm/block`) | records, previous key | Append, FlushTo | a block is readable alone |
| Bloom filter (`lsm/filter`) | hashes of the keys of a block | Add, Hash, Reset, Exist | no false negative |
| Merge iterators (`lsm/iterator`) | a position per SST, a heap | Next | sorted union, newest wins or bitmaps united, never short without an error |
| Inverted index (`invertedindex/index`) | a tree of (feature, block) to bitmap, or a map | Add, GetPostingList, And, DocCount, Close | postings are exactly what was added |
| Dictionary (`invertedindex/dictionary`) | a tree of term to id, or a map; next id | GetOrAdd, GetOrAddTerms, ScanPrefix, Size, Close | one id per term, one term per id |
| Date index (`invertedindex/dateindex`) | sorted slice of (day, document) | Add, Range, LeBitmap, GeBitmap | exact intervals |
| K-gram index (`invertedindex/kgram`) | gram to bitmap of term ids, or a dictionary of grams and an index; term of each id | AddTerm, Search | every matching term is found, no other; both implementations agree |
| Text processing (`invertedindex/textproc`) | none | Process: tokens, normalization, stop words, stems, unique terms | a word of a query becomes the term it became in a text |
| Engine (`invertedindex/engine`) | configuration, documents, dictionary, index, k-gram index, three date indexes, documents without an end | NewEngineFromConfigPath, IndexDir, IndexFileWithDates, Search\*, Close | results are the documents that qualify |
| Query parser (`invertedindex/parser`) | tokens, position | Execute | a line means what the grammar says |
| Command line (`cmd/invertedindex`) | none | start, index, prompt, quit | every line is answered or refused |
| Configurations (`config`, `engine/config.go`) | thresholds, directories, pipelines | NewConfig, LoadConfig, validate | what is accepted can run |

How they interact: `main` loads a configuration, lets the engine index a
directory and hands each line of the prompt to the parser, which evaluates it by
calling the engine. For each file the engine calls the text pipeline, the
dictionary, the inverted index, the k-gram index and the date indexes, in one
goroutine. With the LSM backend the dictionary and the index each own an LSM
tree, and the k-gram index owns a dictionary and an index. `Put` of the
tree does everything synchronously: when the memtable has reached `SSTSize` it
is written to an SST of level 0, full levels are merged into the next one, and
the inputs are deleted, before `Put` returns. Between these stages the tree
calls the hooks `OnWrite`, `OnFlush` and `OnCompaction` of its client.

What is hard: the states in the middle of `Put`, which hooks and crashes
expose; reads and file operations that fail, some of which are only logged; scans that
leave out files that hold keys of their range; a restart in
a directory that still has files; the order of levels and SSTs on which each
read relies; the two merge modes, of which one makes `Get` and compaction
disagree unless the client writes growing bitmaps; boundaries of blocks and of
ranges; two pipelines that have to agree on every word; what is left when the
backend has lost a term or a posting. There are no goroutines and no locks in the modelled code, so nothing
runs concurrently with `Put` except through hooks.

## Modules

| Module | Models | Composes or uses |
|---|---|---|
| `KVStore` | what `LSMTree` (interface.go) promises | |
| `LSMTree` | tree.go, tree_compact.go, the memtables, Destroy, truncation of files | refines `KVStore` |
| `LSMTreeProofs` | theorems about `LSMTree`: refinement, files, levels, scans, the size counter | |
| `Block` | operators: block.go and the decoding in sst_reader.go | |
| `BloomFilter` | operators: bloom_filter.go | |
| `SSTable` | sst_writer.go and node.go: one file written and read | EXTENDS `Block` and `BloomFilter` |
| `SSTableProofs` | theorems about the filters and the index of a file, and about reading it | |
| `MergeIterator` | the node iterator and both merge iterators | |
| `MergeIteratorProofs` | theorems about `MergeIterator` | |
| `MemIndex`, `LSMIndex` | mem_index.go; lsm_index.go | `LSMIndex` EXTENDS `LSMTree` and runs a `MemIndex` beside it |
| `LSMIndexProofs` | theorems about the postings and the bitmaps of `LSMIndex` | EXTENDS `LSMTreeProofs` |
| `MemDictionary`, `LSMDictionary` | mem_dict.go; lsm_dict.go | `LSMDictionary` EXTENDS `LSMTree` and runs a `MemDictionary` beside it |
| `LSMDictionaryProofs` | theorems about `LSMDictionary` | EXTENDS `LSMTreeProofs` |
| `Kgram` | operators: kgram.go, and what it means to match | |
| `KgramIndex` | both k-gram indexes, side by side | EXTENDS `Kgram` |
| `KgramProofs` | theorems about `KgramIndex` | |
| `TextPipeline` | operators: the stages of textproc | |
| `DateIndex` | operators: dateindex | |
| `Engine` | engine.go, config.go of the engine | EXTENDS `KgramIndex`, `TextPipeline`, `DateIndex`; instances of `MemDictionary` and `MemIndex` |
| `EngineProofs` | theorems about `Engine` | EXTENDS `KgramProofs` |
| `Query` | parser.go, result.go, main.go | EXTENDS `Engine` |
| `QueryProofs` | theorem about the lines of `Query` | EXTENDS `Query` and `EngineProofs` |

`MC*` modules give the constants of the TLC instances. A definition whose name
has a suffix, as in `NextSeq_NotTaken`, stands before the definition it varies
and is a plausible bug in it: with it in place the property that watches the
definition fails. No specification uses one.

### LSMTree

One variable per field of `Tree`: `memTable` and `memSize` (the memtable and its
counter), `nodes`, `levelToSeq`, `stats` (the two counters that count steps;
`BytesWritten` is left out). `disk` holds the files. `pc` and `level` say how far
the call in progress is.

| `pc` | The call is | Steps from here |
|---|---|---|
| `idle` | not running | `Write`, `Close` |
| `flush` | after `OnWrite`, memtable full | `FlushMemTable`, `FlushOpenFails`, `FlushReaderFails` |
| `cascade` | at the head of the loop of `cascadeCompact` | `CompactLevel`, `Compact*Fails`, `CascadeDone` |
| `cleanup` | after `OnCompaction`, before `removeNodes` | `RemoveNodes` |
| `closed` | | |

The steps are cut where client code can run or the process can be seen to die.
`Faults` selects the file operations that may fail: creating the file of a flush
or of a merge, a merge, opening either file, removing an input. Each failure is the
action of the early return or the log line in the code; `Destroy` ignores a file
that cannot be removed, and `LeftBehind` keeps it on disk. A failed write of
`Finish` (sst_writer.go:83) is dropped: the writer returns as if nothing had
happened, and the reader, which only opens the file, becomes a node whose reads
fail. Such reads are part of the dictionary, the index and the merge
(`ReadErrors`, `compactMerge`); the tree alone takes a node for readable, and a
file that reads back as other bytes is not modelled. `CrashSpec` adds `Restart`,
possible at every stage: the memory is gone, the files are not, and `NewTree`
does not look at them. A table is a function from keys to entries, so the
blocks, filters and heaps inside are abstracted here and modelled in `SSTable`,
`Block`, `BloomFilter` and `MergeIterator`. Of these details the tree sees two,
and both are kept: a nil value comes back empty (`Persisted`), and `GetRange`
prunes by the start and end key of a node (`Pruned`, with `BlockLen` keys in a
block). `BitmapMode` is the choice of the merge iterator.

`View`, the refinement mapping, gives for each key what a `Get` finds, with nil
and empty identified. This identification is needed: see `lsmtree_tombstone`.

### SSTable with Block and BloomFilter, MergeIterator

`SSTable` keeps the fields of `SSTWriter`, those of its data block and of its
filter included, and `written`, a history of what went into each block. A record's size is
chosen from `RecordSizes`, so blocks are cut in every way. A key is a number and
has bytes; `Block` writes a key as the length it shares with the key before and
the rest, and reads it back so. `BloomFilter` has the arithmetic of words: a word
of the code has 32 bits, split at 17 and 15 by the rotation; here `High * Low`
values. The hash function is any of `HashFunctions`. `Get` of a node goes through
the binary search, the filter and the block; it, `GetRange` and the searches are
translated with their loops, as recursive functions.

`MergeIterator` takes a step per call of an iterator, because each may load a
block and fail. `bitmapMode` is which of the two merge iterators runs; the one for
bitmaps can also fail to encode a union (`EmitFails`). The heap
is a set from which the least item is taken: `container/heap` is external.

### LSMIndex, LSMDictionary

They extend `LSMTree`: the client's call is cut at each `Put`, so every stage of
the tree shows between the steps of the client. The in-memory implementation of
the same interface gets the same calls at once and is what the tree is compared
with. Terms and composite keys are integers in the order of the bytes. The end
of a prefix scan is an integer, too: the code's `prefix + "\xff"` lies after
every term with the prefix, since terms are UTF-8.

Two history variables separate what may go wrong from what may not. `lossy`: a
file operation failed after which entries are found nowhere (`Losing`). `misread`:
a read failed. Both clients drop the error of `Get` and go on as if the key were
absent: the index with an empty bitmap, the dictionary with a new id. A read
fails only for a key that is not in the memtable (`Reads`, `Unread`).

A query may fail as well, and changes nothing by it: `GetPostingList(f, failed)` and
`ScanPrefix(p, failed)` have the outcome of the scan as a parameter. `GetPostingList`
logs the error and returns no document, `ScanPrefix` returns it and no id.
`Failures` says when there is a file whose read can fail (`ScanCanFail`: one that the
scan does not exclude). `ScanPrefix` of the empty prefix asks no tree at all.
`Excluded` is what a scan leaves out without any failure: a term, or a document of
a feature, that is in no table but SSTs which `GetRange` skips because they
start, in the sense of `StartKey`, at or after the end of the scan.

### Kgram, KgramIndex

A term is a sequence of runes. `ExtractFromPattern` is the set of windows of the
padded pattern that have no star: the code splits at the stars and puts a marker
at the two true ends, which comes to the same. `MatchPattern` is the recursion of
`matchWildcard`; `Matches` says what it is to match, as a cut of the term. The
k-gram index on LSM trees numbers its grams through a dictionary and keeps
posting lists by number; `gramPostings` is the map of the one in memory. Its
dictionary and index are those of `LSMDictionary` and `LSMIndex`, without failures.

### TextPipeline, DateIndex, Engine, Query

The pipeline is its stages, each a function on sequences of words that leaves some
out (`Select`) or changes them one by one; what a word is normalized to, the stop words and the stems are constants. `DetectLang` counts
letters as the code does. Date entries are kept sorted by insertion at the place
`sort.Search` finds, which is translated as the binary search it is. Times are
seconds; the division that makes days is Go's.

`Engine` has a variable per field of the struct. `stage` says where `main` is: a
document is taken (`IndexFile`), its terms enter the k-gram index one by one
(`EnterTerm`), then its dates (`EnterDates`). `validate` and its defaults decide
whether the engine starts; with the `lsm` backend, making the directories of its
trees may fail, too. `setup` gives the configuration, the files and the bounds.

The dictionary and the index are their in-memory versions. With the `lsm` backend
they differ from these in what `LSMDictionary` and `LSMIndex` show:

- `Lose`, between two files: a failed flush, compaction or read of `GetOrAddTerms` or
  `Add` costs the id of a term (`LoseTerm`), brings back an older id of it
  (`ShowOlder`) or costs a posting (`LosePosting`).
- `missed`: what is in the trees and the next searches do not find. It may be the
  id of a term, when `Get` fails, or when a scan of its prefix excludes the term or
  fails; a document of a posting list; a term under a gram of the k-gram index.
  An ordinary flush is enough for a scan to exclude something (`sstable_range`).
  `Miss` adds an item, `FoundAgain` is a read that works again; both happen between
  files and between lines, and a new file or a loss starts from nothing missed. So
  the reads of one line agree with each other.
- The prefix of the query `*` is empty, and `ScanPrefix` finds nothing for it.

`Search`, `SearchPrefix` and `SearchWildcard` read through `PostingsRead`, `KnownTerms`,
`ScanPrefix` and the grams that are reached. Whatever is missed, the searches go on
without it, as the code does, which logs or drops the errors.

`Query` adds the prompt. A line is a sequence of tokens; the descent of the
parser returns a result and a position, or fails, and evaluates as it goes. It is
written with recursive functions: the loops of `parseOr` and `parseAnd` are a
turn (`OrTurn`, `AndTurn`) made as often as there are tokens, where a turn that
finds no operator changes nothing, and `parser[d]` of `Parser` is `parseOr` as it is
called where fewer than `d` parentheses can still open. A line of `n` tokens has
fewer than `n` levels and fewer than `n` turns. Each
step of `Query` is, by its form, one of `EngineSpec`: `MainNext` (the steps before the
prompt), `AnswerLine` or `AwaitLine` with `line` and `answer` added. The theorems
about `EngineSpec` therefore speak of `Query`, too.
`Meaning` gives the same lines a meaning by another route: cut at the operator
that binds least, and evaluated over the texts of the documents, not the index.
It is a function of the parts of a line, from token `i` to token `j`. The documents
of a date are those of the search by date in both, which `DateRangesExact` and
`ValidityExact` compare with the dates themselves.

## Runs

Passing runs:

| Run | Question | Instance | Distinct states |
|---|---|---|---|
| `lsmtree_core` | does the tree behave as a map, with exact bookkeeping? | 3 keys, 3 levels, 2 SSTs a level, 4 flushes | 39,292 |
| `lsmtree_crash` | under all faults and restarts, are live files sound, and does every call end? | 2 keys, 3 flushes per life | 520,075 |
| `sstable_core` | does a block read back, is no key denied, is every key and range found? | 7 keys of up to 3 bytes, records of 1 or 2, blocks of 3, 6 hash functions on 16 words, bitmaps of 10 bits | 15,546 |
| `merge_core` | is the merge complete and right, in both modes? | 3 keys over 3 SSTs in all ways, read errors, values that cannot be decoded, unions that cannot be encoded | 52,064 |
| `lsmindex_core` | are postings those of the in-memory index but for what scans exclude, whatever fails? | 2 features, 3 documents in 2 blocks, 3 flushes, failed reads and the failures that leave a file behind | 233,962 |
| `lsmdict_core` | are ids those of the in-memory dictionary, and unique whatever fails? | 3 terms, the empty prefix and others, 8 ids, 4 flushes, failed reads, all failures | 1,816,955 |
| `engine_core` | do searches and lines find the documents that qualify, but for what the trees miss, and nothing false after losses? | 7 configurations, 4 of them refused, and 4 more instances: 2 losses, 2 missed entries, dates, lines; 3 documents each (2 where entries are missed), 8 words in 2 languages, 15 patterns, 4 instants | 169,698 |

In `lsmindex_core` and `lsmdict_core`, properties that a lost entry or a failed
read would break are stated for behaviours in which there was none yet (`~lossy`,
`~misread`); those that must hold regardless are not: `NoFalsePosting` and
`IdsUnique` hold whatever fails, `BitmapsGrow` needs no failed read, and
`NothingLost` no lost entry. `NothingLost` says what a failed read costs: documents
are hidden from `Get` by a newer bitmap, but no compaction drops them.
`QueriesComplete` and `PrefixExact` say what a query returns: what the in-memory
version does without what is `Excluded`, and nothing if the scan fails. That there
is something excluded is the finding of `sstable_range`. For the empty prefix
`ScanPrefix` returns nothing (lsm_dict.go:114), where the in-memory dictionary
returns every term, as dictionary.go:14 says of both; the query `*` therefore finds
every document with a term or none, according to the backend. `QueriesComplete`
compares `DocCount` when ids are dense, as the engine's are: it is the largest id
plus one, whereas index.go:17 calls it the number of distinct documents.

In `engine_core`, `SearchExact` compares the terms of the index with the words of
the texts, so it depends on every stage of both pipelines. It and `WildcardExact` say
for each missed entry what it costs: a word whose `Get` fails is dropped from the
query, a document behind a posting or a gram that is not reached is left out, a
prefix leaves out the terms its scan does not find, and nothing else changes.
`NoFalseResult` holds after losses too. `ExecuteExact` is checked at the prompt, for one list of
documents, with every line of up to five tokens of seven kinds and expressions of
three or four leaves, no two the same in a row, in all combinations of operators
and with two or three of the leaves in parentheses.
`MCQuery` also checks, as an assumption, that `MatchPattern` is `Matches` for
terms of up to three and patterns of up to four runes. Where entries are missed, the
lines are words and patterns, `*` among them, with and without an operator
between.

Violation runs, each of which shows a difference between the code and what the
repository says of it; the quotes are in `PROJECT.json`:

| Run | Property | What it shows |
|---|---|---|
| `lsmtree_tombstone` | `DeletedStaysDeleted` | a nil value is read back as an empty one, so a flushed tombstone is a value: the deleted key is found again |
| `lsmtree_reopen` | `SSTEntriesPersist` | a tree opened again in its directory finds nothing |
| `sstable_range` | `ExcludedIsDisjoint` | `startKey` is the last key of the first block; `GetRange` skips a file that holds keys of the range, so `ScanPrefix` and `GetPostingList` can miss terms and documents |
| `lsmindex_lost` | `CompactionKeepsPostings` | a compaction whose output cannot be opened deletes its inputs |
| `engine_wildcard` | `WildcardComplete` | a pattern of which no part is as long as a gram, such as `*e*`, finds nothing although terms match it |

Bounds, and why they suffice:

- `MaxSeq` bounds the flushes by stopping the client. Four flushes with two SSTs
  a level give two compactions of level 0 and one of level 1, so an SST of the
  last level, one of the middle level and a memtable are alive together. The
  last level is never compacted, so more levels add no new kind of step.
- Three keys: one to overwrite, one to delete, one untouched, and files that
  overlap, contain each other or are disjoint.
- `SSTSize` 3 with entries of size 1 and 2 makes memtables of one to three
  entries; tombstones and empty values have size 1.
- `BlockLen` 1 or 2 makes the start key of a node differ from its end key.
- `MaxKey`, `RecordSizes`: files of no more than seven entries in blocks of one to
  three, with last blocks that are full, partial or of one key. The number of
  hash functions differs between blocks of one, two and three keys, and 10 bits are not
  whole bytes. Some hash functions send all keys to one word.
- `MaxDocs`, and `Vals` of the dictionary (which bounds ids), only end the runs.
  Three documents: one with all words of a query, one with some, one with none.
- Two losses: the term of a document and a posting, or two terms, so that ids are
  given again after a gap. Two missed entries: both words of a query, a term and
  its posting, or both ways to a document.
- The words cover a stop word, an accent, a capital, two forms of one stem in each
  language and a term that two patterns share grams with; each configuration
  switches stages on and off.
- `MaxSeq` 3 in `lsmtree_crash` and `lsmindex_core` keeps them small; three flushes
  still reach a compaction that fails, one that succeeds, and a flush after either.

`CHECK_DEADLOCK FALSE` is set where the bound, `Close`, or the end of the data
stops the system.

Fairness: `FairCrashSpec` of `LSMTree` has weak fairness of `Continue`, the stages
of a call after its first: they are one synchronous call in one goroutine, which
Go schedules. Nothing is assumed of clients, failures or crashes: a call ends
also when the process does. `FairSpec` of
`MergeIterator` has weak fairness of `Next`: `compactLevel` calls `Next` in a loop
until it returns false.

## Proofs

Every theorem holds for every value of the constants that satisfies the `ASSUME`s
of its modules. They hold of the code when `MaxLevel`, `SSTNumPerLevel`, the size
of the filter and `blockSize` are positive, which the code does not check; with
zero it panics or merges levels that are empty. Those about the engine hold as
long as the 32 bits of an id are enough (`MaxDocs * MaxWords`), for dates that,
before 1970, are midnights (what `metadata.yaml` holds are days), and for patterns
with a star, which is what the parser takes for a pattern.

`LSMTreeProofs`, about the tree:

- `FilesCorrect`: `CrashSpec => []BaseInv`. Types, a file for every node, sequence
  numbers that increase along a level and were all issued. It holds with any
  faults, any restarts and both merge modes, and is inductive as it stands: a
  new file has a number above every number in use, so `WriteFile` never writes
  to a live file (`WriteIsFresh`).
- `Immutable`: `CrashSpec => LiveSSTsImmutable`, from the same invariant.
- `Invariant`: `Spec => []IInv`, in KV mode and with the faults that leave the
  inputs of a compaction in place (`HarmlessFaults`). `BaseInv` alone does not show that
  dropping the memtable or the inputs is invisible. `IInv` adds the two facts that
  carry the refinement over the stages: during the cascade the SSTs say of each
  key of the memtable what it says (`MemCovered`), and before `removeNodes` the newest
  SST of the next level is the merge of the level (`MergedCovered`).
- `Refinement`: `Spec => Implements`, under the same conditions. `StepReads` says for each
  stage how it changes what the SSTs say of a key: a flush puts the memtable on
  top, a compaction and a removal change nothing. `ViewNext` turns this into steps of
  `KVStore`: every stage after `Write` stutters.
- `Persist`: `Spec => SSTEntriesPersist`, under the same conditions.

The conditions are necessary: with `compactReader`, or in `CrashSpec`, TLC refutes
`SSTEntriesPersist` (`lsmindex_lost` shows the former for the index,
`lsmtree_reopen` the latter). The lemmas of a step ask only that it is not a
`Losing` one, so the proofs about the clients of the tree can use them with all
faults.

About the levels, the files, the scans and the counter of the tree, in the same
module; the first three assume no failure of a file operation (`Faults = {}`), without which they are false:

- `Bounded`: `Spec => []LevelsBounded`. `BookInv` says which levels may be full at
  which stage: only the one the cascade has reached, and the one it just added to.
- `Conserved`: `Spec => []SSTsConserved`, by counting the SSTs ever issued at a level
  against those it holds and those that were merged.
- `NoStrayFile`: `Spec => []DiskIsLive`: what is on disk beside the nodes is nothing.
- `NoEmptyNode`: `CrashSpec => []NoEmptySST`, with all faults and restarts: a memtable
  that is flushed has an entry, and the merge of tables with entries has one.
- `ScansAgree`: `CrashSpec => []ScanToEndMatchesGet`. A scan goes through the tables from
  the oldest to the newest and lets the later one win, `Get` goes the other way and
  stops at the first. The quick exclusion cuts no file that has an entry of the
  range, because each starts at one of its keys (`TableEnds`, for which
  `NoEmptySST` is needed) and the range has no end.
- `SizeCounted`: `MemSizeExact`, under `Spec` and `CrashSpec`. `SizeInv` adds that the
  memtable is finite; that a sum may take any of its elements first
  (`SumTakesAny`) makes the difference between the old entry and the new one the
  difference between the sums.

`LSMDictionaryProofs`, about the dictionary on its tree:

- `UniqueIds`: `DictSpec => []IdsUnique`, with all faults and failed reads. What
  `ScanPrefix` returns says nothing of the terms that were found before, so `DictInv`
  speaks of the tables: an id in the memtable or in an SST was given to that very term, and
  every id given is below `nextID`. Flushes and merges move entries and make none.
- `Agreement`: `DictSpec => []AgreesWithMem`. `AgreeInv` is `DictInv`, `IInv` of the tree,
  and that what `Get` finds is what the in-memory dictionary has, while nothing
  was lost or misread.
- `DictTypes`: `DictSpec => []DictTypeOK`.
- `PrefixesExact`: `DictSpec => []PrefixExact`, from `AgreeInv` and `ScanInv`, what makes
  `ScansAgree` inductive. A scan finds a key in the newest of the tables that it does not
  exclude (`ScanSource`); since all SSTs that hold a term say the same id, it
  finds the term unless all of them are excluded (`ExcludedIs`).

`LSMIndexProofs`, about the index on its tree:

- `OnlyAdded`: `IndexSpec => []NoFalsePosting`, with all faults and failed reads. `IndexInv`
  says table by table (`Owns`) that each document under a key was added with the
  key's feature; the bitmap `Add` reads, however old or empty, and the union a
  compaction makes keep this. A scan of a feature reads keys of that feature only
  (`KeysOfScan`), for which the end of the scan must not wrap around.
- `Growing`: `IndexSpec => []BitmapsGrow`. `GrowInv` compares the tables two by two: the
  bitmap of a key in a newer table contains the one in an older table. Merging by
  union and reading the newest therefore agree. A file that could not be opened or
  read breaks nothing, a failed read of `Add` does.
- `AllKept`: `IndexSpec => []NothingLost`. Failed reads are allowed here: `Add` then writes a
  bitmap that is too small, but the older one stays and a compaction unites them
  (`HeldInv`: each posting is in some table).
- `MatchesMem` and `FoundForever`: `IndexSpec => []BitmapsMatchMem` and `IndexSpec =>
  PostingsKept`. They need both invariants: what `Get` finds is the union of
  all there is for the key (`NewestIsAll`), and that is every posting added.
- `IndexTypes`: `IndexSpec => []IndexTypeOK`.
- `PostingsComplete`: `IndexSpec => []QueriesComplete`: the documents a scan finds are those
  of the in-memory index that some table it does not exclude has. A newer bitmap
  contains the older ones (`GrowInv`), so the newest of these tables has all that
  any of them has. The last feature id is left out: the end of its scan
  would be the feature after it.

`MergeIteratorProofs`, about both merge iterators, `MergedPrefix` (`Spec =>
[]OutputIsMergedPrefix`) and `MergeComplete` (`Spec => []EndMeansComplete`): for every
number, length and division into blocks of the inputs, and whatever read fails, the output so
far is a prefix of the merge, and an end without an error means that it is
all of it. `MergeInv` says what the heap holds (`HeapInv`: the current entry of each iterator
that has one) and that each entry is either popped or left, with the item
being emitted in between. The assumption is that the keys of each input
increase: `MemTable.All` sorts them, and `MergedPrefix` is why a merge keeps it.

`KgramProofs`, about both k-gram indexes:

- `KgramPostings`: `KgramSpec => []KgramInv`: the postings of a gram are the
  terms that have it (`PostingsExact`). `KgramInv` adds that grams have different numbers, without which
  the implementation on trees would mix their postings.
- `NoMatchDropped`: `KgramSpec => []CandidatesComplete`: intersecting the postings of
  the grams of a pattern drops no term that matches. The lemma below it says
  that every gram of a pattern is a gram of every term it matches; where a
  recursion would need induction, a least counterexample (`NatMin`) is taken.
- `PatternsFound`: `KgramSpec => []PatternsExact`: the search for a pattern with a gram gives
  exactly the ids of the terms that match it. `MatchFinds` says of `matchWildcard`, for
  every term and pattern, that it accepts what can be cut into the pieces of the
  pattern.

`EngineProofs`, about the engine, for every configuration, every set of files in every order,
and every table of stems, stop words and normal forms:

- `DatesFound` and `ValidFound`: `EngineSpec => []DateRangesExact` and `[]ValidityExact`.
  `DateInv` says that each date index is sorted and lists the documents with their
  days; the binary search of `sort.Search` finds the place in it
  (`SearchFinds`), for an insertion and for both ends of a range.
- `EngineTypes`: `EngineSpec => []EngineTypeOK`. `MissedInv` says that only the `lsm` backend
  loses or misses anything, and only what is there.
- `WordsFound`: `EngineSpec => []SearchExact`. The pipelines of the index and of a query
  differ. `ProcessIs` says what each makes of a text, word by word (`WordAlone`);
  `validate` refuses the configurations in which the words left by both would become
  different terms (`BaseIs`). With the `lsm` backend the statement is exact up to the
  entries in `missed`, of which nothing is assumed: any set of them may be missed.
- `PatternSearches`: `EngineSpec => []WildcardExact`, from `PatternsFound` and the same
  invariant. While nothing is lost a term has one id, so that the posting list under
  the id leads to the documents of the term (`Led`) and the grams to the id
  (`UnderGrams`).
- `NothingFalse`: `EngineSpec => []NoFalseResult`, whatever is lost.

The last four rest on `TextInv`. Its parts are `DateInv`, `KgramInv`, the stage of
`main` (`StageInv`), and two that say what survives a loss: an id stays with its
term, although the dictionary may forget the term and give it another id
(`IDsInv`), and a posting list has only documents with the term that owns its id,
and, as long as nothing was lost, all of them (`PostingsInv`).

`SSTableProofs`, about a file, written and read, for every set of keys and their bytes, hash
functions, size of the bitmap, bound on k, threshold and way to cut the keys into
blocks:

- `FilterCorrect`: `Spec => []NoFalseNegative`. `FilterInv` adds that the hashes in
  the filter being filled are those of the keys of the block being filled. That
  the k of the bitmap fits a byte is the assumption on `maxK`, 30 in the code.
- `Tiles`: `Spec => []IndexTiles`: the entries of the index cut the data of the file
  without gap or overlap. `TileInv` follows the three stages of a flush: the block at
  the end of the data may not yet be in the index, and no other.
- `ReadsBack`: `Spec => []BlocksReadBack`. `CodeInv` says that every block, the one being
  filled included, holds a record for each of its keys, made from the key before it or from none,
  and that the blocks in the order of the index hold the entries. A record reads
  back as its key from either of the two (`RecordReadBack`), so that blocks may be read
  one by one or as one.
- `Found` and `RangeFound`: `Spec => []GetExact` and `[]GetRangeExactAboveStart`. `SliceInv` adds
  to `TileInv` that the keys of the index cut the keys of the file: a block has those
  above the key before it, up to its own. There is then one block
  that can have a key (`Target`), both binary searches end at it
  (`SearchesLand`), and its filter does not deny the key.

`QueryProofs`, about the prompt and the parser:

- `LinesAnswered`: `Spec => []ExecuteExact`, for every line of tokens, of any length and
  nesting. `MeaningsAre` says what a part of a line means, and the proof goes both
  ways from there. What has a meaning is read (`AllParsed`): by the length of the
  part, `parsePrimary`, `parseAnd` and `parseOr`, started at its first token, stop
  behind its last, without an error, if the token there is one at which they stop.
  For this, a part with a meaning has balanced parentheses (`AllWell`), so that its
  cuts are the operators at which the loops turn. What is read has a meaning
  (`LevelsTake`): by the level of parentheses and the turns of the loops, what
  was read so far is a part with a meaning, and its documents are those returned.
  `AnswerInv` adds to `TextInv` that the answer that stands at the prompt is the one
  to the line, and neither the documents nor the losses change until the next.

As in the run, the documents are those of the meaning while nothing is lost and
where each pattern has a gram, with the `lsm` backend without what is missed; which lines are errors does not depend on either.

Recursive functions are where these proofs need induction (the binary searches of a
node and of `sort.Search`, `matchWildcard`, the parser and the parts of a line, the
loops over tokens and records, the sum behind the size counter). The induction
theorems of the library cannot be used,
because their parameter is an operator. Instead, that the function exists is shown
by exhibiting it, or by extending it from one bound to the next (`FlatExists`,
`SumExists`, `LevelsExist`), and a property of its values by taking the least argument
that violates it (`NatMin`) and finding a lesser one.

Only model-checked: `CallEnds` and `Terminates`, because TLAPS proves no liveness
under fairness. The invariants and action properties of the passing runs are all
proved, under the conditions named above.

## Not modelled

- The bytes of a file: footer, lengths, padding. `Block` keeps what the lengths say.
  Damaged files are left out: a read gives what was written or an error. Errors of
  `Get` and `Scan` are modelled where the index, the dictionary and the engine drop or
  log them; `LSMTree` alone, without a client, reads without errors.
- The letters: `tokenize` and the tables of Unicode and Snowball. A text is a
  sequence of words, and what each becomes is a constant. Letters count in
  `DetectLang` only.
- Reading YAML, making directories, walking the directory of the documents and the
  match of extensions: I/O. `setup` gives what comes out. An `end_date` in
  `metadata.yaml` that cannot be parsed is taken as none, without an error.
- Losses of the dictionary and the index inside the k-gram index on trees: what its
  searches miss is modelled, what a failed flush takes from it for good is not.
- A read that fails in the middle of one line and works later in the same line.
- `os.Exit` of `main` after an error skips `Close`, so files stay behind; what a later
  start makes of them is `lsmtree_reopen`.
- `BytesWritten`, the arguments of hooks, logs, statistics, what is printed.
- murmur3, roaring bitmaps (sets here), `container/heap`, `sort.Search`, the Go map
  and tree map: external, modelled by what the code uses of them.

## Plan

Left to do: the composition of `Engine` with the trees themselves, which TLC cannot
hold at a useful size, and the cutting of a line into tokens.
