------------------------------- MODULE Engine -------------------------------
(***************************************************************************)
(* The search engine (src/internal/invertedindex/engine): documents go     *)
(* through the text pipeline into the dictionary, the inverted index, the  *)
(* k-gram index and the date indexes, and searches read all of them.       *)
(*                                                                         *)
(* The dictionary and the indexes are MemDictionary and MemIndex.  With    *)
(* the LSM backend they differ from these as LSMDictionary and LSMIndex    *)
(* show: failed operations lose entries, a read can fail, and a scan       *)
(* leaves out the SSTs that GetRange excludes (node.go:92).                *)
(***************************************************************************)
EXTENDS KgramIndex, DateIndex, TextPipeline

LOCAL INSTANCE SequencesExt

CONSTANTS
    MaxDocs,        \* bound on the number of documents
    MaxWords,       \* bound on the number of words of a text
    Setups,         \* what the program is started with: a configuration file,
                    \* the files to index, and bounds for the instance
    DefaultSizes,   \* the defaults of block_size, sst_size and the others
    Times,          \* the instants of DateMeta, in seconds since 1970
    NoTime,         \* a nil time, and an empty string in metadata.yaml
    BadDate,        \* a string that time.Parse refuses
    Lower,          \* strings.ToLower, rune by rune
    TextQueries,    \* the arguments of Search that the properties are about
    Wildcards,      \* the patterns
    QueryDays       \* the days of queries

DateMeta == [Date : Times \cup {NoTime}, StartDate : Times \cup {NoTime},
             EndDate : Times \cup {NoTime}]

\* A file of the source directory with its entry of metadata.yaml.
Files == [text : Seq(Words), entry : [{"Date", "StartDate", "EndDate"} ->
                                         Times \cup {NoTime, BadDate}]]

EngineConfig ==
    [Dir : STRING, Language : STRING, Backend : STRING,
     Sizes : [DOMAIN DefaultSizes -> Int],
     Index : PipelineConfig, Query : PipelineConfig]

ASSUME EngineAssumption ==
    \* Ids, uint32 in the code, do not run out.
    /\ MaxDocs \in Nat /\ MaxWords \in Nat
    /\ 0 .. MaxDocs * MaxWords - 1 \subseteq FeatureIDs
    /\ Times \subseteq Int /\ NoTime # BadDate /\ {NoTime, BadDate} \cap Times = {}
    \* A date of metadata.yaml is a midnight of UTC, where it is before 1970.
    /\ \A t \in Times : t >= 0 \/ t % SecondsPerDay = 0
    /\ QueryDays \subseteq Int
    /\ NormalForms \subseteq SomeTerms
    \* A text query is a list of texts; a pattern is what the parser takes for
    \* one: it has a star.
    /\ TextQueries \subseteq Seq(Seq(Words))
    /\ Wildcards \subseteq Patterns
    /\ \A p \in Wildcards : \E i \in DOMAIN p : p[i] = Star
    /\ Lower \in [Runes -> Runes]
    /\ \A n \in DOMAIN DefaultSizes : DefaultSizes[n] \in Nat \ {0}
    /\ \A s \in Setups :
          /\ s.conf \in EngineConfig
          /\ \A file \in s.files : file \in Files /\ Len(file.text) <= MaxWords
          /\ s.maxDocs \in 0 .. MaxDocs
          /\ s.maxLosses \in Nat /\ s.maxMissed \in Nat

VARIABLES
    setup,          \* the configuration file, the directory and the bounds
    stage,          \* where main is
    conf,           \* Engine.conf
    docs,           \* Engine.docs, with the texts
    termToID, memNextID,    \* Engine.dict
    postings, allDocs,      \* Engine.idx
    todo,           \* <<id, term>>: still to enter into the k-gram index
    dateIdx, startDateIdx, endDateIdx,
    openEndDocs,    \* the documents that are valid for ever
    losses,         \* history: how many times the LSM backend lost something
    missed          \* what the LSM backend has and the next searches miss

dictVars == <<termToID, memNextID>>
idxVars == <<postings, allDocs>>
dateVars == <<dateIdx, startDateIdx, endDateIdx, openEndDocs>>
engineVars == <<setup, stage, conf, docs, dictVars, idxVars, kgramVars, todo,
                dateVars, losses, missed>>

DocIDs == 0 .. Len(docs) - 1

Dict == INSTANCE MemDictionary
Idx == INSTANCE MemIndex WITH Docs <- 0 .. MaxDocs - 1,
                              Features <- FeatureIDs

DateEntry == [day : Int, docID : DocIDs]

\* What a search can miss in a tree that has it: the id of a term, read by Get
\* or found by a scan, a document in a posting list, a term id under a gram.
Missable ==
    ({"get", "scan"} \X DOMAIN termToID)
    \cup UNION {{<<"posting", <<f, d>>>> : d \in postings[f]} : f \in FeatureIDs}
    \cup UNION {{<<"gram", <<g, f>>>> : g \in Grams(termByID[f])} :
                   f \in DOMAIN termByID}
Reached(kind, x) == <<kind, x>> \notin missed

EngineTypeOK ==
    /\ setup \in Setups
    /\ stage \in {"start", "files", "terms", "prompt", "answered", "exited",
                  "closed"}
    /\ stage \notin {"start", "exited"} =>
          \A n \in DOMAIN conf.Sizes : conf.Sizes[n] \in Nat \ {0}
    /\ \A i \in DOMAIN docs : docs[i].meta \in DateMeta
    /\ Dict!TypeOK /\ Idx!TypeOK /\ KgramTypeOK
    /\ \A f \in FeatureIDs : postings[f] \subseteq DocIDs
    /\ \A t \in DOMAIN termToID : termToID[t] \in FeatureIDs
    /\ {dateIdx, startDateIdx, endDateIdx} \subseteq Seq(DateEntry)
    /\ openEndDocs \subseteq DocIDs
    /\ losses \in 0 .. setup.maxLosses
    /\ \A m \in missed : m \in Missable
    /\ losses # 0 \/ missed # {} => conf.Backend = "lsm"

EngineInit ==
    /\ setup \in Setups
    /\ stage = "start"
    /\ conf = setup.conf
    /\ docs = <<>> /\ todo = <<>>
    /\ termToID = [t \in {} |-> 0] /\ memNextID = 0
    /\ postings = [f \in FeatureIDs |-> {}] /\ allDocs = {}
    /\ KgramInit
    /\ dateIdx = <<>> /\ startDateIdx = <<>> /\ endDateIdx = <<>>
    /\ openEndDocs = {}
    /\ losses = 0 /\ missed = {}

-----------------------------------------------------------------------------
(* Start.                                                                  *)

\* validate.
Valid(c) ==
    /\ c.Dir # ""
    /\ c.Language \in {"auto", "english", "russian", "mixed"}
    /\ c.Index.Stemming = c.Query.Stemming
    /\ c.Index.StripAccents = c.Query.StripAccents
    /\ c.Index.Normalize = c.Query.Normalize
    /\ c.Backend \in {"", "memory", "lsm"}

WithDefaults(c) ==
    [c EXCEPT !.Sizes = [n \in DOMAIN @ |->
                            IF @[n] <= 0 THEN DefaultSizes[n] ELSE @[n]]]

\* NewEngineFromConfigPath; main exits if it fails, as it may where it makes the
\* directories of trees.
NewEngine ==
    /\ stage = "start"
    /\ \/ Valid(conf) /\ conf' = WithDefaults(conf) /\ stage' = "files"
       \/ /\ ~Valid(conf) \/ conf.Backend = "lsm"
          /\ stage' = "exited" /\ UNCHANGED conf
    /\ UNCHANGED <<setup, docs, dictVars, idxVars, kgramVars, todo, dateVars,
                   losses, missed>>

-----------------------------------------------------------------------------
(* Indexing.                                                               *)

\* loadMetadataFile, of one file: a date that cannot be parsed is dropped.
LoadMeta(entry) ==
    [f \in DOMAIN entry |-> IF entry[f] = BadDate THEN NoTime ELSE entry[f]]

\* IndexDir takes the next file: IndexFileWithDates up to the k-gram index.
IndexFile(file) ==
    LET docID == Len(docs)
        terms == Process(conf.Index, conf.Language, file.text)
        featureIDs == [i \in DOMAIN terms |-> termToID'[terms[i]]]
    IN  /\ stage = "files" /\ docID < setup.maxDocs
        /\ docs' = Append(docs, [text |-> file.text,
                                 meta |-> LoadMeta(file.entry)])
        /\ Dict!GetOrAddTerms(terms)
        /\ Idx!Add(docID, featureIDs)
        /\ todo' = [i \in DOMAIN terms |-> <<featureIDs[i], terms[i]>>]
        /\ stage' = "terms" /\ missed' = {}
        /\ UNCHANGED <<setup, conf, kgramVars, dateVars, losses>>

EnterTerm ==
    /\ stage = "terms" /\ todo # <<>>
    /\ AddTerm(Head(todo)[1], Head(todo)[2])
    /\ todo' = Tail(todo)
    /\ UNCHANGED <<setup, stage, conf, docs, dictVars, idxVars, dateVars,
                   losses, missed>>

Enter(entries, time, docID) ==
    IF time = NoTime THEN entries ELSE Insert(entries, DayFromTime(time), docID)

OpenEnd(meta) == meta.EndDate = NoTime /\ meta.StartDate # NoTime

\* The rest of IndexFileWithDates.
EnterDates ==
    LET docID == Len(docs) - 1
        meta == docs[Len(docs)].meta
    IN  /\ stage = "terms" /\ todo = <<>>
        /\ dateIdx' = Enter(dateIdx, meta.Date, docID)
        /\ startDateIdx' = Enter(startDateIdx, meta.StartDate, docID)
        /\ endDateIdx' = Enter(endDateIdx, meta.EndDate, docID)
        /\ openEndDocs' = IF OpenEnd(meta) THEN openEndDocs \cup {docID}
                                           ELSE openEndDocs
        /\ stage' = "files"
        /\ UNCHANGED <<setup, conf, docs, dictVars, idxVars, kgramVars, todo,
                       losses, missed>>

\* IndexDir has taken every file, or could not read one: then main exits,
\* without Close.
IndexDone ==
    /\ stage = "files"
    /\ stage' \in {"prompt", "exited"}
    /\ UNCHANGED <<setup, conf, docs, dictVars, idxVars, kgramVars, todo,
                   dateVars, losses, missed>>

\* What failed file operations can do to the LSM backend (see lossy there).  A
\* tree that loses the newest entry of a term shows an older one, if it has one.
LoseTerm(t) ==
    /\ t \in DOMAIN termToID
    /\ termToID' = [s \in DOMAIN termToID \ {t} |-> termToID[s]]
    /\ UNCHANGED <<memNextID, idxVars>>

LosePosting(f, d) ==
    /\ d \in postings[f]
    /\ postings' = [postings EXCEPT ![f] = @ \ {d}]
    /\ UNCHANGED <<allDocs, dictVars>>

ShowOlder(t, f) ==
    /\ t \in DOMAIN termToID /\ termByID[f] = t
    /\ termToID' = [termToID EXCEPT ![t] = f]
    /\ UNCHANGED <<memNextID, idxVars>>

Lose ==
    /\ stage = "files" /\ conf.Backend = "lsm" /\ losses < setup.maxLosses
    /\ losses' = losses + 1 /\ missed' = {}
    /\ \/ \E t \in DOMAIN termToID : LoseTerm(t)
       \/ \E t \in DOMAIN termToID, f \in DOMAIN termByID : ShowOlder(t, f)
       \/ \E f \in FeatureIDs : \E d \in postings[f] : LosePosting(f, d)
    /\ UNCHANGED <<setup, stage, conf, docs, kgramVars, todo, dateVars>>

\* What the next searches miss, until the trees change or are read again: an
\* entry in an SST that a scan excludes, or whose file cannot be read.  The
\* errors of these reads are logged or dropped, and the search goes on.
Miss ==
    /\ stage \in {"files", "prompt"} /\ conf.Backend = "lsm"
    /\ Cardinality(missed) < setup.maxMissed
    /\ \E m \in Missable : missed' = missed \cup {m}
    /\ UNCHANGED <<setup, stage, conf, docs, dictVars, idxVars, kgramVars, todo,
                   dateVars, losses>>

FoundAgain ==
    /\ stage \in {"files", "prompt"} /\ missed # {}
    /\ missed' = {}
    /\ UNCHANGED <<setup, stage, conf, docs, dictVars, idxVars, kgramVars, todo,
                   dateVars, losses>>

\* The end of main.
Close ==
    /\ stage = "prompt"
    /\ stage' = "closed"
    /\ UNCHANGED <<setup, conf, docs, dictVars, idxVars, kgramVars, todo,
                   dateVars, losses, missed>>

\* A line of the prompt is answered, and the next one is awaited: the engine
\* is read only.
AnswerLine ==
    /\ stage = "prompt" /\ stage' = "answered"
    /\ UNCHANGED <<setup, conf, docs, dictVars, idxVars, kgramVars, todo,
                   dateVars, losses, missed>>

AwaitLine ==
    /\ stage = "answered" /\ stage' = "prompt"
    /\ UNCHANGED <<setup, conf, docs, dictVars, idxVars, kgramVars, todo,
                   dateVars, losses, missed>>

\* The course of main but for the lines, which Query gives a content.
MainNext ==
    \/ NewEngine
    \/ \E file \in setup.files : IndexFile(file)
    \/ EnterTerm \/ EnterDates \/ IndexDone \/ Lose \/ Miss \/ FoundAgain \/ Close

EngineNext == MainNext \/ AnswerLine \/ AwaitLine

EngineSpec == EngineInit /\ [][EngineNext]_engineVars

-----------------------------------------------------------------------------
(* Searches: sets of documents, the bitmaps of Result.                     *)

\* What GetPostingList returns, and And works with.
PostingsRead ==
    [f \in FeatureIDs |-> {d \in postings[f] : Reached("posting", <<f, d>>)}]
And(featureIDs) ==
    IF featureIDs = <<>> THEN {}
    ELSE {d \in 0 .. MaxDocs - 1 :
             \A i \in DOMAIN featureIDs : d \in PostingsRead[featureIDs[i]]}

\* What the dictionary does not know, or fails to read, is dropped.
KnownTerms == {t \in DOMAIN termToID : Reached("get", t)}
KnownIDs(terms) ==
    LET known == Select(terms, [i \in DOMAIN terms |-> terms[i] \in KnownTerms])
    IN  [i \in DOMAIN known |-> termToID[known[i]]]

\* The arguments are texts, and the features of one come after the other's.
ResolveTerms(rawTerms) ==
    LET featureIDs[n \in 0 .. Len(rawTerms)] ==
            IF n = 0 THEN <<>>
            ELSE featureIDs[n - 1]
                 \o KnownIDs(Process(conf.Query, conf.Language, rawTerms[n]))
    IN  featureIDs[Len(rawTerms)]

\* The And of no features is empty, and that of one is its posting list.
Search(rawTerms) == And(ResolveTerms(rawTerms))

PostingsOf(ids) == UNION {PostingsRead[id] : id \in ids}

ToLower(p) == [i \in DOMAIN p |-> IF p[i] = Star THEN Star ELSE Lower[p[i]]]

\* ScanPrefix of the dictionary: that of the LSM backend takes an empty prefix
\* for nothing to scan, where the other returns every term.
ScanPrefix(prefix) ==
    IF conf.Backend = "lsm" /\ prefix = <<>> THEN {}
    ELSE {t \in DOMAIN termToID : IsPrefix(prefix, t) /\ Reached("scan", t)}

\* A scan that fails finds nothing.
SearchPrefix(prefix) == PostingsOf(Dict!IdsOf(ScanPrefix(ToLower(prefix))))

\* A term is a candidate if it is found under every gram of the pattern.
SearchWildcard(pattern) ==
    PostingsOf({f \in KgramSearch(ToLower(pattern)) :
                   \A g \in ExtractFromPattern(ToLower(pattern)) :
                      Reached("gram", <<g, f>>)})

\* How the parser chooses between the two: it is a prefix when there is one
\* star and it is the last rune.
StarAtEnd(p) == p[Len(p)] = Star /\ \A i \in 1 .. Len(p) - 1 : p[i] # Star
SearchPattern(p) ==
    IF StarAtEnd(p) THEN SearchPrefix(SubSeq(p, 1, Len(p) - 1))
                   ELSE SearchWildcard(p)

SearchDateRange(from, to) == DayRange(dateIdx, from, to)

SearchValidInRange_AllEnds(from, to) ==
    LeBitmap(startDateIdx, to) \cap (GeBitmap(endDateIdx, to) \cup openEndDocs)
SearchValidInRange(from, to) ==
    LeBitmap(startDateIdx, to)
    \cap (GeBitmap(endDateIdx, from) \cup openEndDocs)

SearchAppearedInRange(from, to) == DayRange(startDateIdx, from, to)

-----------------------------------------------------------------------------
(* What the searches are to find, said of the texts of the documents.      *)

\* A word alone, before anything is dropped, and whether a pipeline drops it.
Base(w) ==
    Process([conf.Index EXCEPT !.StopWords = FALSE, !.MinTermLen = 0],
            conf.Language, <<w>>)
Keeps(pc, w) == Process(pc, conf.Language, <<w>>) # <<>>

BasesOf(d) ==
    {Base(w) : w \in {v \in ToSet(docs[d + 1].text) : Keeps(conf.Index, v)}}

\* A posting list leads from a term to a document.
Leads(t, d) ==
    t \in DOMAIN termToID /\ Reached("posting", <<termToID[t], d>>)

\* The documents that have every word of the query that the query pipeline
\* keeps and that any document has; none if there is no such word.  In memory,
\* where nothing is missed, that is all; trees leave out what they miss.
Expected(rawTerms) ==
    LET words == UNION {ToSet(rawTerms[i]) : i \in DOMAIN rawTerms}
        asked == {Base(w) : w \in {v \in words : Keeps(conf.Query, v)}}
        known == {b \in asked \cap UNION {BasesOf(d) : d \in DocIDs} :
                     Reached("get", b[1])}
    IN  IF known = {} THEN {}
        ELSE {d \in DocIDs : known \subseteq {b \in BasesOf(d) : Leads(b[1], d)}}

\* The terms and patterns that match, evaluated once.
Matching == {r \in SomeTerms \X Wildcards : Matches(r[1], ToLower(r[2]))}

DocsMatching(p) ==
    {d \in DocIDs : \E b \in BasesOf(d) : <<b[1], p>> \in Matching}

\* What trees do not miss of the terms that match: the prefix of the pattern *
\* is empty, and is not scanned for.
FoundBy(p, t) ==
    IF StarAtEnd(p)
    THEN Reached("scan", t) /\ ~(conf.Backend = "lsm" /\ Len(p) = 1)
    ELSE \A g \in ExtractFromPattern(ToLower(p)) :
            Reached("gram", <<g, termToID[t]>>)

ExpectedOf(p) ==
    {d \in DocIDs :
        \E b \in BasesOf(d) :
            <<b[1], p>> \in Matching /\ Leads(b[1], d) /\ FoundBy(p, b[1])}

HasGram(p) == StarAtEnd(p) \/ ExtractFromPattern(ToLower(p)) # {}

Day(t) == t \div SecondsPerDay

DocsWhere(P(_)) == {d \in DocIDs : P(docs[d + 1].meta)}

-----------------------------------------------------------------------------
(* Properties.                                                             *)

\* Between two files, and with the same data at the prompt.
Between == stage = "files"

\* A search finds the documents in which the words of the query occur, in any
\* form with the same stem: texts and queries go through two pipelines, which
\* agree on each word whatever stands around it, in whatever language.  What the
\* LSM backend misses is missing from the result, and nothing else: a word whose
\* Get fails is dropped, a document behind a list that is not read is left out.
SearchExact ==
    Between /\ losses = 0 =>
        \A q \in TextQueries : Search(q) = Expected(q)

\* A pattern finds the documents with a term that matches it, if it is a prefix
\* or has a k-gram, but for those to which the LSM backend misses every way;
\* there the pattern * finds nothing (lsm_dict.go:114).
WildcardExact ==
    Between /\ losses = 0 =>
        \A p \in Wildcards : HasGram(p) => SearchPattern(p) = ExpectedOf(p)

\* SearchWildcard finds every term that matches: "Search returns featureIDs of
\* indexed terms that match the wildcard pattern" (kgram/index.go:10).
WildcardComplete ==
    Between /\ losses = 0 /\ missed = {} =>
        \A p \in Wildcards : ~StarAtEnd(p) => SearchPattern(p) = DocsMatching(p)

\* Whatever the LSM backend has lost or misses, no search for a word or a
\* pattern returns a document without it: a term that comes back gets an id that
\* no posting list has been made under.
NoFalseResult ==
    Between =>
      /\ \A w \in Words :
          Search(<<<<w>>>>) \subseteq {d \in DocIDs : Base(w) \in BasesOf(d)}
      /\ \A p \in Wildcards : SearchPattern(p) \subseteq DocsMatching(p)

\* A search by date returns the documents whose day is in the interval, in
\* whatever order they were indexed: the binary searches rely on the order that
\* Add keeps, also among entries of one day.
DateRangesExact ==
    Between =>
      \A from, to \in QueryDays :
        /\ SearchDateRange(from, to) =
              DocsWhere(LAMBDA m : m.Date # NoTime
                                   /\ from <= Day(m.Date) /\ Day(m.Date) <= to)
        /\ SearchAppearedInRange(from, to) =
              DocsWhere(LAMBDA m : m.StartDate # NoTime
                                   /\ from <= Day(m.StartDate)
                                   /\ Day(m.StartDate) <= to)

\* A search by validity returns the documents that had started by the end of
\* the interval and not ended before its start, whatever the order of the two,
\* those without an end date included, and no document without a start date.
ValidityExact ==
    Between =>
      \A from, to \in QueryDays :
        SearchValidInRange(from, to) =
            DocsWhere(LAMBDA m :
                m.StartDate # NoTime /\ Day(m.StartDate) <= to
                /\ (m.EndDate = NoTime \/ from <= Day(m.EndDate)))
=============================================================================
