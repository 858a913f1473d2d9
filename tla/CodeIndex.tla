----------------------------- MODULE CodeIndex -----------------------------
(***************************************************************************)
(* The code index of memory.db (tables files, symbols and edges) and how   *)
(* `rune update` brings it up to date: the tree is scanned, every file     *)
(* hashed; a file whose hash is the indexed one keeps its symbols and      *)
(* import edges, any other is read a second time and parsed; references    *)
(* are resolved over all symbols at the end; one transaction replaces the  *)
(* tables (core/update.py, core/index, core/storage/sqlite/materialize.py).*)
(*                                                                         *)
(* The tree may change between any two reads, and any read may fail.       *)
(* What a content declares, imports and refers to is given by constants in *)
(* the place of the tree-sitter adapters.  Files are those the             *)
(* configuration includes, numbered in the order of their paths; an import *)
(* statement is the sequence of the files it would resolve to, in the      *)
(* order they are tried, and is empty for a package.  One process runs at  *)
(* a time.  What else an update does is in modules UpdatePipeline,         *)
(* Semantic and Notes.                                                     *)
(***************************************************************************)
EXTENDS Naturals, Sequences

CONSTANTS
    Files,
    Contents,
    Names,
    CanHold,        \* bound: what each file can be in the tree
    Flaky,          \* bound: the files of which a read can fail
    Declares,       \* of a content: [name -> kind], a name at most once
    Statements,     \* of a content: its import statements
    Refers,         \* of a content: its raw references
    Malformed,      \* the contents that parse with errors
    Unparsable,     \* the contents an adapter raises on
    Absent

\* An interface counts as a class, implementing as extending, and all else
\* that can be declared as a function.
Kind == {"function", "class"}
ReferenceType == {"calls", "extends"}

RawReference == [name : Names, edge_type : ReferenceType]

\* symbols: which names a file declares, and as what.
SymbolTable == UNION {[N -> Kind] : N \in SUBSET Names}

NoSymbols == [n \in {} |-> "function"]

Status == {"ok", "parse_error", "scan_error"}

\* The target of a reference is a symbol, <<file, name>>; an edge that
\* resolved to nothing has no target.
Edge == [edge_type : {"imports"} \cup ReferenceType,
         target_file : Files \cup {Absent},
         target_symbol : (Files \X Names) \cup {Absent}]

Entry == [content_hash : Contents, status : Status, symbols : SymbolTable,
          edges : SUBSET Edge]

\* What a run has made of a file: its new entry, the references not yet
\* resolved, and whether the second read saw what was hashed.
Parsed == [entry : Entry, references : SUBSET RawReference, same : BOOLEAN]

Unreadable == "unreadable"

ASSUME CodeIndexAssumption ==
    /\ Files \subseteq Nat
    /\ CanHold \in [Files -> SUBSET (Contents \cup {Absent})]
    /\ Flaky \subseteq Files
    /\ Declares \in [Contents -> SymbolTable]
    /\ Statements \in [Contents -> SUBSET Seq(Files)]
    /\ Refers \in [Contents -> SUBSET RawReference]
    /\ Malformed \subseteq Contents
    /\ Unparsable \subseteq Contents
    /\ Absent \notin Contents \cup Files \cup Entry \cup Parsed
    /\ Unreadable \notin Contents \cup {Absent}

VARIABLES
    tree,       \* the working tree
    index,      \* what memory.db holds of each file
    run,        \* the running update
    quiet,      \* history: no edit and no failed read since it began
    torn        \* history: the files parsed from another content than hashed

vars == <<tree, index, run, quiet, torn>>

-----------------------------------------------------------------------------

Idle == Absent

Run == [full : BOOLEAN, left : SUBSET Files,
        scanned : [Files -> Contents \cup {Absent, Unreadable}],
        parsed : [Files -> Parsed \cup {Absent}]]

TypeOK ==
    /\ tree \in [Files -> Contents \cup {Absent}]
    /\ index \in [Files -> Entry \cup {Absent}]
    /\ run \in {Idle} \cup Run
    /\ quiet \in BOOLEAN
    /\ torn \subseteq Files

Indexed(x) == {f \in Files : x[f] # Absent}

-----------------------------------------------------------------------------
(* Parsing one file                                                        *)

\* An exception leaves no symbols; a tree with errors still yields some.
ParsedStatus(c) == IF c \in Malformed \cup Unparsable THEN "parse_error" ELSE "ok"

ExtractSymbols(c) == IF c \in Unparsable THEN NoSymbols ELSE Declares[c]

ExtractReferences(c) == IF c \in Unparsable THEN {} ELSE Refers[c]

\* The first candidate that is a file of the tree.
ResolveImportTarget(statement) ==
    LET hits == {i \in DOMAIN statement : tree[statement[i]] # Absent}
    IN  IF hits = {} THEN Absent
        ELSE statement[CHOOSE i \in hits : \A j \in hits : i <= j]

ImportEdge(target) ==
    [edge_type |-> "imports", target_file |-> target, target_symbol |-> Absent]

BuildImportEdges(c) ==
    IF c \in Unparsable THEN {}
    ELSE {ImportEdge(ResolveImportTarget(s)) : s \in Statements[c]}

ImportsOf(edges) == {e \in edges : e.edge_type = "imports"}

\* _parse_file(): `hash` is the scan's; the source is read again, and that
\* read failing is one more parse error.
ParseFile(f, hash, readable) ==
    IF ~ readable \/ tree[f] = Absent
    THEN [entry |-> [content_hash |-> hash, status |-> "parse_error",
                     symbols |-> NoSymbols, edges |-> {}],
          references |-> {}, same |-> FALSE]
    ELSE [entry |-> [content_hash |-> hash, status |-> ParsedStatus(tree[f]),
                     symbols |-> ExtractSymbols(tree[f]),
                     edges |-> BuildImportEdges(tree[f])],
          references |-> ExtractReferences(tree[f]), same |-> tree[f] = hash]

\* Mutant: the edges of an unchanged file are all kept as they are.
KeepFileWithReferences(f, readable) ==
    [entry |-> [index[f] EXCEPT !.content_hash = run.scanned[f]],
     references |-> {}, same |-> f \notin torn]

\* An unchanged file: its status, symbols and import edges stay, its
\* references are extracted again (_extract_references_only()).
KeepFile(f, readable) ==
    [entry |-> [index[f] EXCEPT !.content_hash = run.scanned[f], !.edges = ImportsOf(@)],
     references |-> IF readable /\ tree[f] # Absent THEN ExtractReferences(tree[f]) ELSE {},
     same |-> f \notin torn]

-----------------------------------------------------------------------------
(* Resolving references                                                    *)

\* Only a class can be extended; anything can be called.
Matches(r, symbols) ==
    /\ r.name \in DOMAIN symbols
    /\ r.edge_type = "extends" => symbols[r.name] = "class"

ReferenceEdge(r, target) ==
    [edge_type |-> r.edge_type, target_file |-> target,
     target_symbol |-> IF target = Absent THEN Absent ELSE <<target, r.name>>]

\* A declaration of the file itself, otherwise of the first file it imports
\* that has one.  `symbols` gives the table of every file.
ResolveReference(f, r, symbols, imported) ==
    LET hits == {g \in imported : Matches(r, symbols[g])}
    IN  IF Matches(r, symbols[f]) THEN ReferenceEdge(r, f)
        ELSE IF hits = {} THEN ReferenceEdge(r, Absent)
        ELSE ReferenceEdge(r, CHOOSE g \in hits : \A k \in hits : g <= k)

ImportedFiles(edges) == {e.target_file : e \in ImportsOf(edges)} \ {Absent}

ResolveReferences(f, references, symbols, edges) ==
    {ResolveReference(f, r, symbols, ImportedFiles(edges)) : r \in references}

SymbolsByPath(entries) ==
    [f \in Files |-> IF entries[f] = Absent THEN NoSymbols ELSE entries[f].symbols]

-----------------------------------------------------------------------------
(* The run                                                                 *)

\* Mutant: what could not be read is handed on with the rest.
Listed(x) == {f \in Files : x[f] # Absent}

Scanned(x) == {f \in Files : x[f] \in Contents}

\* The scan, which reads every file once.  That it is one step loses nothing:
\* hashes taken at different times are those of a tree the edits can pass
\* through.  A file that is there but cannot be read is reported as such.
Begin(full, unreadable) ==
    /\ run = Idle
    /\ LET scanned == [f \in Files |-> IF f \in unreadable THEN Unreadable ELSE tree[f]]
       IN  run' = [full |-> full, left |-> Scanned(scanned), scanned |-> scanned,
                   parsed |-> [f \in Files |-> Absent]]
    /\ quiet' = (unreadable = {})
    /\ UNCHANGED <<tree, index, torn>>

\* Mutant: a file that was indexed is not compared by its hash.
UnchangedByPath(f) ==
    /\ ~ run.full
    /\ index[f] # Absent

\* Mutant: a full run reuses what is indexed as any other.
UnchangedInFullToo(f) ==
    /\ index[f] # Absent
    /\ index[f].content_hash = run.scanned[f]

\* A full run compares with nothing.
Unchanged(f) ==
    /\ ~ run.full
    /\ index[f] # Absent
    /\ index[f].content_hash = run.scanned[f]

\* A file that could not be read before is parsed even if its hash matches.
MustParse(f) == Unchanged(f) => index[f].status = "scan_error"

\* The unchanged files come first.
Process(f, readable) ==
    /\ run # Idle
    /\ f \in run.left
    /\ Unchanged(f) \/ \A g \in run.left : ~ Unchanged(g)
    /\ run' = [run EXCEPT !.left = @ \ {f},
                 !.parsed[f] = IF MustParse(f) THEN ParseFile(f, run.scanned[f], readable)
                                               ELSE KeepFile(f, readable)]
    /\ quiet' = (quiet /\ readable)
    /\ UNCHANGED <<tree, index, torn>>

\* Mutant: a full run starts from nothing.
RetainedUnlessFull == {f \in Indexed(index) : run.scanned[f] = Unreadable /\ ~ run.full}

\* The entries that stay because the scan could not read the file, in a full
\* run too.
Retained == {f \in Indexed(index) : run.scanned[f] = Unreadable}

\* The new entries before and after the references are resolved.
NewEntries ==
    [f \in Files |-> IF f \in Retained THEN [index[f] EXCEPT !.status = "scan_error"]
                     ELSE IF f \in Indexed(run.parsed) THEN run.parsed[f].entry
                     ELSE Absent]

ResolvedEntries ==
    LET new == NewEntries
        symbols == SymbolsByPath(new)
    IN  [f \in Files |->
            IF f \notin Indexed(run.parsed) THEN new[f]
            ELSE [new[f] EXCEPT
                    !.edges = @ \cup ResolveReferences(
                                  f, run.parsed[f].references, symbols, @)]]

\* Mutant: edges are inserted as they are.
MaterializeAsIs(entries) == entries

\* A target that is not in the index is no target.
LiveEdge(e, entries) ==
    LET symbols == SymbolsByPath(entries)
    IN  [edge_type |-> e.edge_type,
         target_file |-> IF e.target_file \in Indexed(entries) THEN e.target_file
                         ELSE Absent,
         target_symbol |->
            IF /\ e.target_symbol # Absent
               /\ e.target_symbol[2] \in DOMAIN symbols[e.target_symbol[1]]
            THEN e.target_symbol ELSE Absent]

\* _materialize_code_index()
Materialize(entries) ==
    [f \in Files |-> IF entries[f] = Absent THEN Absent
                     ELSE [entries[f] EXCEPT !.edges = {LiveEdge(e, entries) : e \in @}]]

Commit ==
    /\ run # Idle
    /\ run.left = {}
    /\ run' = Idle
    /\ index' = Materialize(ResolvedEntries)
    /\ torn' = {f \in Retained : f \in torn}
               \cup {f \in Indexed(run.parsed) : ~ run.parsed[f].same}
    /\ UNCHANGED <<tree, quiet>>

\* The transaction is rolled back, or the process is killed at any time.
Abort ==
    /\ run # Idle
    /\ run' = Idle
    /\ UNCHANGED <<tree, index, quiet, torn>>

\* memory.db is deleted, truncated, or discarded after a failed write.
LoseCache ==
    /\ run = Idle
    /\ index # [f \in Files |-> Absent]
    /\ index' = [f \in Files |-> Absent]
    /\ torn' = {}
    /\ UNCHANGED <<tree, run, quiet>>

EditTree(f, c) ==
    /\ tree[f] # c
    /\ tree' = [tree EXCEPT ![f] = c]
    /\ quiet' = FALSE
    /\ UNCHANGED <<index, run, torn>>

-----------------------------------------------------------------------------

Init ==
    /\ tree \in [Files -> Contents \cup {Absent}]
    /\ \A f \in Files : tree[f] \in CanHold[f]
    /\ index = [f \in Files |-> Absent]
    /\ run = Idle
    /\ quiet = TRUE
    /\ torn = {}

Next ==
    \/ \E full \in BOOLEAN, unreadable \in SUBSET (Indexed(tree) \cap Flaky) :
          Begin(full, unreadable)
    \/ \E f \in Files : Process(f, TRUE)
    \/ \E f \in Flaky : Process(f, FALSE)
    \/ Commit
    \/ Abort
    \/ LoseCache
    \/ \E f \in Files : \E c \in CanHold[f] : EditTree(f, c)

Spec == Init /\ [][Next]_vars

-----------------------------------------------------------------------------
(* Properties                                                              *)

\* The symbols and the status stored beside a hash are those of the content
\* with that hash, over any number of runs that reuse them, fail to read the
\* file, or are aborted, unless the file changed between being hashed and
\* being parsed (core/update.py:151).
FactsOfHash ==
    \A f \in Indexed(index) \ torn :
        /\ index[f].symbols = ExtractSymbols(index[f].content_hash)
        /\ index[f].status \in {ParsedStatus(index[f].content_hash), "scan_error"}

\* No edge names a file or a symbol the index does not have, however the
\* target went away (core/storage/sqlite/materialize.py:566).
EdgesClosed ==
    \A f \in Indexed(index) : \A e \in index[f].edges :
        /\ e.target_file # Absent => e.target_file \in Indexed(index)
        /\ e.target_symbol # Absent =>
              /\ e.target_symbol[1] \in Indexed(index)
              /\ e.target_symbol[2] \in DOMAIN index[e.target_symbol[1]].symbols

\* An update nothing interfered with leaves the hashes of the tree, no file
\* as unreadable, and every reference resolved against the symbols now
\* indexed, also those of files it did not parse (core/update.py:161).
Current ==
    \A f \in Files :
        /\ f \in Indexed(index) <=> tree[f] # Absent
        /\ f \in Indexed(index) =>
              /\ index[f].content_hash = tree[f]
              /\ index[f].status # "scan_error"
              /\ index[f].edges \ ImportsOf(index[f].edges) =
                    ResolveReferences(f, ExtractReferences(tree[f]),
                                      SymbolsByPath(index), index[f].edges)

QuietUpdateIsCurrent == [][(quiet /\ Commit) => Current']_vars

\* A file leaves the index only because a scan did not find it, never
\* because it could not be read, in a full run either (core/update.py:310).
OnlyDeletedLeave ==
    [][Commit => \A f \in Indexed(index) : index'[f] = Absent => run.scanned[f] = Absent]_vars

\* The index of the tree, from the definitions alone.
Rebuilt ==
    LET parsed == [f \in Files |->
                     IF tree[f] = Absent THEN Absent
                     ELSE [content_hash |-> tree[f], status |-> ParsedStatus(tree[f]),
                           symbols |-> ExtractSymbols(tree[f]),
                           edges |-> BuildImportEdges(tree[f])]]
    IN  [f \in Files |->
            IF tree[f] = Absent THEN Absent
            ELSE [parsed[f] EXCEPT
                    !.edges = @ \cup ResolveReferences(f, ExtractReferences(tree[f]),
                                                       SymbolsByPath(parsed), @)]]

\* What makes it safe to reuse entries by their hash: none was parsed from
\* another content, and the import edges of each are those that its content
\* has among the files there are now.
ReuseIsSound ==
    /\ torn = {}
    /\ \A f \in Indexed(index) :
          ImportsOf(index[f].edges) = BuildImportEdges(index[f].content_hash)

\* What nothing interferes with leaves the index of the tree: an incremental
\* update whatever it could reuse, if that was sound to reuse, and `rune
\* rebuild-cache` whatever earlier runs left behind (core/update.py:177, 292).
QuietUpdateIsExact ==
    [][(quiet /\ Commit /\ (run.full \/ ReuseIsSound)) => (index = Rebuilt)']_vars

\* An undisturbed rebuild makes reuse sound, and it stays so as long as no
\* file appears or disappears: edits, lost caches, aborted runs and undisturbed
\* updates in any number do not end it.  This is what core/update.py:292 can
\* rely on.
ReuseStaysSound ==
    [][\/ Commit /\ quiet /\ run.full
       \/ ReuseIsSound /\ Indexed(tree)' = Indexed(tree) /\ (Commit => quiet)
       => ReuseIsSound']_vars

\* What core/update.py:292 relies on to keep import edges: that they depend
\* on the file's own statements only, so those of an incremental update are
\* those of a full one.
ImportsAsRebuilt ==
    [][(quiet /\ Commit) =>
         \A f \in Files : tree[f] # Absent =>
            ImportsOf(index'[f].edges) = ImportsOf(Rebuilt[f].edges)]_vars
=============================================================================
