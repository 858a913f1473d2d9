-------------------------- MODULE CodeIndex_proofs --------------------------
(***************************************************************************)
(* Proofs about module CodeIndex, for any files, contents, names, import   *)
(* statements and references, and any read that fails.                     *)
(***************************************************************************)
EXTENDS CodeIndex, WellFoundedInduction, TLAPS

-----------------------------------------------------------------------------
(* Parsing one file                                                        *)

LEMMA LeastExists ==
    ASSUME NEW T \in SUBSET Nat, T # {}
    PROVE  \E i \in T : \A j \in T : i <= j
<1>1. PICK i \in T : \A j \in T : ~ (<<j, i>> \in OpToRel(<, Nat))
  BY NatLessThanWellFounded, WFMin
<1>2. \A j \in T : ~ (j < i)
  BY <1>1 DEF OpToRel
<1>3. \A j \in T : i <= j
  BY <1>2
<1>4. QED
  BY <1>3

\* An import resolves to a file that is there, or to nothing.
LEMMA ImportTargetIsThere ==
    ASSUME NEW s \in Seq(Files)
    PROVE  /\ ResolveImportTarget(s) \in Files \cup {Absent}
           /\ ResolveImportTarget(s) # Absent => tree[ResolveImportTarget(s)] # Absent
<1> DEFINE hits == {i \in DOMAIN s : tree[s[i]] # Absent}
           First(i) == \A j \in hits : i <= j
<1>1. CASE hits = {}
  BY <1>1 DEF ResolveImportTarget
<1>2. CASE hits # {}
  <2>1. hits \in SUBSET Nat
    OBVIOUS
  <2>2. \E i \in hits : First(i)
    BY <1>2, <2>1, LeastExists
  <2>3. PICK i \in hits : i = CHOOSE k \in hits : First(k)
    BY <2>2
  <2>4. ResolveImportTarget(s) = s[i]
    BY <1>2, <2>3 DEF ResolveImportTarget
  <2>5. s[i] \in Files /\ tree[s[i]] # Absent
    OBVIOUS
  <2>6. QED
    BY <2>4, <2>5
<1>3. QED
  BY <1>1, <1>2

IsImport(e) ==
    /\ e.edge_type = "imports" /\ e.target_symbol = Absent
    /\ e.target_file # Absent => tree[e.target_file] # Absent

LEMMA ImportEdgesType ==
    ASSUME NEW c \in Contents
    PROVE  /\ BuildImportEdges(c) \in SUBSET Edge
           /\ \A e \in BuildImportEdges(c) : IsImport(e)
<1>1. ASSUME NEW s \in Statements[c]
      PROVE  ImportEdge(ResolveImportTarget(s)) \in Edge
             /\ IsImport(ImportEdge(ResolveImportTarget(s)))
  <2>1. s \in Seq(Files)
    BY CodeIndexAssumption
  <2>2. /\ ResolveImportTarget(s) \in Files \cup {Absent}
        /\ ResolveImportTarget(s) # Absent => tree[ResolveImportTarget(s)] # Absent
    BY <2>1, ImportTargetIsThere
  <2>3. QED
    BY <2>2 DEF ImportEdge, Edge, IsImport
<1>2. QED
  BY <1>1 DEF BuildImportEdges

LEMMA NoSymbolsType == NoSymbols \in SymbolTable /\ DOMAIN NoSymbols = {}
<1>1. NoSymbols \in [{} -> Kind]
  BY DEF NoSymbols
<1>2. QED
  BY <1>1 DEF SymbolTable, NoSymbols

LEMMA ExtractionTypes ==
    ASSUME NEW c \in Contents
    PROVE  /\ ParsedStatus(c) \in Status /\ ParsedStatus(c) # "scan_error"
           /\ ExtractSymbols(c) \in SymbolTable
           /\ ExtractReferences(c) \in SUBSET RawReference
BY CodeIndexAssumption, NoSymbolsType
   DEF ParsedStatus, Status, ExtractSymbols, ExtractReferences

LEMMA ParseFileType ==
    ASSUME TypeOK, NEW f \in Files, NEW hash \in Contents, NEW readable \in BOOLEAN
    PROVE  ParseFile(f, hash, readable) \in Parsed
<1>1. CASE ~ readable \/ tree[f] = Absent
  <2>1. [content_hash |-> hash, status |-> "parse_error", symbols |-> NoSymbols,
         edges |-> {}] \in Entry
    BY NoSymbolsType DEF Entry, Status
  <2>2. QED
    BY <1>1, <2>1 DEF ParseFile, Parsed
<1>2. CASE ~ (~ readable \/ tree[f] = Absent)
  <2> DEFINE c == tree[f]
  <2>1. c \in Contents
    BY <1>2 DEF TypeOK
  <2>2. /\ ParsedStatus(c) \in Status /\ ExtractSymbols(c) \in SymbolTable
        /\ BuildImportEdges(c) \in SUBSET Edge /\ ExtractReferences(c) \in SUBSET RawReference
    BY <2>1, ExtractionTypes, ImportEdgesType
  <2> HIDE DEF c
  <2>3. [content_hash |-> hash, status |-> ParsedStatus(c), symbols |-> ExtractSymbols(c),
         edges |-> BuildImportEdges(c)] \in Entry
    BY <2>2 DEF Entry
  <2>4. QED
    BY <1>2, <2>2, <2>3 DEF ParseFile, Parsed, c
<1>3. QED
  BY <1>1, <1>2

LEMMA KeepFileType ==
    ASSUME TypeOK, NEW f \in Indexed(index), run.scanned[f] \in Contents,
           NEW readable \in BOOLEAN
    PROVE  KeepFile(f, readable) \in Parsed
<1> DEFINE e == [index[f] EXCEPT !.content_hash = run.scanned[f], !.edges = ImportsOf(@)]
           refs == IF readable /\ tree[f] # Absent THEN ExtractReferences(tree[f]) ELSE {}
<1>1. index[f] \in Entry
  BY DEF TypeOK, Indexed
<1>2. ImportsOf(index[f].edges) \in SUBSET Edge
  BY <1>1 DEF ImportsOf, Entry
<1>3. e \in Entry
  BY <1>1, <1>2 DEF Entry
<1>4. refs \in SUBSET RawReference
  BY ExtractionTypes DEF TypeOK, Indexed
<1> HIDE DEF e, refs
<1>5. [entry |-> e, references |-> refs, same |-> f \notin torn] \in Parsed
  BY <1>3, <1>4 DEF Parsed
<1>6. QED
  BY <1>5 DEF KeepFile, e, refs

-----------------------------------------------------------------------------
(* Resolving references                                                    *)

Tables == [Files -> SymbolTable]

\* A reference resolves to a declaration of that name, or to nothing.
Resolved(r, e, symbols) ==
    /\ e.edge_type = r.edge_type
    /\ \/ e.target_file = Absent /\ e.target_symbol = Absent
       \/ /\ e.target_file \in Files /\ e.target_symbol = <<e.target_file, r.name>>
          /\ r.name \in DOMAIN symbols[e.target_file]

LEMMA ReferenceEdgeResolved ==
    ASSUME NEW r \in RawReference, NEW symbols, NEW g \in Files \cup {Absent},
           g # Absent => r.name \in DOMAIN symbols[g]
    PROVE  ReferenceEdge(r, g) \in Edge /\ Resolved(r, ReferenceEdge(r, g), symbols)
<1>1. r.name \in Names /\ r.edge_type \in ReferenceType
  BY DEF RawReference
<1>2. CASE g = Absent
  BY <1>1, <1>2 DEF ReferenceEdge, Edge, Resolved
<1>3. CASE g # Absent
  BY <1>1, <1>3 DEF ReferenceEdge, Edge, Resolved
<1>4. QED
  BY <1>2, <1>3

LEMMA ReferenceIsResolved ==
    ASSUME NEW f \in Files, NEW r \in RawReference, NEW symbols \in Tables,
           NEW imported \in SUBSET Files
    PROVE  LET e == ResolveReference(f, r, symbols, imported)
           IN  e \in Edge /\ Resolved(r, e, symbols)
<1> DEFINE hits == {g \in imported : Matches(r, symbols[g])}
           First(g) == \A k \in hits : g <= k
<1>1. CASE Matches(r, symbols[f])
  BY <1>1, ReferenceEdgeResolved DEF ResolveReference, Matches
<1>2. CASE ~ Matches(r, symbols[f]) /\ hits = {}
  BY <1>2, ReferenceEdgeResolved DEF ResolveReference
<1>3. CASE ~ Matches(r, symbols[f]) /\ hits # {}
  <2>1. hits \in SUBSET Nat
    BY CodeIndexAssumption
  <2>2. \E g \in hits : First(g)
    BY <1>3, <2>1, LeastExists
  <2>3. PICK g \in hits : g = CHOOSE k \in hits : First(k)
    BY <2>2
  <2>4. ResolveReference(f, r, symbols, imported) = ReferenceEdge(r, g)
    BY <1>3, <2>3 DEF ResolveReference
  <2>5. g \in Files /\ r.name \in DOMAIN symbols[g]
    BY DEF Matches
  <2>6. QED
    BY <2>4, <2>5, ReferenceEdgeResolved
<1>4. QED
  BY <1>1, <1>2, <1>3

\* Only the files that declare something make a difference.
LEMMA OnlyIndexedMatter ==
    ASSUME NEW f \in Files, NEW r \in RawReference, NEW symbols \in Tables,
           NEW imported \in SUBSET Files, NEW fewer \in SUBSET imported,
           \A g \in imported \ fewer : symbols[g] = NoSymbols
    PROVE  ResolveReference(f, r, symbols, imported) = ResolveReference(f, r, symbols, fewer)
<1> DEFINE Hits(G) == {g \in G : Matches(r, symbols[g])}
           Resolution(hits) ==
              IF Matches(r, symbols[f]) THEN ReferenceEdge(r, f)
              ELSE IF hits = {} THEN ReferenceEdge(r, Absent)
              ELSE ReferenceEdge(r, CHOOSE g \in hits : \A k \in hits : g <= k)
<1>1. Hits(imported) = Hits(fewer)
  BY NoSymbolsType DEF Matches
<1>2. \A G : ResolveReference(f, r, symbols, G) = Resolution(Hits(G))
  BY Zenon DEF ResolveReference
<1> HIDE DEF Hits, Resolution
<1>3. QED
  BY <1>1, <1>2

LEMMA ImportedFilesType ==
    ASSUME NEW edges \in SUBSET Edge
    PROVE  ImportedFiles(edges) \in SUBSET Files
BY DEF ImportedFiles, ImportsOf, Edge

LEMMA ReferencesAreResolved ==
    ASSUME NEW f \in Files, NEW refs \in SUBSET RawReference, NEW symbols \in Tables,
           NEW edges \in SUBSET Edge
    PROVE  /\ ResolveReferences(f, refs, symbols, edges) \in SUBSET Edge
           /\ \A e \in ResolveReferences(f, refs, symbols, edges) :
                 \E r \in refs : Resolved(r, e, symbols)
<1> DEFINE imported == ImportedFiles(edges)
<1>1. imported \in SUBSET Files
  BY ImportedFilesType
<1> HIDE DEF imported
<1>2. ASSUME NEW r \in refs
      PROVE  /\ ResolveReference(f, r, symbols, imported) \in Edge
             /\ Resolved(r, ResolveReference(f, r, symbols, imported), symbols)
  BY <1>1, ReferenceIsResolved
<1>3. ResolveReferences(f, refs, symbols, edges)
        = {ResolveReference(f, r, symbols, imported) : r \in refs}
  BY DEF ResolveReferences, imported
<1>4. QED
  BY <1>2, <1>3

-----------------------------------------------------------------------------
(* What is materialized                                                    *)

Entries == [Files -> Entry \cup {Absent}]

LEMMA TablesOf ==
    ASSUME NEW x \in Entries
    PROVE  /\ SymbolsByPath(x) \in Tables
           /\ \A f \in Files : f \notin Indexed(x) => SymbolsByPath(x)[f] = NoSymbols
           /\ \A f \in Indexed(x) : x[f] \in Entry /\ SymbolsByPath(x)[f] = x[f].symbols
BY NoSymbolsType DEF SymbolsByPath, Tables, Entries, Entry, Indexed

\* No live edge points to what is not indexed.
Closed(e, x) ==
    /\ e.target_file # Absent => e.target_file \in Indexed(x)
    /\ e.target_symbol # Absent =>
          /\ e.target_symbol[1] \in Indexed(x)
          /\ e.target_symbol[2] \in DOMAIN x[e.target_symbol[1]].symbols

LEMMA LiveEdgeIsClosed ==
    ASSUME NEW x \in Entries, NEW e \in Edge
    PROVE  /\ LiveEdge(e, x) \in Edge /\ Closed(LiveEdge(e, x), x)
           /\ LiveEdge(e, x).edge_type = e.edge_type
           /\ LiveEdge(e, x).target_file =
                 IF e.target_file \in Indexed(x) THEN e.target_file ELSE Absent
           /\ Closed(e, x) => LiveEdge(e, x) = e
<1> DEFINE tables == SymbolsByPath(x)
           file == IF e.target_file \in Indexed(x) THEN e.target_file ELSE Absent
           symbol == IF e.target_symbol # Absent
                        /\ e.target_symbol[2] \in DOMAIN tables[e.target_symbol[1]]
                     THEN e.target_symbol ELSE Absent
           live == [edge_type |-> e.edge_type, target_file |-> file, target_symbol |-> symbol]
<1>1. /\ e = [edge_type |-> e.edge_type, target_file |-> e.target_file,
              target_symbol |-> e.target_symbol]
      /\ e.edge_type \in {"imports"} \cup ReferenceType
      /\ e.target_file \in Files \cup {Absent}
      /\ e.target_symbol \in (Files \X Names) \cup {Absent}
  BY DEF Edge
<1>2. LiveEdge(e, x) = live
  BY <1>1 DEF LiveEdge
<1>3. /\ \A f \in Files : f \notin Indexed(x) => DOMAIN tables[f] = {}
      /\ \A f \in Indexed(x) : tables[f] = x[f].symbols
  BY TablesOf, NoSymbolsType
<1>4. Indexed(x) \subseteq Files
  BY DEF Indexed
<1> HIDE DEF tables
<1>5. file \in Files \cup {Absent} /\ symbol \in (Files \X Names) \cup {Absent}
  BY <1>1
<1>6. live \in Edge
  BY <1>1, <1>5 DEF Edge
<1>7. ASSUME symbol # Absent
      PROVE  /\ symbol[1] \in Indexed(x)
             /\ symbol[2] \in DOMAIN x[symbol[1]].symbols
  <2>1. symbol = e.target_symbol /\ symbol[2] \in DOMAIN tables[symbol[1]]
    BY <1>7
  <2>2. symbol \in Files \X Names
    BY <1>5, <1>7
  <2>3. symbol[1] \in Files
    BY <2>2
  <2>4. QED
    BY <1>3, <2>1, <2>3
<1>8. file # Absent => file \in Indexed(x)
  OBVIOUS
<1> HIDE DEF file, symbol
<1>9. Closed(live, x)
  BY <1>7, <1>8 DEF Closed
<1>10. Closed(e, x) => file = e.target_file /\ symbol = e.target_symbol
  BY <1>1, <1>3 DEF Closed, file, symbol
<1>11. Closed(e, x) => live = e
  BY <1>1, <1>10
<1>12. QED
  BY <1>2, <1>6, <1>9, <1>11 DEF file

LEMMA MaterializeType ==
    ASSUME NEW x \in Entries
    PROVE  /\ Materialize(x) \in Entries
           /\ Indexed(Materialize(x)) = Indexed(x)
           /\ \A f \in Indexed(x) :
                 /\ Materialize(x)[f].content_hash = x[f].content_hash
                 /\ Materialize(x)[f].status = x[f].status
                 /\ Materialize(x)[f].symbols = x[f].symbols
                 /\ Materialize(x)[f].edges = {LiveEdge(e, x) : e \in x[f].edges}
<1> DEFINE new == Materialize(x)
           edges(f) == {LiveEdge(e, x) : e \in x[f].edges}
<1>1. ASSUME NEW f \in Indexed(x)
      PROVE  /\ f \in Files /\ x[f] \in Entry /\ edges(f) \in SUBSET Edge
             /\ new[f] = [x[f] EXCEPT !.edges = edges(f)]
  <2>1. f \in Files /\ x[f] \in Entry /\ x[f] # Absent
    BY DEF Indexed, Entries
  <2>2. edges(f) \in SUBSET Edge
    BY <2>1, LiveEdgeIsClosed DEF Entry
  <2>3. new[f] = [x[f] EXCEPT !.edges = edges(f)]
    BY <2>1 DEF Materialize
  <2>4. QED
    BY <2>1, <2>2, <2>3
<1>2. \A f \in Files : f \notin Indexed(x) => new[f] = Absent
  BY DEF Materialize, Indexed
<1> HIDE DEF edges
<1>3. ASSUME NEW f \in Indexed(x)
      PROVE  /\ new[f] \in Entry
             /\ new[f].content_hash = x[f].content_hash /\ new[f].status = x[f].status
             /\ new[f].symbols = x[f].symbols /\ new[f].edges = edges(f)
  BY <1>1 DEF Entry
<1>4. \A f \in Indexed(x) : new[f] # Absent
  BY <1>3, CodeIndexAssumption
<1>5. new \in Entries
  BY <1>2, <1>3 DEF Materialize, Entries
<1> HIDE DEF new
<1>6. Indexed(new) = Indexed(x)
  BY <1>2, <1>4 DEF Indexed
<1>7. QED
  BY <1>3, <1>5, <1>6 DEF new, edges

\* The references of a file, resolved over what is materialized, are those
\* resolved before.
LEMMA ResolutionsSurvive ==
    ASSUME NEW x \in Entries, NEW f \in Indexed(x), NEW refs \in SUBSET RawReference,
           NEW imports \in SUBSET Edge, \A e \in imports : e.edge_type = "imports",
           x[f].edges = imports \cup
                           ResolveReferences(f, refs, SymbolsByPath(x), imports)
    PROVE  LET edges == Materialize(x)[f].edges
           IN  edges \ ImportsOf(edges) =
                  ResolveReferences(f, refs, SymbolsByPath(Materialize(x)), edges)
<1> DEFINE new == Materialize(x)
           tables == SymbolsByPath(x)
           resolved == ResolveReferences(f, refs, tables, imports)
           kept == {LiveEdge(e, x) : e \in imports}
<1>1. /\ new \in Entries /\ Indexed(new) = Indexed(x)
      /\ \A g \in Indexed(x) : new[g].symbols = x[g].symbols
      /\ new[f].edges = {LiveEdge(e, x) : e \in x[f].edges}
  BY MaterializeType
<1>2. SymbolsByPath(new) = tables
  <2>1. \A g \in Files : SymbolsByPath(new)[g] = tables[g]
    BY <1>1, TablesOf
  <2>2. SymbolsByPath(new) \in Tables /\ tables \in Tables
    BY <1>1, TablesOf
  <2>3. QED
    BY <2>1, <2>2 DEF Tables
<1>3. tables \in Tables /\ f \in Files
  BY TablesOf DEF Indexed
<1>4. /\ resolved \in SUBSET Edge
      /\ \A e \in resolved : \E r \in refs : Resolved(r, e, tables)
  BY <1>3, ReferencesAreResolved
<1> HIDE DEF resolved
<1>5. ASSUME NEW e \in resolved
      PROVE  LiveEdge(e, x) = e /\ e.edge_type # "imports"
  <2>1. PICK r \in refs : Resolved(r, e, tables)
    BY <1>4
  <2>2. e \in Edge /\ e.edge_type \in ReferenceType
    BY <1>4, <2>1 DEF Resolved, RawReference
  <2>3. Closed(e, x)
    <3>1. CASE e.target_file = Absent /\ e.target_symbol = Absent
      BY <3>1 DEF Closed
    <3>2. CASE /\ e.target_file \in Files /\ e.target_symbol = <<e.target_file, r.name>>
               /\ r.name \in DOMAIN tables[e.target_file]
      <4>1. e.target_file \in Indexed(x)
        BY <3>2, TablesOf, NoSymbolsType
      <4>2. tables[e.target_file] = x[e.target_file].symbols
        BY <4>1, TablesOf
      <4>3. QED
        BY <3>2, <4>1, <4>2 DEF Closed
    <3>3. QED
      BY <2>1, <3>1, <3>2 DEF Resolved
  <2>4. QED
    BY <2>2, <2>3, LiveEdgeIsClosed DEF ReferenceType
<1>6. ASSUME NEW e \in imports
      PROVE  LiveEdge(e, x).edge_type = "imports"
  BY LiveEdgeIsClosed
<1>7. new[f].edges = kept \cup resolved
  <2>1. x[f].edges = imports \cup resolved
    BY DEF resolved
  <2>2. {LiveEdge(e, x) : e \in imports \cup resolved}
          = kept \cup {LiveEdge(e, x) : e \in resolved}
    OBVIOUS
  <2>3. {LiveEdge(e, x) : e \in resolved} = resolved
    BY <1>5
  <2>4. QED
    BY <1>1, <2>1, <2>2, <2>3
<1>8. ImportsOf(new[f].edges) = kept
  BY <1>5, <1>6, <1>7 DEF ImportsOf
<1>9. new[f].edges \ ImportsOf(new[f].edges) = resolved
  BY <1>5, <1>6, <1>7, <1>8
<1>10. ImportedFiles(new[f].edges) = ImportedFiles(imports) \cap Indexed(x)
  <2>1. ImportsOf(imports) = imports
    BY DEF ImportsOf
  <2>2. \A e \in imports : LiveEdge(e, x).target_file =
           IF e.target_file \in Indexed(x) THEN e.target_file ELSE Absent
    BY LiveEdgeIsClosed
  <2>3. Absent \notin Indexed(x)
    BY CodeIndexAssumption DEF Indexed
  <2>4. ImportedFiles(new[f].edges) = {e.target_file : e \in kept} \ {Absent}
    BY <1>8 DEF ImportedFiles
  <2>5. ImportedFiles(imports) = {e.target_file : e \in imports} \ {Absent}
    BY <2>1 DEF ImportedFiles
  <2> HIDE DEF new
  <2>6. {e.target_file : e \in kept} = {LiveEdge(e, x).target_file : e \in imports}
    OBVIOUS
  <2>7. {LiveEdge(e, x).target_file : e \in imports} \ {Absent}
          = ({e.target_file : e \in imports} \ {Absent}) \cap Indexed(x)
    BY <2>2, <2>3
  <2>8. QED
    BY <2>4, <2>5, <2>6, <2>7
<1>11. ASSUME NEW r \in refs
       PROVE  ResolveReference(f, r, tables, ImportedFiles(imports))
                = ResolveReference(f, r, tables, ImportedFiles(new[f].edges))
  <2>1. ImportedFiles(imports) \in SUBSET Files
    BY ImportedFilesType
  <2>2. ImportedFiles(new[f].edges) \in SUBSET ImportedFiles(imports)
    BY <1>10
  <2>3. \A g \in ImportedFiles(imports) \ ImportedFiles(new[f].edges) : tables[g] = NoSymbols
    BY <1>10, <2>1, TablesOf
  <2>4. r \in RawReference
    OBVIOUS
  <2> HIDE DEF tables, new
  <2>5. QED
    BY <1>3, <2>1, <2>2, <2>3, <2>4, OnlyIndexedMatter
<1>12. resolved = ResolveReferences(f, refs, tables, new[f].edges)
  BY <1>11 DEF ResolveReferences, resolved
<1>13. QED
  BY <1>2, <1>9, <1>12

-----------------------------------------------------------------------------
(* The type invariant                                                      *)

\* What is left of a run and what it has parsed are what it could read.
RunShape ==
    run # Idle =>
        /\ run.left \cap Indexed(run.parsed) = {}
        /\ run.left \cup Indexed(run.parsed) = Scanned(run.scanned)

LEMMA NewEntriesType ==
    ASSUME TypeOK, run # Idle
    PROVE  /\ NewEntries \in Entries
           /\ Retained \subseteq Indexed(index)
           /\ Indexed(NewEntries) = Retained \cup Indexed(run.parsed)
           /\ \A f \in Retained :
                 /\ NewEntries[f].content_hash = index[f].content_hash
                 /\ NewEntries[f].symbols = index[f].symbols
                 /\ NewEntries[f].status = "scan_error"
           /\ \A f \in Indexed(run.parsed) \ Retained :
                 NewEntries[f] = run.parsed[f].entry
<1>1. run \in Run
  BY DEF TypeOK
<1>2. ASSUME NEW f \in Retained
      PROVE  /\ f \in Files
             /\ NewEntries[f] \in Entry
             /\ NewEntries[f].content_hash = index[f].content_hash
             /\ NewEntries[f].symbols = index[f].symbols
             /\ NewEntries[f].status = "scan_error"
  <2>1. f \in Files /\ index[f] \in Entry
    BY DEF TypeOK, Retained, Indexed
  <2>2. NewEntries[f] = [index[f] EXCEPT !.status = "scan_error"]
    BY <2>1 DEF NewEntries
  <2>3. QED
    BY <2>1, <2>2 DEF Entry, Status
<1>3. ASSUME NEW f \in Indexed(run.parsed) \ Retained
      PROVE  f \in Files /\ NewEntries[f] \in Entry /\ NewEntries[f] = run.parsed[f].entry
  <2>1. f \in Files /\ run.parsed[f] \in Parsed
    BY <1>1 DEF Run, Indexed
  <2>2. NewEntries[f] = run.parsed[f].entry
    BY <2>1 DEF NewEntries
  <2>3. QED
    BY <2>1, <2>2 DEF Parsed
<1>4. \A f \in Files : f \notin Retained \cup Indexed(run.parsed) => NewEntries[f] = Absent
  BY DEF NewEntries
<1>5. Retained \subseteq Files /\ Indexed(run.parsed) \subseteq Files
  BY DEF Retained, Indexed
<1>6. NewEntries \in Entries
  <2>1. \A f \in Files : NewEntries[f] \in Entry \cup {Absent}
    BY <1>2, <1>3, <1>4
  <2>2. NewEntries = [f \in Files |-> NewEntries[f]]
    BY DEF NewEntries
  <2> QED
    BY <2>1, <2>2 DEF Entries
<1>7. \A f \in Retained \cup Indexed(run.parsed) : NewEntries[f] # Absent
  BY <1>2, <1>3, CodeIndexAssumption
<1>8. Indexed(NewEntries) = Retained \cup Indexed(run.parsed)
  BY <1>4, <1>5, <1>7 DEF Indexed
<1>9. Retained \subseteq Indexed(index)
  BY DEF Retained
<1>10. QED
  BY <1>2, <1>3, <1>6, <1>8, <1>9

LEMMA ResolvedEntriesType ==
    ASSUME TypeOK, run # Idle
    PROVE  /\ ResolvedEntries \in Entries
           /\ Indexed(ResolvedEntries) = Indexed(NewEntries)
           /\ SymbolsByPath(ResolvedEntries) = SymbolsByPath(NewEntries)
           /\ \A f \in Indexed(NewEntries) :
                 /\ ResolvedEntries[f].content_hash = NewEntries[f].content_hash
                 /\ ResolvedEntries[f].status = NewEntries[f].status
                 /\ ResolvedEntries[f].symbols = NewEntries[f].symbols
           /\ \A f \in Indexed(run.parsed) :
                 ResolvedEntries[f].edges =
                    NewEntries[f].edges \cup
                       ResolveReferences(f, run.parsed[f].references,
                                         SymbolsByPath(NewEntries), NewEntries[f].edges)
<1> DEFINE new == NewEntries
           tables == SymbolsByPath(new)
           edges(f) == new[f].edges \cup
                          ResolveReferences(f, run.parsed[f].references, tables, new[f].edges)
           done == ResolvedEntries
<1>1. /\ new \in Entries /\ Indexed(new) = Retained \cup Indexed(run.parsed)
      /\ tables \in Tables
  BY NewEntriesType, TablesOf
<1>2. run \in Run /\ Indexed(run.parsed) \subseteq Files /\ Indexed(new) \subseteq Files
  BY DEF TypeOK, Indexed
<1>3. /\ \A f \in Indexed(run.parsed) : done[f] = [new[f] EXCEPT !.edges = edges(f)]
      /\ \A f \in Files \ Indexed(run.parsed) : done[f] = new[f]
  BY <1>2 DEF ResolvedEntries
<1>4. ASSUME NEW f \in Indexed(run.parsed)
      PROVE  new[f] \in Entry /\ edges(f) \in SUBSET Edge
  <2>1. f \in Files /\ new[f] \in Entry
    BY <1>1, <1>2 DEF Entries, Indexed
  <2>2. new[f].edges \in SUBSET Edge
    BY <2>1 DEF Entry
  <2>3. run.parsed[f].references \in SUBSET RawReference
    BY <1>2 DEF Run, Indexed, Parsed
  <2> HIDE DEF new, tables
  <2>4. ResolveReferences(f, run.parsed[f].references, tables, new[f].edges) \in SUBSET Edge
    BY <1>1, <2>1, <2>2, <2>3, ReferencesAreResolved
  <2>5. QED
    BY <2>1, <2>2, <2>4
<1>5. done = [f \in Files |-> done[f]]
  BY DEF ResolvedEntries
<1> HIDE DEF new, edges, done
<1>6. ASSUME NEW f \in Indexed(run.parsed)
      PROVE  /\ done[f] \in Entry /\ done[f].content_hash = new[f].content_hash
             /\ done[f].status = new[f].status /\ done[f].symbols = new[f].symbols
             /\ done[f].edges = edges(f)
  BY <1>3, <1>4 DEF Entry
<1>7. done \in Entries
  <2>1. \A f \in Files : done[f] \in Entry \cup {Absent}
    BY <1>1, <1>3, <1>6 DEF Entries
  <2>2. QED
    BY <1>5, <2>1 DEF Entries
<1>8. \A f \in Files : done[f] = Absent <=> new[f] = Absent
  <2>1. \A f \in Indexed(run.parsed) : done[f] # Absent /\ new[f] # Absent
    BY <1>4, <1>6, CodeIndexAssumption
  <2>2. QED
    BY <1>3, <2>1
<1>9. Indexed(done) = Indexed(new)
  BY <1>8 DEF Indexed
<1>10. \A f \in Indexed(new) :
          /\ done[f].content_hash = new[f].content_hash
          /\ done[f].status = new[f].status /\ done[f].symbols = new[f].symbols
  BY <1>2, <1>3, <1>6
<1>11. SymbolsByPath(done) = tables
  <2>1. \A f \in Files : SymbolsByPath(done)[f] = tables[f]
    BY <1>1, <1>7, <1>9, <1>10, TablesOf
  <2>2. SymbolsByPath(done) \in Tables
    BY <1>7, TablesOf
  <2>3. QED
    BY <1>1, <2>1, <2>2 DEF Tables
<1>12. QED
  BY <1>6, <1>7, <1>9, <1>10, <1>11 DEF new, edges, done

\* What a commit leaves.
LEMMA CommitLeaves ==
    ASSUME TypeOK, Commit
    PROVE  /\ index' = Materialize(ResolvedEntries)
           /\ index' \in Entries
           /\ Indexed(index') = Retained \cup Indexed(run.parsed)
           /\ \A f \in Indexed(index') :
                 /\ index'[f].content_hash = NewEntries[f].content_hash
                 /\ index'[f].status = NewEntries[f].status
                 /\ index'[f].symbols = NewEntries[f].symbols
<1>1. run # Idle /\ index' = Materialize(ResolvedEntries)
  BY DEF Commit
<1>2. /\ ResolvedEntries \in Entries
      /\ Indexed(ResolvedEntries) = Retained \cup Indexed(run.parsed)
  BY <1>1, ResolvedEntriesType, NewEntriesType
<1>3. QED
  BY <1>1, <1>2, ResolvedEntriesType, NewEntriesType, MaterializeType

LEMMA ProcessType ==
    ASSUME TypeOK, RunShape, NEW f \in Files, NEW readable \in BOOLEAN, Process(f, readable)
    PROVE  LET entry == IF MustParse(f) THEN ParseFile(f, run.scanned[f], readable)
                                        ELSE KeepFile(f, readable)
           IN  /\ run \in Run /\ run.scanned[f] \in Contents /\ entry \in Parsed
               /\ run' = [run EXCEPT !.left = @ \ {f}, !.parsed[f] = entry]
               /\ ~ MustParse(f) => f \in Indexed(index)
<1>1. run # Idle /\ run \in Run /\ f \in run.left
  BY DEF Process, TypeOK
<1>2. run.scanned[f] \in Contents
  BY <1>1 DEF RunShape, Scanned
<1>3. ~ MustParse(f) => f \in Indexed(index)
  BY DEF MustParse, Unchanged, Indexed
<1>4. CASE MustParse(f)
  BY <1>1, <1>2, <1>4, ParseFileType DEF Process
<1>5. CASE ~ MustParse(f)
  BY <1>1, <1>2, <1>3, <1>5, KeepFileType DEF Process
<1>6. QED
  BY <1>4, <1>5

LEMMA TypeStep ==
    ASSUME TypeOK, RunShape, [Next]_vars
    PROVE  TypeOK' /\ RunShape'
<1>1. ASSUME NEW full \in BOOLEAN, NEW unreadable \in SUBSET (Indexed(tree) \cap Flaky),
             Begin(full, unreadable)
      PROVE  TypeOK' /\ RunShape'
  <2> DEFINE scanned == [f \in Files |-> IF f \in unreadable THEN Unreadable ELSE tree[f]]
             none == [f \in Files |-> Absent]
  <2>1. /\ scanned \in [Files -> Contents \cup {Absent, Unreadable}]
        /\ none \in [Files -> Parsed \cup {Absent}]
        /\ Scanned(scanned) \in SUBSET Files
    BY DEF TypeOK, Scanned
  <2>2. run' = [full |-> full, left |-> Scanned(scanned), scanned |-> scanned,
                parsed |-> none]
    BY <1>1 DEF Begin
  <2>3. Indexed(none) = {}
    BY DEF Indexed
  <2> HIDE DEF scanned, none
  <2>4. run' \in Run
    BY <2>1, <2>2 DEF Run
  <2>5. RunShape'
    BY <2>2, <2>3 DEF RunShape
  <2>6. QED
    BY <1>1, <2>4, <2>5 DEF Begin, TypeOK
<1>2. ASSUME NEW f \in Files, NEW readable \in BOOLEAN, Process(f, readable)
      PROVE  TypeOK' /\ RunShape'
  <2> DEFINE entry == IF MustParse(f) THEN ParseFile(f, run.scanned[f], readable)
                                      ELSE KeepFile(f, readable)
  <2>1. /\ run \in Run /\ run.scanned[f] \in Contents /\ entry \in Parsed
        /\ run' = [run EXCEPT !.left = @ \ {f}, !.parsed[f] = entry]
    BY <1>2, ProcessType
  <2> HIDE DEF entry
  <2>2. /\ run' \in Run /\ run'.left = run.left \ {f} /\ run'.scanned = run.scanned
        /\ run'.parsed = [run.parsed EXCEPT ![f] = entry]
    BY <2>1 DEF Run
  <2>3. Indexed(run'.parsed) = Indexed(run.parsed) \cup {f}
    BY <2>1, <2>2, CodeIndexAssumption DEF Indexed, Run
  <2>4. run # Idle /\ f \in run.left
    BY <1>2 DEF Process
  <2>5. RunShape'
    BY <2>2, <2>3, <2>4 DEF RunShape
  <2>6. QED
    BY <1>2, <2>2, <2>5 DEF Process, TypeOK
<1>3. CASE Commit
  <2>1. index' \in [Files -> Entry \cup {Absent}]
    BY <1>3, CommitLeaves DEF Entries
  <2>2. torn' \subseteq Files /\ run' = Idle
    BY <1>3 DEF Commit, Retained, Indexed
  <2>3. QED
    BY <1>3, <2>1, <2>2 DEF Commit, TypeOK, RunShape
<1>4. CASE Abort
  BY <1>4 DEF Abort, TypeOK, RunShape
<1>5. CASE LoseCache
  BY <1>5 DEF LoseCache, TypeOK, RunShape
<1>6. ASSUME NEW f \in Files, NEW c \in CanHold[f], EditTree(f, c)
      PROVE  TypeOK' /\ RunShape'
  <2>1. c \in Contents \cup {Absent}
    BY CodeIndexAssumption
  <2>2. QED
    BY <1>6, <2>1 DEF EditTree, TypeOK, RunShape
<1>7. CASE UNCHANGED vars
  BY <1>7 DEF vars, TypeOK, RunShape
<1>8. QED
  BY <1>1, <1>2, <1>3, <1>4, <1>5, <1>6, <1>7, CodeIndexAssumption DEF Next

LEMMA InitType == Init => TypeOK /\ RunShape
BY CodeIndexAssumption DEF Init, TypeOK, RunShape

\* Every reachable state is well typed, and a run accounts for every file it
\* could read (core/update.py).
THEOREM TypeCorrect == Spec => [](TypeOK /\ RunShape)
<1>1. TypeOK /\ RunShape /\ [Next]_vars => (TypeOK /\ RunShape)'
  BY TypeStep
<1>2. QED
  BY <1>1, InitType, PTL DEF Spec

-----------------------------------------------------------------------------
(* Facts belong to the hash beside them                                    *)

Facts(entry) ==
    /\ entry.symbols = ExtractSymbols(entry.content_hash)
    /\ entry.status \in {ParsedStatus(entry.content_hash), "scan_error"}

\* The invariant behind FactsOfHash: it holds of what a run has parsed too.
ParsedFacts ==
    run # Idle =>
        \A f \in Indexed(run.parsed) :
            /\ run.parsed[f].entry.content_hash = run.scanned[f]
            /\ run.parsed[f].same => Facts(run.parsed[f].entry)

FactsInv == FactsOfHash /\ ParsedFacts

LEMMA ParseFileFacts ==
    ASSUME NEW f \in Files, NEW hash, NEW readable \in BOOLEAN
    PROVE  LET p == ParseFile(f, hash, readable)
           IN  p.entry.content_hash = hash /\ (p.same => Facts(p.entry))
<1>1. CASE ~ readable \/ tree[f] = Absent
  BY <1>1 DEF ParseFile
<1>2. CASE ~ (~ readable \/ tree[f] = Absent)
  BY <1>2 DEF ParseFile, Facts
<1>3. QED
  BY <1>1, <1>2

LEMMA KeepFileFacts ==
    ASSUME TypeOK, FactsOfHash, NEW f \in Indexed(index),
           run.scanned[f] = index[f].content_hash, NEW readable \in BOOLEAN
    PROVE  LET p == KeepFile(f, readable)
           IN  p.entry.content_hash = run.scanned[f] /\ (p.same => Facts(p.entry))
<1> DEFINE e == [index[f] EXCEPT !.content_hash = run.scanned[f], !.edges = ImportsOf(@)]
<1>1. index[f] \in Entry
  BY DEF TypeOK, Indexed
<1>2. /\ e.content_hash = run.scanned[f] /\ e.symbols = index[f].symbols
      /\ e.status = index[f].status
  BY <1>1 DEF Entry
<1>3. f \notin torn => Facts(e)
  BY <1>2 DEF FactsOfHash, Facts
<1> HIDE DEF e
<1>4. KeepFile(f, readable).entry = e /\ KeepFile(f, readable).same = (f \notin torn)
  BY DEF KeepFile, e
<1>5. QED
  BY <1>2, <1>3, <1>4

LEMMA FactsStep ==
    ASSUME TypeOK, RunShape, FactsInv, [Next]_vars
    PROVE  FactsInv'
<1>1. ASSUME NEW full \in BOOLEAN, NEW unreadable \in SUBSET (Indexed(tree) \cap Flaky),
             Begin(full, unreadable)
      PROVE  FactsInv'
  <2>1. Indexed(run'.parsed) = {}
    BY <1>1 DEF Begin, Indexed
  <2>2. QED
    BY <1>1, <2>1 DEF Begin, FactsInv, FactsOfHash, ParsedFacts, Facts
<1>2. ASSUME NEW f \in Files, NEW readable \in BOOLEAN, Process(f, readable)
      PROVE  FactsInv'
  <2> DEFINE entry == IF MustParse(f) THEN ParseFile(f, run.scanned[f], readable)
                                      ELSE KeepFile(f, readable)
  <2>1. /\ run \in Run /\ run.scanned[f] \in Contents /\ entry \in Parsed
        /\ run' = [run EXCEPT !.left = @ \ {f}, !.parsed[f] = entry]
        /\ ~ MustParse(f) => f \in Indexed(index)
    BY <1>2, ProcessType
  <2>2. /\ entry.entry.content_hash = run.scanned[f]
        /\ entry.same => Facts(entry.entry)
    <3>1. CASE MustParse(f)
      BY <3>1, ParseFileFacts
    <3>2. CASE ~ MustParse(f)
      <4>1. run.scanned[f] = index[f].content_hash
        BY <3>2 DEF MustParse, Unchanged
      <4>2. QED
        BY <2>1, <3>2, <4>1, KeepFileFacts DEF FactsInv
    <3>3. QED
      BY <3>1, <3>2
  <2> HIDE DEF entry
  <2>3. /\ run'.scanned = run.scanned /\ run'.parsed = [run.parsed EXCEPT ![f] = entry]
    BY <2>1 DEF Run
  <2>4. run.parsed \in [Files -> Parsed \cup {Absent}]
    BY <2>1 DEF Run
  <2>5. ASSUME NEW g \in Indexed(run'.parsed)
        PROVE  /\ run'.parsed[g].entry.content_hash = run'.scanned[g]
               /\ run'.parsed[g].same => Facts(run'.parsed[g].entry)
    <3>1. CASE g = f
      BY <2>2, <2>3, <2>4, <3>1
    <3>2. CASE g # f
      <4>1. run'.parsed[g] = run.parsed[g] /\ g \in Indexed(run.parsed)
        BY <2>3, <2>4, <3>2 DEF Indexed
      <4>2. run # Idle
        BY <1>2 DEF Process
      <4>3. QED
        BY <2>3, <4>1, <4>2 DEF FactsInv, ParsedFacts
    <3>3. QED
      BY <3>1, <3>2
  <2>6. ParsedFacts'
    BY <2>5 DEF ParsedFacts, Facts
  <2>7. FactsOfHash'
    BY <1>2 DEF Process, FactsInv, FactsOfHash
  <2>8. QED
    BY <2>6, <2>7 DEF FactsInv
<1>3. CASE Commit
  <2>1. run # Idle /\ run.left = {} /\ run \in Run
    BY <1>3 DEF Commit, TypeOK
  <2>2. Retained \cap Indexed(run.parsed) = {}
    BY <2>1, CodeIndexAssumption DEF RunShape, Scanned, Retained
  <2>3. ASSUME NEW f \in Indexed(index') \ torn'
        PROVE  Facts(index'[f])
    <3>1. /\ index'[f].content_hash = NewEntries[f].content_hash
          /\ index'[f].symbols = NewEntries[f].symbols
          /\ index'[f].status = NewEntries[f].status
          /\ f \in Retained \cup Indexed(run.parsed)
      BY <1>3, CommitLeaves
    <3>2. Facts(NewEntries[f])
      <4>1. CASE f \in Retained
        <5>1. f \in Indexed(index) \ torn
          BY <1>3, <4>1 DEF Commit, Retained
        <5>2. /\ NewEntries[f].content_hash = index[f].content_hash
              /\ NewEntries[f].symbols = index[f].symbols
              /\ NewEntries[f].status = "scan_error"
          BY <2>1, <4>1, NewEntriesType
        <5>3. QED
          BY <5>1, <5>2 DEF FactsInv, FactsOfHash, Facts
      <4>2. CASE f \in Indexed(run.parsed)
        <5>1. run.parsed[f].same
          BY <1>3, <2>1, <4>2 DEF Commit, Run, Indexed, Parsed
        <5>2. NewEntries[f] = run.parsed[f].entry
          BY <2>1, <2>2, <4>2, NewEntriesType
        <5>3. QED
          BY <2>1, <4>2, <5>1, <5>2 DEF FactsInv, ParsedFacts
      <4>3. QED
        BY <3>1, <4>1, <4>2
    <3>3. QED
      BY <3>1, <3>2 DEF Facts
  <2>4. FactsOfHash'
    BY <2>3 DEF FactsOfHash, Facts
  <2>5. QED
    BY <1>3, <2>4 DEF Commit, FactsInv, ParsedFacts
<1>4. CASE Abort
  BY <1>4 DEF Abort, FactsInv, FactsOfHash, ParsedFacts
<1>5. CASE LoseCache
  BY <1>5 DEF LoseCache, FactsInv, FactsOfHash, ParsedFacts, Indexed
<1>6. ASSUME NEW f \in Files, NEW c \in CanHold[f], EditTree(f, c)
      PROVE  FactsInv'
  BY <1>6 DEF EditTree, FactsInv, FactsOfHash, ParsedFacts, Facts
<1>7. CASE UNCHANGED vars
  BY <1>7 DEF vars, FactsInv, FactsOfHash, ParsedFacts, Facts
<1>8. QED
  BY <1>1, <1>2, <1>3, <1>4, <1>5, <1>6, <1>7, CodeIndexAssumption DEF Next

LEMMA InitFacts == Init => FactsInv
BY DEF Init, FactsInv, FactsOfHash, ParsedFacts, Indexed

\* What is stored of a file is what its indexed hash declares, unless the file
\* changed between its two reads (core/update.py:151).
THEOREM FactsFollowTheHash == Spec => []FactsOfHash
<1>1. FactsInv => FactsOfHash
  BY DEF FactsInv
<1>2. TypeOK /\ RunShape /\ FactsInv /\ [Next]_vars => FactsInv'
  BY FactsStep
<1>3. QED
  BY <1>1, <1>2, InitFacts, TypeCorrect, PTL DEF Spec

-----------------------------------------------------------------------------
(* No edge dangles, and nothing leaves by mistake                          *)

LEMMA MaterializedIsClosed ==
    ASSUME NEW x \in Entries, NEW f \in Indexed(x), NEW e \in Materialize(x)[f].edges
    PROVE  Closed(e, Materialize(x))
<1>1. x[f].edges \in SUBSET Edge
  BY DEF Entries, Entry, Indexed
<1>2. PICK d \in x[f].edges : e = LiveEdge(d, x)
  BY MaterializeType
<1>3. Closed(e, x)
  BY <1>1, <1>2, LiveEdgeIsClosed
<1>4. QED
  BY <1>3, MaterializeType DEF Closed

LEMMA EdgesStep ==
    ASSUME TypeOK, EdgesClosed, [Next]_vars
    PROVE  EdgesClosed'
<1>1. CASE Commit
  <2>1. index' = Materialize(ResolvedEntries) /\ ResolvedEntries \in Entries
    BY <1>1, CommitLeaves, ResolvedEntriesType DEF Commit
  <2>2. Indexed(index') = Indexed(ResolvedEntries)
    BY <2>1, MaterializeType
  <2>3. \A f \in Indexed(index') : \A e \in index'[f].edges : Closed(e, index')
    BY <2>1, <2>2, MaterializedIsClosed
  <2>4. QED
    BY <2>3 DEF EdgesClosed, Closed
<1>2. CASE LoseCache
  BY <1>2 DEF LoseCache, EdgesClosed, Indexed
<1>3. CASE UNCHANGED index
  BY <1>3 DEF EdgesClosed, Indexed
<1>4. QED
  BY <1>1, <1>2, <1>3 DEF Next, vars, Begin, Process, Abort, EditTree

\* Every edge of the index leads to a file and a symbol of the index
\* (core/storage/sqlite/materialize.py:566).
THEOREM NoEdgeDangles == Spec => []EdgesClosed
<1>1. Init => EdgesClosed
  BY DEF Init, EdgesClosed, Indexed
<1>2. TypeOK /\ EdgesClosed /\ [Next]_vars => EdgesClosed'
  BY EdgesStep
<1>3. QED
  BY <1>1, <1>2, TypeCorrect, PTL DEF Spec

\* A file leaves the index only when a scan found it gone (core/update.py:310).
THEOREM OnlyTheScanDrops == Spec => OnlyDeletedLeave
<1>1. ASSUME TypeOK, RunShape, Commit, NEW f \in Indexed(index), index'[f] = Absent
      PROVE  run.scanned[f] = Absent
  <2>1. run # Idle /\ run.left = {} /\ run \in Run
    BY <1>1 DEF Commit, TypeOK
  <2>2. f \notin Retained \cup Indexed(run.parsed)
    BY <1>1, CommitLeaves DEF Indexed
  <2>3. run.scanned[f] # Unreadable /\ run.scanned[f] \notin Contents
    <3>1. f \in Files
      BY DEF Indexed
    <3>2. run.scanned[f] # Unreadable
      BY <2>2 DEF Retained
    <3>3. Indexed(run.parsed) = Scanned(run.scanned)
      BY <1>1, <2>1 DEF RunShape
    <3>4. run.scanned[f] \notin Contents
      BY <2>2, <3>1, <3>3 DEF Scanned
    <3>5. QED
      BY <3>2, <3>4
  <2>4. QED
    BY <2>1, <2>3 DEF Run, Indexed
<1>2. TypeOK /\ RunShape => [Commit => \A f \in Indexed(index) :
                               index'[f] = Absent => run.scanned[f] = Absent]_vars
  BY <1>1
<1>3. QED
  BY <1>2, TypeCorrect, PTL DEF OnlyDeletedLeave

-----------------------------------------------------------------------------
(* Updates nothing interferes with                                         *)

\* The entry of a file before its references are resolved, of a rebuild.
FreshEntry(f) ==
    [content_hash |-> tree[f], status |-> ParsedStatus(tree[f]),
     symbols |-> ExtractSymbols(tree[f]), edges |-> BuildImportEdges(tree[f])]

OnlyImports(edges) == \A e \in edges : e.edge_type = "imports"

Undisturbed(f) ==
    LET p == run.parsed[f]
    IN  /\ p.references = ExtractReferences(tree[f])
        /\ p.entry.content_hash = tree[f]
        /\ p.entry.status # "scan_error"
        /\ OnlyImports(p.entry.edges)
        /\ run.full \/ ReuseIsSound => p.entry = FreshEntry(f) /\ p.same

\* As long as a run is quiet, it saw the tree, and what it has parsed is of
\* the tree.
QuietInv ==
    (run # Idle /\ quiet) =>
        /\ run.scanned = tree
        /\ \A f \in Indexed(run.parsed) : Undisturbed(f)

LEMMA ImportsRigid ==
    ASSUME UNCHANGED tree
    PROVE  \A c : BuildImportEdges(c)' = BuildImportEdges(c)
BY DEF BuildImportEdges, ResolveImportTarget

LEMMA ParsesUndisturbed ==
    ASSUME TypeOK, NEW f \in Files, tree[f] \in Contents
    PROVE  LET p == ParseFile(f, tree[f], TRUE)
           IN  /\ p.references = ExtractReferences(tree[f])
               /\ p.entry = FreshEntry(f)
               /\ p.entry.content_hash = tree[f]
               /\ p.entry.status # "scan_error"
               /\ OnlyImports(p.entry.edges)
               /\ p.same
<1>1. tree[f] # Absent
  BY CodeIndexAssumption
<1>2. ParsedStatus(tree[f]) # "scan_error"
  BY ExtractionTypes
<1>3. OnlyImports(BuildImportEdges(tree[f]))
  BY ImportEdgesType DEF OnlyImports, IsImport
<1>4. /\ ParseFile(f, tree[f], TRUE).entry = FreshEntry(f)
      /\ ParseFile(f, tree[f], TRUE).references = ExtractReferences(tree[f])
      /\ ParseFile(f, tree[f], TRUE).same
  BY <1>1 DEF ParseFile, FreshEntry
<1>5. /\ FreshEntry(f).content_hash = tree[f]
      /\ FreshEntry(f).status = ParsedStatus(tree[f])
      /\ FreshEntry(f).edges = BuildImportEdges(tree[f])
  BY DEF FreshEntry
<1>6. QED
  BY <1>2, <1>3, <1>4, <1>5

LEMMA KeepsUndisturbed ==
    ASSUME TypeOK, NEW f \in Indexed(index), run.scanned = tree, tree[f] \in Contents,
           index[f].status # "scan_error"
    PROVE  LET p == KeepFile(f, TRUE)
           IN  /\ p.references = ExtractReferences(tree[f])
               /\ p.entry.content_hash = tree[f]
               /\ p.entry.status # "scan_error"
               /\ OnlyImports(p.entry.edges)
<1> DEFINE e == [index[f] EXCEPT !.content_hash = run.scanned[f], !.edges = ImportsOf(@)]
<1>1. index[f] \in Entry
  BY DEF TypeOK, Indexed
<1>2. /\ e.content_hash = tree[f] /\ e.status = index[f].status
      /\ e.edges = ImportsOf(index[f].edges)
  BY <1>1 DEF Entry
<1>3. OnlyImports(e.edges)
  BY <1>2 DEF OnlyImports, ImportsOf
<1>4. tree[f] # Absent
  BY CodeIndexAssumption
<1> HIDE DEF e
<1>5. KeepFile(f, TRUE).entry = e /\ KeepFile(f, TRUE).references = ExtractReferences(tree[f])
  BY <1>4 DEF KeepFile, e
<1>6. QED
  BY <1>2, <1>3, <1>5

\* A file that is kept although its hash could be that of another content,
\* or its imports those of another tree, is what makes reuse unsound.
LEMMA KeepsWhatIsFresh ==
    ASSUME TypeOK, FactsOfHash, ReuseIsSound, NEW f \in Indexed(index),
           run.scanned = tree, tree[f] \in Contents, index[f].content_hash = tree[f],
           index[f].status # "scan_error"
    PROVE  KeepFile(f, TRUE).entry = FreshEntry(f) /\ KeepFile(f, TRUE).same
<1> DEFINE e == [index[f] EXCEPT !.content_hash = run.scanned[f], !.edges = ImportsOf(@)]
<1>1. index[f] \in Entry
  BY DEF TypeOK, Indexed
<1>2. f \in Indexed(index) \ torn
  BY DEF ReuseIsSound
<1>3. index[f].symbols = ExtractSymbols(tree[f]) /\ index[f].status = ParsedStatus(tree[f])
  BY <1>2 DEF FactsOfHash
<1>4. ImportsOf(index[f].edges) = BuildImportEdges(tree[f])
  BY DEF ReuseIsSound
<1>5. /\ e.content_hash = tree[f] /\ e.status = index[f].status
      /\ e.symbols = index[f].symbols /\ e.edges = ImportsOf(index[f].edges)
      /\ ImportsOf(index[f].edges) \in SUBSET Edge
  BY <1>1 DEF Entry, ImportsOf
<1>6. e = FreshEntry(f)
  <2>1. e \in Entry
    BY <1>1, <1>5 DEF Entry
  <2> HIDE DEF e
  <2>2. e = [content_hash |-> e.content_hash, status |-> e.status,
             symbols |-> e.symbols, edges |-> e.edges]
    BY <2>1 DEF Entry
  <2>3. QED
    BY <1>3, <1>4, <1>5, <2>2 DEF FreshEntry
<1> HIDE DEF e
<1>7. KeepFile(f, TRUE).entry = e /\ KeepFile(f, TRUE).same
  BY <1>2 DEF KeepFile, e
<1>8. QED
  BY <1>6, <1>7

LEMMA SoundnessRigid ==
    ASSUME UNCHANGED <<tree, index, torn>>
    PROVE  ReuseIsSound' <=> ReuseIsSound
BY ImportsRigid DEF ReuseIsSound

LEMMA QuietStep ==
    ASSUME TypeOK, RunShape, FactsOfHash, QuietInv, [Next]_vars
    PROVE  QuietInv'
<1>1. ASSUME NEW full \in BOOLEAN, NEW unreadable \in SUBSET (Indexed(tree) \cap Flaky),
             Begin(full, unreadable)
      PROVE  QuietInv'
  <2>1. Indexed(run'.parsed) = {}
    BY <1>1 DEF Begin, Indexed
  <2>2. ASSUME quiet'
        PROVE  run'.scanned = tree'
    <3>1. unreadable = {} /\ tree' = tree
      BY <1>1, <2>2 DEF Begin
    <3>2. run'.scanned = [f \in Files |-> tree[f]]
      BY <1>1, <3>1 DEF Begin
    <3>3. QED
      BY <3>1, <3>2 DEF TypeOK
  <2>3. QED
    BY <2>1, <2>2 DEF QuietInv
<1>2. ASSUME NEW f \in Files, NEW readable \in BOOLEAN, Process(f, readable)
      PROVE  QuietInv'
  <2> SUFFICES ASSUME quiet'
               PROVE  /\ run'.scanned = tree'
                      /\ \A g \in Indexed(run'.parsed) : Undisturbed(g)'
    BY DEF QuietInv
  <2> DEFINE entry == IF MustParse(f) THEN ParseFile(f, run.scanned[f], readable)
                                      ELSE KeepFile(f, readable)
  <2>1. /\ run \in Run /\ run.scanned[f] \in Contents
        /\ run' = [run EXCEPT !.left = @ \ {f}, !.parsed[f] = entry]
        /\ ~ MustParse(f) => f \in Indexed(index)
    BY <1>2, ProcessType
  <2>2. /\ quiet /\ readable /\ run # Idle
        /\ tree' = tree /\ index' = index /\ torn' = torn
    BY <1>2 DEF Process
  <2>3. run.scanned = tree /\ \A g \in Indexed(run.parsed) : Undisturbed(g)
    BY <2>2 DEF QuietInv
  <2>4. /\ entry.references = ExtractReferences(tree[f])
        /\ entry.entry.content_hash = tree[f]
        /\ entry.entry.status # "scan_error"
        /\ OnlyImports(entry.entry.edges)
        /\ run.full \/ ReuseIsSound => entry.entry = FreshEntry(f) /\ entry.same
    <3>1. CASE MustParse(f)
      <4>1. entry = ParseFile(f, tree[f], TRUE)
        BY <2>2, <2>3, <3>1
      <4>2. QED
        BY <2>1, <2>3, <4>1, ParsesUndisturbed
    <3>2. CASE ~ MustParse(f)
      <4>1. entry = KeepFile(f, TRUE)
        BY <2>2, <3>2
      <4>2. /\ ~ run.full /\ index[f].status # "scan_error" /\ f \in Indexed(index)
            /\ index[f].content_hash = tree[f]
        BY <2>1, <2>3, <3>2 DEF MustParse, Unchanged
      <4>3. QED
        BY <2>1, <2>3, <4>1, <4>2, KeepsUndisturbed, KeepsWhatIsFresh
    <3>3. QED
      BY <3>1, <3>2
  <2> HIDE DEF entry
  <2>5. /\ run'.full = run.full /\ run'.scanned = run.scanned
        /\ run'.parsed = [run.parsed EXCEPT ![f] = entry]
        /\ run.parsed \in [Files -> Parsed \cup {Absent}]
    BY <2>1 DEF Run
  <2>6. /\ \A g : FreshEntry(g)' = FreshEntry(g)
        /\ ReuseIsSound' <=> ReuseIsSound
    BY <2>2, ImportsRigid, SoundnessRigid DEF FreshEntry
  <2>7. ASSUME NEW g \in Indexed(run'.parsed)
        PROVE  Undisturbed(g)'
    <3>1. CASE g = f
      <4>1. run'.parsed[g] = entry
        BY <2>5, <3>1
      <4>2. QED
        BY <2>2, <2>4, <2>5, <2>6, <3>1, <4>1 DEF Undisturbed
    <3>2. CASE g # f
      <4>1. run'.parsed[g] = run.parsed[g] /\ g \in Indexed(run.parsed)
        BY <2>5, <3>2 DEF Indexed
      <4>2. Undisturbed(g)
        BY <2>3, <4>1
      <4>3. QED
        BY <2>2, <2>5, <2>6, <4>1, <4>2 DEF Undisturbed
    <3>3. QED
      BY <3>1, <3>2
  <2>8. QED
    BY <2>2, <2>3, <2>5, <2>7
<1>3. CASE Commit \/ Abort \/ LoseCache
  BY <1>3 DEF Commit, Abort, LoseCache, QuietInv
<1>4. ASSUME NEW f \in Files, NEW c \in CanHold[f], EditTree(f, c)
      PROVE  QuietInv'
  BY <1>4 DEF EditTree, QuietInv
<1>5. CASE UNCHANGED vars
  <2>1. \A g : FreshEntry(g)' = FreshEntry(g)
    BY <1>5, ImportsRigid DEF FreshEntry, vars
  <2>2. \A g : Undisturbed(g)' <=> Undisturbed(g)
    BY <1>5, <2>1, SoundnessRigid DEF Undisturbed, vars
  <2>3. Indexed(run'.parsed) = Indexed(run.parsed)
    BY <1>5 DEF vars
  <2>4. QED
    BY <1>5, <2>2, <2>3 DEF QuietInv, vars
<1>6. QED
  BY <1>1, <1>2, <1>3, <1>4, <1>5, CodeIndexAssumption DEF Next

LEMMA QuietInvariant == Spec => [](TypeOK /\ RunShape /\ QuietInv)
<1>1. Init => QuietInv
  BY DEF Init, QuietInv
<1>2. TypeOK /\ RunShape /\ FactsOfHash /\ QuietInv /\ [Next]_vars => QuietInv'
  BY QuietStep
<1>3. QED
  BY <1>1, <1>2, TypeCorrect, FactsFollowTheHash, PTL DEF Spec

\* The commit of a quiet run leaves nothing retained, and has every file of
\* the tree.
LEMMA QuietCommit ==
    ASSUME TypeOK, RunShape, QuietInv, quiet, Commit
    PROVE  /\ run # Idle /\ run \in Run /\ Retained = {}
           /\ Indexed(run.parsed) = Indexed(tree)
           /\ \A f \in Indexed(tree) : Undisturbed(f) /\ NewEntries[f] = run.parsed[f].entry
           /\ Indexed(NewEntries) = Indexed(tree)
           /\ tree' = tree
<1>1. run # Idle /\ run.left = {} /\ run \in Run /\ tree' = tree
  BY DEF Commit, TypeOK
<1>2. run.scanned = tree /\ \A f \in Indexed(run.parsed) : Undisturbed(f)
  BY <1>1 DEF QuietInv
<1>3. Retained = {}
  <2>1. \A f \in Files : tree[f] # Unreadable
    BY CodeIndexAssumption DEF TypeOK
  <2>2. QED
    BY <1>2, <2>1 DEF Retained, Indexed
<1>4. Indexed(run.parsed) = Indexed(tree)
  <2>1. Indexed(run.parsed) = Scanned(tree)
    BY <1>1, <1>2 DEF RunShape
  <2>2. Scanned(tree) = Indexed(tree)
    BY CodeIndexAssumption DEF TypeOK, Scanned, Indexed
  <2>3. QED
    BY <2>1, <2>2
<1>5. QED
  BY <1>1, <1>2, <1>3, <1>4, NewEntriesType

\* A commit nothing interfered with leaves an index of the tree
\* (core/update.py:161).
LEMMA CurrentAfterCommit ==
    ASSUME TypeOK, RunShape, QuietInv, quiet, Commit
    PROVE  Current'
<1>1. /\ run # Idle /\ run \in Run /\ Retained = {} /\ tree' = tree
      /\ Indexed(run.parsed) = Indexed(tree)
      /\ \A f \in Indexed(tree) : Undisturbed(f) /\ NewEntries[f] = run.parsed[f].entry
  BY QuietCommit
<1>2. /\ index' = Materialize(ResolvedEntries)
      /\ Indexed(index') = Indexed(tree)
      /\ \A f \in Indexed(index') :
            /\ index'[f].content_hash = NewEntries[f].content_hash
            /\ index'[f].status = NewEntries[f].status
  BY <1>1, CommitLeaves
<1>3. ASSUME NEW f \in Indexed(tree)
      PROVE  /\ index'[f].content_hash = tree[f] /\ index'[f].status # "scan_error"
             /\ index'[f].edges \ ImportsOf(index'[f].edges)
                  = ResolveReferences(f, ExtractReferences(tree[f]),
                                      SymbolsByPath(index'), index'[f].edges)
  <2> DEFINE x == ResolvedEntries
             imports == run.parsed[f].entry.edges
             refs == run.parsed[f].references
  <2>1. Undisturbed(f) /\ NewEntries[f] = run.parsed[f].entry
    BY <1>1
  <2>2. run.parsed[f] \in Parsed
    BY <1>1 DEF Run, Indexed
  <2>3. /\ refs \in SUBSET RawReference /\ imports \in SUBSET Edge
        /\ refs = ExtractReferences(tree[f]) /\ \A e \in imports : e.edge_type = "imports"
    BY <2>1, <2>2 DEF Parsed, Entry, Undisturbed, OnlyImports
  <2>4. /\ x \in Entries /\ f \in Indexed(x)
        /\ x[f].edges = imports \cup ResolveReferences(f, refs, SymbolsByPath(x), imports)
    BY <1>1, <2>1, ResolvedEntriesType, NewEntriesType
  <2> HIDE DEF x, imports, refs
  <2>5. LET edges == Materialize(x)[f].edges
        IN  edges \ ImportsOf(edges)
              = ResolveReferences(f, refs, SymbolsByPath(Materialize(x)), edges)
    BY <2>3, <2>4, ResolutionsSurvive
  <2>6. index' = Materialize(x)
    BY <1>2 DEF x
  <2>7. QED
    BY <1>2, <2>1, <2>3, <2>5, <2>6 DEF Undisturbed
<1>4. \A f \in Files : f \in Indexed(index') <=> tree[f] # Absent
  BY <1>2 DEF Indexed
<1> DEFINE now == index'
<1>5. \A f \in Files : f \in Indexed(now) =>
         /\ now[f].content_hash = tree'[f] /\ now[f].status # "scan_error"
         /\ now[f].edges \ ImportsOf(now[f].edges)
              = ResolveReferences(f, ExtractReferences(tree'[f]),
                                  SymbolsByPath(now), now[f].edges)
  BY <1>1, <1>2, <1>3
<1>6. QED
  BY <1>1, <1>4, <1>5 DEF Current

\* What an update nothing interferes with leaves is the index of the tree's
\* hashes, with every reference resolved against the symbols now indexed
\* (core/update.py:161).
THEOREM QuietUpdatesAreCurrent == Spec => QuietUpdateIsCurrent
<1>1. TypeOK /\ RunShape /\ QuietInv => [(quiet /\ Commit) => Current']_vars
  BY CurrentAfterCommit
<1>2. QED
  BY <1>1, QuietInvariant, PTL DEF QuietUpdateIsCurrent

\* The entries a rebuild of the tree resolves its references over.
FreshEntries == [f \in Files |-> IF tree[f] = Absent THEN Absent ELSE FreshEntry(f)]

LEMMA RebuiltIs ==
    Rebuilt = [f \in Files |->
                 IF tree[f] = Absent THEN Absent
                 ELSE [FreshEntries[f] EXCEPT
                         !.edges = @ \cup ResolveReferences(f, ExtractReferences(tree[f]),
                                                            SymbolsByPath(FreshEntries), @)]]
BY Zenon DEF Rebuilt, FreshEntries, FreshEntry

LEMMA RebuiltRigid ==
    ASSUME UNCHANGED tree
    PROVE  Rebuilt' = Rebuilt
<1>1. \A f : FreshEntry(f)' = FreshEntry(f)
  BY ImportsRigid DEF FreshEntry
<1>2. FreshEntries' = FreshEntries
  BY <1>1 DEF FreshEntries
<1> DEFINE R(t, x) ==
             [f \in Files |->
                 IF t[f] = Absent THEN Absent
                 ELSE [x[f] EXCEPT
                         !.edges = @ \cup ResolveReferences(f, ExtractReferences(t[f]),
                                                            SymbolsByPath(x), @)]]
<1>3. Rebuilt = R(tree, FreshEntries)
  BY RebuiltIs
<1>4. (Rebuilt = R(tree, FreshEntries))'
  BY RebuiltIs, PTL
<1> HIDE DEF R
<1>5. QED
  BY <1>2, <1>3, <1>4

\* Closed edges are materialized as they are.
LEMMA MaterializedAsIs ==
    ASSUME NEW x \in Entries, \A f \in Indexed(x) : \A e \in x[f].edges : Closed(e, x)
    PROVE  Materialize(x) = x
<1>1. ASSUME NEW f \in Indexed(x)
      PROVE  Materialize(x)[f] = x[f]
  <2>1. x[f] \in Entry /\ x[f] # Absent /\ f \in Files
    BY DEF Entries, Indexed
  <2>2. \A e \in x[f].edges : LiveEdge(e, x) = e
    BY <2>1, LiveEdgeIsClosed DEF Entry
  <2>3. {LiveEdge(e, x) : e \in x[f].edges} = x[f].edges
    BY <2>2
  <2>4. Materialize(x)[f] = [x[f] EXCEPT !.edges = {LiveEdge(e, x) : e \in @}]
    BY <2>1 DEF Materialize
  <2>5. QED
    BY <2>1, <2>3, <2>4 DEF Entry
<1>2. \A f \in Files : Materialize(x)[f] = x[f]
  BY <1>1 DEF Materialize, Indexed
<1>3. QED
  BY <1>2, MaterializeType DEF Entries

LEMMA RebuiltAfterCommit ==
    ASSUME TypeOK, RunShape, QuietInv, quiet, Commit, run.full \/ ReuseIsSound
    PROVE  index' = Rebuilt
<1>1. /\ run # Idle /\ run \in Run /\ Retained = {} /\ tree' = tree
      /\ Indexed(run.parsed) = Indexed(tree) /\ Indexed(NewEntries) = Indexed(tree)
      /\ \A f \in Indexed(tree) : Undisturbed(f) /\ NewEntries[f] = run.parsed[f].entry
  BY QuietCommit
<1> DEFINE x == ResolvedEntries
           new == NewEntries
           tables == SymbolsByPath(new)
<1>2. ASSUME NEW f \in Indexed(tree)
      PROVE  new[f] = FreshEntry(f) /\ run.parsed[f].references = ExtractReferences(tree[f])
  BY <1>1 DEF Undisturbed
<1>3. new = FreshEntries
  <2>1. \A f \in Files : new[f] = FreshEntries[f]
    BY <1>1, <1>2 DEF Indexed, FreshEntries
  <2>2. new = [f \in Files |-> new[f]]
    BY DEF NewEntries
  <2>3. FreshEntries = [f \in Files |-> FreshEntries[f]]
    BY DEF FreshEntries
  <2> HIDE DEF new
  <2>4. QED
    BY <2>1, <2>2, <2>3
<1>4. /\ x \in Entries /\ Indexed(x) = Indexed(tree) /\ SymbolsByPath(x) = tables
      /\ \A f \in Indexed(tree) :
            x[f].edges = new[f].edges \cup ResolveReferences(f, ExtractReferences(tree[f]),
                                                             tables, new[f].edges)
  BY <1>1, <1>2, ResolvedEntriesType
<1>5. x = Rebuilt
  <2>1. ASSUME NEW f \in Files
        PROVE  x[f] = IF tree[f] = Absent THEN Absent
                      ELSE [new[f] EXCEPT
                              !.edges = @ \cup ResolveReferences(
                                            f, ExtractReferences(tree[f]), tables, @)]
    <3>1. CASE tree[f] = Absent
      BY <1>4, <3>1 DEF Indexed
    <3>2. CASE tree[f] # Absent
      <4>1. f \in Indexed(run.parsed) /\ f \in Indexed(tree)
        BY <1>1, <3>2 DEF Indexed
      <4>2. x[f] = [new[f] EXCEPT
                      !.edges = @ \cup ResolveReferences(f, run.parsed[f].references,
                                                         tables, @)]
        BY <4>1, Zenon DEF ResolvedEntries
      <4>3. QED
        BY <1>2, <3>2, <4>1, <4>2
    <3>3. QED
      BY <3>1, <3>2
  <2> DEFINE Entered(f) ==
               IF tree[f] = Absent THEN Absent
               ELSE [new[f] EXCEPT
                       !.edges = @ \cup ResolveReferences(
                                     f, ExtractReferences(tree[f]), tables, @)]
  <2>2. Rebuilt = [f \in Files |-> Entered(f)]
    BY <1>3, RebuiltIs
  <2>3. x = [f \in Files |-> x[f]]
    BY DEF ResolvedEntries
  <2>4. \A f \in Files : x[f] = Entered(f)
    BY <2>1
  <2> HIDE DEF x, Entered
  <2>5. QED
    BY <2>2, <2>3, <2>4
<1>6. ASSUME NEW f \in Indexed(x), NEW e \in x[f].edges
      PROVE  Closed(e, x)
  <2>1. f \in Files /\ f \in Indexed(tree) /\ tree[f] \in Contents
    BY <1>4 DEF Indexed, TypeOK
  <2>2. new[f].edges = BuildImportEdges(tree[f])
    <3>1. FreshEntry(f).edges = BuildImportEdges(tree[f])
      BY DEF FreshEntry
    <3>2. QED
      BY <1>2, <2>1, <3>1
  <2>3. tables \in Tables
    BY <1>1, NewEntriesType, TablesOf
  <2>4. /\ BuildImportEdges(tree[f]) \in SUBSET Edge
        /\ ExtractReferences(tree[f]) \in SUBSET RawReference
        /\ \A d \in BuildImportEdges(tree[f]) : IsImport(d)
    BY <2>1, ImportEdgesType, ExtractionTypes
  <2>5. CASE e \in BuildImportEdges(tree[f])
    <3>1. IsImport(e) /\ e \in Edge
      BY <2>4, <2>5
    <3>2. e.target_file # Absent => e.target_file \in Indexed(tree)
      BY <3>1 DEF IsImport, Edge, Indexed
    <3>3. QED
      BY <1>4, <3>1, <3>2 DEF Closed, IsImport
  <2>6. CASE e \in ResolveReferences(f, ExtractReferences(tree[f]), tables, new[f].edges)
    <3>1. PICK r \in ExtractReferences(tree[f]) : Resolved(r, e, tables)
      BY <2>1, <2>2, <2>3, <2>4, <2>6, ReferencesAreResolved
    <3>2. CASE e.target_file = Absent /\ e.target_symbol = Absent
      BY <3>2 DEF Closed
    <3>3. CASE /\ e.target_file \in Files /\ e.target_symbol = <<e.target_file, r.name>>
               /\ r.name \in DOMAIN SymbolsByPath(x)[e.target_file]
      <4>1. e.target_file \in Indexed(x)
        BY <1>4, <3>3, TablesOf, NoSymbolsType
      <4>2. SymbolsByPath(x)[e.target_file] = x[e.target_file].symbols
        BY <1>4, <4>1, TablesOf
      <4>3. QED
        BY <3>3, <4>1, <4>2 DEF Closed
    <3>4. QED
      BY <1>4, <3>1, <3>2, <3>3 DEF Resolved
  <2>7. QED
    BY <1>4, <2>1, <2>2, <2>5, <2>6
<1>7. Materialize(x) = x
  BY <1>4, <1>6, MaterializedAsIs
<1>8. index' = Materialize(x)
  BY CommitLeaves
<1>9. QED
  BY <1>5, <1>7, <1>8

\* A rebuild nothing interferes with leaves the index of the tree, whatever
\* earlier runs left behind (core/update.py:177), and so does an incremental
\* update of an index that it is sound to reuse: resolving the references of
\* all files anew makes up for whatever changed in those they refer to.
THEOREM UpdateIsExact == Spec => QuietUpdateIsExact
<1>1. ASSUME TypeOK, RunShape, QuietInv, quiet, Commit, run.full \/ ReuseIsSound
      PROVE  index' = Rebuilt'
  <2>1. tree' = tree
    BY <1>1 DEF Commit
  <2>2. Rebuilt' = Rebuilt
    BY <2>1, RebuiltRigid
  <2>3. QED
    BY <1>1, <2>2, RebuiltAfterCommit
<1>2. TypeOK /\ RunShape /\ QuietInv =>
         [(quiet /\ Commit /\ (run.full \/ ReuseIsSound)) => (index = Rebuilt)']_vars
  BY <1>1
<1>3. QED
  BY <1>2, QuietInvariant, PTL DEF QuietUpdateIsExact

-----------------------------------------------------------------------------
(* When it is sound to reuse                                               *)

\* What an import resolves to depends on which files there are, and on no
\* content.
LEMMA ImportsOfTheSameFiles ==
    ASSUME Indexed(tree') = Indexed(tree), NEW c \in Contents
    PROVE  BuildImportEdges(c)' = BuildImportEdges(c)
<1>1. ASSUME NEW s \in Statements[c]
      PROVE  ResolveImportTarget(s)' = ResolveImportTarget(s)
  <2>1. s \in Seq(Files)
    BY CodeIndexAssumption
  <2>2. \A i \in DOMAIN s : s[i] \in Files
    BY <2>1
  <2>3. \A i \in DOMAIN s : tree'[s[i]] # Absent <=> tree[s[i]] # Absent
    BY <2>2 DEF Indexed
  <2>4. {i \in DOMAIN s : tree'[s[i]] # Absent} = {i \in DOMAIN s : tree[s[i]] # Absent}
    BY <2>3
  <2> DEFINE First(hits) ==
               IF hits = {} THEN Absent
               ELSE s[CHOOSE i \in hits : \A j \in hits : i <= j]
  <2>5. /\ ResolveImportTarget(s) = First({i \in DOMAIN s : tree[s[i]] # Absent})
        /\ ResolveImportTarget(s)' = First({i \in DOMAIN s : tree'[s[i]] # Absent})
    BY Zenon DEF ResolveImportTarget
  <2> HIDE DEF First
  <2>6. QED
    BY <2>4, <2>5
<1>2. {ImportEdge(ResolveImportTarget(s)') : s \in Statements[c]}
        = {ImportEdge(ResolveImportTarget(s)) : s \in Statements[c]}
  BY <1>1
<1>3. QED
  BY <1>2 DEF BuildImportEdges, ImportEdge

\* A rebuilt index can be reused: its import edges are those of the tree.
LEMMA RebuiltIsSound ==
    ASSUME TypeOK, torn = {}, index = Rebuilt
    PROVE  ReuseIsSound
<1>1. ASSUME NEW f \in Indexed(index)
      PROVE  ImportsOf(index[f].edges) = BuildImportEdges(index[f].content_hash)
  <2> DEFINE c == tree[f]
             fresh == BuildImportEdges(c)
             refs == ResolveReferences(f, ExtractReferences(c),
                                       SymbolsByPath(FreshEntries), fresh)
  <2>1. f \in Files /\ c # Absent
    BY RebuiltIs DEF Indexed
  <2>2. c \in Contents
    BY <2>1 DEF TypeOK
  <2>3. FreshEntries[f] = FreshEntry(f)
    BY <2>1 DEF FreshEntries
  <2>4. Rebuilt[f] = [FreshEntries[f] EXCEPT
                         !.edges = @ \cup ResolveReferences(f, ExtractReferences(c),
                                                           SymbolsByPath(FreshEntries), @)]
    BY <2>1, RebuiltIs
  <2>5. Rebuilt[f] = [content_hash |-> c, status |-> ParsedStatus(c),
                      symbols |-> ExtractSymbols(c), edges |-> fresh \cup refs]
    BY <2>3, <2>4 DEF FreshEntry
  <2>6. index[f].content_hash = c /\ index[f].edges = fresh \cup refs
    BY <2>5
  <2>7. \A e \in fresh : e.edge_type = "imports"
    BY <2>2, ImportEdgesType DEF IsImport
  <2>8. \A e \in refs : e.edge_type # "imports"
    BY <2>2, ExtractionTypes DEF ResolveReferences, ResolveReference, ReferenceEdge,
         RawReference, ReferenceType
  <2> HIDE DEF c, fresh, refs
  <2>9. ImportsOf(fresh \cup refs) = fresh
    BY <2>7, <2>8 DEF ImportsOf
  <2>10. QED
    BY <2>6, <2>9 DEF fresh
<1>2. QED
  BY <1>1 DEF ReuseIsSound

LEMMA SoundStep ==
    ASSUME TypeOK, RunShape, QuietInv, [Next]_vars,
           \/ Commit /\ quiet /\ run.full
           \/ ReuseIsSound /\ Indexed(tree') = Indexed(tree) /\ (Commit => quiet)
    PROVE  ReuseIsSound'
<1>1. CASE Commit
  <2>1. quiet /\ (run.full \/ ReuseIsSound)
    BY <1>1
  <2>2. index' = Rebuilt /\ tree' = tree
    BY <1>1, <2>1, RebuiltAfterCommit DEF Commit
  <2>3. index' = Rebuilt'
    BY <2>2, RebuiltRigid
  <2>4. torn' = {}
    <3>1. /\ Retained = {} /\ Indexed(run.parsed) = Indexed(tree)
          /\ \A f \in Indexed(tree) : run.parsed[f].same
      BY <1>1, <2>1, QuietCommit DEF Undisturbed
    <3>2. QED
      BY <1>1, <3>1 DEF Commit
  <2>5. TypeOK'
    BY TypeStep
  <2>6. (TypeOK /\ torn = {} /\ index = Rebuilt => ReuseIsSound)'
    BY RebuiltIsSound, PTL
  <2>7. QED
    BY <2>3, <2>4, <2>5, <2>6
<1>2. CASE LoseCache
  <2>1. torn' = {} /\ Indexed(index') = {}
    BY <1>2 DEF LoseCache, Indexed
  <2>2. QED
    BY <2>1 DEF ReuseIsSound
<1>3. CASE index' = index /\ torn' = torn /\ ~ Commit
  <2>1. ReuseIsSound /\ Indexed(tree') = Indexed(tree)
    BY <1>3
  <2>2. \A f \in Indexed(index) : index[f].content_hash \in Contents
    BY DEF TypeOK, Indexed, Entry
  <2>3. \A c \in Contents : BuildImportEdges(c)' = BuildImportEdges(c)
    BY <2>1, ImportsOfTheSameFiles
  <2>4. QED
    BY <1>3, <2>1, <2>2, <2>3 DEF ReuseIsSound
<1>4. QED
  BY <1>1, <1>2, <1>3 DEF Next, Begin, Process, Abort, EditTree, vars

\* What the files of the tree are is all that the reused import edges depend on
\* besides the importing file (core/update.py:292, core/index/imports.py:72).
THEOREM SameFilesKeepImports == Spec => ReuseStaysSound
<1>1. TypeOK /\ RunShape /\ QuietInv /\ [Next]_vars =>
        [\/ Commit /\ quiet /\ run.full
         \/ ReuseIsSound /\ Indexed(tree)' = Indexed(tree) /\ (Commit => quiet)
         => ReuseIsSound']_vars
  <2>1. Indexed(tree)' = Indexed(tree')
    BY DEF Indexed
  <2>2. QED
    BY <2>1, SoundStep
<1>2. QED
  BY <1>1, QuietInvariant, PTL DEF Spec, ReuseStaysSound
=============================================================================
