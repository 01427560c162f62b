------------------------------ MODULE SourceLayers ------------------------------
(***************************************************************************)
(* What the repository enforces about its own source, as the programs that *)
(* read it decide: which layer may import which and the cycles among the   *)
(* imports (research/dependency-graph.ts), who may touch the database      *)
(* (research/layering-lint.ts), and where a market may be named            *)
(* (research/architecture-lint.ts).                                        *)
(*                                                                         *)
(* A file is a record of its name, its layer and whether it is a           *)
(* repository; a name is a number, in the order of the names.  An edge is  *)
(* an import of one file by another.  What a parser makes of a file is the *)
(* input here.                                                             *)
(***************************************************************************)
EXTENDS Integers, SequencesExt, FiniteSetsExt, TLC

CONSTANT HealthRegistry     \* the name of observability/health.registry.ts

-------------------------------------------------------------------------------
(* The table of layers. *)
Universal == {"types", "errors", "config", "instruments", "observability"}

Composition == {"services", "api", "research"}
MayImport ==
    [config |-> {"instruments", "strategies"},
     instruments |-> {"db", "config"},
     market |-> {"db"},
     signals |-> {"indicators", "strategies"},
     history |-> {"db", "market", "signals", "strategies"},
     outcomes |-> {"db", "market", "signals"},
     performance |-> {"outcomes", "signals"},
     analysis |-> {"db", "strategies"},
     backtest |-> {"db", "market", "indicators", "signals", "strategies"},
     observability |-> {"db"}]
    @@ [layer \in {"types", "errors", "db", "indicators", "strategies", "risk"} \cup Composition |-> {}]
Declared == DOMAIN MayImport

EntryPoints == {"app.ts", "server.ts", "bootstrap"}
UnplacedCore == {"lifecycle", "properties"}

Permits(from, to) ==
    \/ from = to \/ to \in Universal
    \/ from \in EntryPoints
    \/ from \in Declared /\ (from \in Composition \/ to \in MayImport[from])

(* A repository may import the database from wherever it is. *)
PermitsFile(from, to) ==
    \/ from.repository /\ to.layer = "db"
    \/ Permits(from.layer, to.layer)

-------------------------------------------------------------------------------
(* The graph.  A specifier is the list of paths it may stand for, in the order they
   are tried; that of a package stands for none. *)
OutOfTree == 0
ResolveInternal(candidates, known) ==
    LET hits == SelectSeq(candidates, LAMBDA c : c \in known)
    IN IF hits = << >> THEN OutOfTree ELSE hits[1]

(* The imports of all files in the order of the files, as edges. *)
BuildGraph(files, specifiers) ==
    LET known == {files[i].name : i \in DOMAIN files}
        FileNamed(name) == CHOOSE f \in {files[i] : i \in DOMAIN files} : f.name = name
        targets(f) == SelectSeq([i \in DOMAIN specifiers[f.name] |->
                                     ResolveInternal(specifiers[f.name][i], known)],
                                LAMBDA t : t # OutOfTree)
        edgesOf(f) == [i \in DOMAIN targets(f) |-> [from |-> f, to |-> FileNamed(targets(f)[i])]]
    IN FlattenSeq([i \in DOMAIN files |-> edgesOf(files[i])])

Internal(edge) == edge.from.layer = edge.to.layer
Crossing(edges) == SelectSeq(edges, LAMBDA e : ~Internal(e))

Violations(edges) == SelectSeq(Crossing(edges), LAMBDA e : ~PermitsFile(e.from, e.to))
ViolationKind(edge) ==
    IF {edge.from.layer, edge.to.layer} \subseteq Declared THEN "forbidden-layer" ELSE "unplaced-layer"

FilesOf(edges) == UNION {{edges[i].from, edges[i].to} : i \in DOMAIN edges}
UnplacedLayers(edges) == {f.layer : f \in FilesOf(edges)} \ (Declared \cup EntryPoints \cup UnplacedCore)

-------------------------------------------------------------------------------
(* findCycle: a depth-first search over the edges of one kind, each node in the order
   of its edges, the nodes in the order of their names.  `stack` is the way to the
   node, and `trail` its edges. *)
NoCycle == [files |-> << >>, edges |-> << >>]

RECURSIVE Visit(_, _, _)
Visit(edges, node, search) ==
    LET entered == [search EXCEPT !.state = [@ EXCEPT ![node] = "on the stack"],
                                  !.stack = Append(@, node)]
        Follow(s, e) ==
            CASE s.found # NoCycle -> s
              [] s.found = NoCycle /\ s.state[e.to] = "on the stack" ->
                    LET cut == CHOOSE i \in DOMAIN s.stack : s.stack[i] = e.to
                    IN [s EXCEPT !.found = [files |-> SubSeq(s.stack, cut, Len(s.stack)),
                                            edges |-> Append(SubSeq(s.trail, cut, Len(s.trail)), e)]]
              [] s.found = NoCycle /\ s.state[e.to] = "new" ->
                    LET after == Visit(edges, e.to, [s EXCEPT !.trail = Append(@, e)])
                    IN [after EXCEPT !.trail = Front(@)]
              [] OTHER -> s
        left == FoldLeft(Follow, entered, SelectSeq(edges, LAMBDA e : e.from = node))
    IN [left EXCEPT !.stack = Front(@), !.state = [@ EXCEPT ![node] = "done"]]

FindCycle(edges, internal) ==
    LET considered == SelectSeq(edges, LAMBDA e : Internal(e) = internal)
        starts == SetToSortSeq({considered[i].from : i \in DOMAIN considered},
                               LAMBDA f, g : f.name < g.name)
        fresh == [state |-> [f \in FilesOf(considered) |-> "new"], stack |-> << >>,
                  trail |-> << >>, found |-> NoCycle]
        Begin(s, node) ==
            IF s.state[node] = "new" /\ s.found = NoCycle THEN Visit(considered, node, s) ELSE s
    IN FoldLeft(Begin, fresh, starts).found

-------------------------------------------------------------------------------
(* The summary: of each layer its files, and its edges out and in by layer. *)
Between(edges, from, to) ==
    Len(SelectSeq(Crossing(edges), LAMBDA e : e.from.layer \in from /\ e.to.layer \in to))

LayerRow(edges, layer, all) ==
    [layer |-> layer,
     files |-> Cardinality({f \in FilesOf(edges) : f.layer = layer}),
     out |-> Between(edges, {layer}, all), in |-> Between(edges, all, {layer}),
     outTo |-> [to \in {l \in all : Between(edges, {layer}, {l}) > 0} |-> Between(edges, {layer}, {to})],
     inFrom |-> [from \in {l \in all : Between(edges, {l}, {layer}) > 0} |->
                    Between(edges, {from}, {layer})]]

(* A layer that imports and that nothing imports, unless it is there to compose. *)
Unreachable(rows) ==
    {row \in rows : row.in = 0 /\ row.out > 0 /\ row.layer \notin Composition \cup EntryPoints}

Summarise(edges) ==
    LET all == {f.layer : f \in FilesOf(edges)}
        rows == {LayerRow(edges, layer, all) : layer \in all}
    IN [edges |-> Len(edges), internal |-> Len(edges) - Len(Crossing(edges)),
        byLayer |-> rows, unreachable |-> Unreachable(rows),
        violations |-> Violations(edges), unplaced |-> UnplacedLayers(edges),
        cycle |-> FindCycle(edges, FALSE), internalCycle |-> FindCycle(edges, TRUE)]

-------------------------------------------------------------------------------
(* layering-lint.ts: of what a file imports from the database, the names that read or
   write it.  Of a statement only the list of its names is read, or else its default,
   which is known by its local name; a namespace, a name that is exported again and
   an import at run time are not. *)
DatabaseAccessors == {"query", "withTransaction", "getPool", "getDatabasePool"}

DatabaseImports(imports) ==
    {i.local : i \in {j \in imports : j.form = "default" /\ j.layer = "db"
                                         /\ j.local \in DatabaseAccessors}}
      \cup {i.exported : i \in {j \in imports : j.form = "named" /\ j.layer = "db"
                                                   /\ j.exported \in DatabaseAccessors}}

(* The lint passes over the data layer, the registry of health checks and, as seams,
   the repositories; it does not look into research. *)
LintAudit(files, imports) ==
    LET touching == {f \in files : /\ f.layer \notin {"db", "research"}
                                   /\ DatabaseImports(imports[f]) # {}}
        exempt == {f \in touching : f.name = HealthRegistry}
        seams == {f \in touching \ exempt : f.repository}
    IN [exempt |-> exempt, seams |-> seams,
        offences |-> UNION {{[file |-> f, symbol |-> s] : s \in DatabaseImports(imports[f])} :
                               f \in touching \ (exempt \cup seams)}]

-------------------------------------------------------------------------------
(* architecture-lint.ts: the lines of a text by the offsets they start at, and the
   line of an offset by bisection. *)
LineStarts(text) ==
    <<0>> \o SetToSortSeq({i \in DOMAIN text : text[i] = "newline"}, <)

LineAt(starts, offset) ==
    LET Line[low, high \in 0..Len(starts)] ==
            IF low >= high THEN low + 1
            ELSE LET middle == (low + high + 1) \div 2
                 IN IF starts[middle + 1] <= offset THEN Line[middle, high] ELSE Line[low, middle - 1]
    IN Line[0, Len(starts) - 1]

(* What a scan finds: literals and declared names that say a market, which are code,
   and mentions in comments, which are no decision of the program. *)
Exempt(file) == file.layer \in {"config", "research"}

ScanFile(file, nodes) ==
    LET found(n) ==
            [file |-> file, line |-> n.line,
             kind |-> IF n.is = "comment" THEN "comment" ELSE "code",
             via |-> IF n.is = "declaration" THEN "identifier" ELSE "literal",
             exempted |-> n.is = "comment" \/ Exempt(file)]
        named == SelectSeq(nodes, LAMBDA n : n.market /\ n.is \in {"literal", "declaration", "comment"})
    IN SortSeq([i \in DOMAIN named |-> found(named[i])], LAMBDA a, b : a.line < b.line)

MarketAudit(files, nodes) ==
    LET all == FlattenSeq([i \in DOMAIN files |-> ScanFile(files[i], nodes[i])])
        Count(Test(_)) == Len(SelectSeq(all, Test))
    IN [occurrences |-> all,
        documented |-> Count(LAMBDA o : o.kind = "comment"),
        configured |-> Count(LAMBDA o : o.kind = "code" /\ o.exempted),
        violations |-> SelectSeq(all, LAMBDA o : o.kind = "code" /\ ~o.exempted),
        named |-> Count(LAMBDA o : o.via = "identifier")]
=================================================================================
