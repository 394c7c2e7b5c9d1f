------------------------------- MODULE Derived -------------------------------
(* Variables that no file stores: formulas (analysis/formula.rs and         *)
(* data/formula.rs), differences of two files (data/diff.rs), and the       *)
(* collection of all files that a variable of the timeline stands for       *)
(* (data/virtual_dataset.rs), with the commands of main.rs that choose      *)
(* among them.  A cell is a term over the elements it was computed from,    *)
(* so that it tells which indices of which file were read.  A read is       *)
(* answered at once: the order of answers is the subject of SliceLoading,   *)
(* readers and windows are that of PlaneReads.                              *)
EXTENDS Naturals, SequencesExt, FiniteSetsExt

CONSTANTS Openings,     \* the files of a start: two sequences, the second for --diff
          Formula,      \* name |-> expression
          Listing,      \* names of variables in the order of the list, areas first
          MaxFormulas   \* bound

VARIABLES raw,       \* raw_sources: metadata, and one file or the two of a difference
          formulas,  \* names of the formulas defined
          sources,   \* metadata of the sources with their formulas
          manifest,  \* variable |-> whether the files agree on it, and its frames
          field,     \* variable, file, slot of the timeline, depth, fixed dimensions, axes
          line,      \* timeline
          shown      \* the plane last read, with the field it was read for

derivedVars == <<raw, formulas, sources, manifest, field, line, shown>>

-----------------------------------------------------------------------------
\* Sources

\* the pairing of the files of --diff
Paired(ours, theirs) ==
    LET count == CASE Len(ours) = Len(theirs) \/ Len(theirs) = 1 -> Len(ours)
                   [] Len(ours) # Len(theirs) /\ Len(ours) = 1 -> Len(theirs)
                   [] OTHER -> Min({Len(ours), Len(theirs)})
        Nth(files, i) == IF Len(files) = 1 THEN files[1] ELSE files[i]
    IN  [i \in 1 .. count |-> <<Nth(ours, i), Nth(theirs, i)>>]

SourcesOf(o) == IF o.second = << >> THEN [i \in DOMAIN o.first |-> <<o.first[i]>>]
                ELSE Paired(o.first, o.second)

\* DiffSource::new
InBoth(f, g) ==
    {v \in DOMAIN f.stored \cap DOMAIN g.stored :
       /\ f.stored[v] = g.stored[v]
       /\ \A d \in ToSet(f.stored[v]) : f.dims[d].length = g.dims[d].length}

\* the metadata of a source; the variables of a file are numeric
MetaOf(files) ==
    IF Len(files) = 1 THEN files[1]
    ELSE [files[1] EXCEPT !.stored = [v \in InBoth(files[1], files[2]) |-> files[1].stored[v]]]

RawOf(o) ==
    [i \in DOMAIN SourcesOf(o) |-> [meta |-> MetaOf(SourcesOf(o)[i]), files |-> SourcesOf(o)[i]]]

Meta(i)  == raw[i].meta
FilesOf(i) == raw[i].files

NotANumber == [op |-> "missing", args |-> << >>]
Apply(op, args) == IF NotANumber \in ToSet(args) THEN NotANumber ELSE [op |-> op, args |-> args]

ElementOf(f, v, at) ==
    IF [variable |-> v, at |-> at] \in f.gaps THEN NotANumber
    ELSE [op |-> "read", args |-> << >>, file |-> f.name, variable |-> v, at |-> at]

\* diff_slices, or the reader of the one file
CellOf(i, v, at) ==
    LET cells == [k \in DOMAIN FilesOf(i) |-> ElementOf(FilesOf(i)[k], v, at)]
    IN  IF Len(cells) = 1 THEN cells[1] ELSE Apply("minus", cells)

-----------------------------------------------------------------------------
\* Dimensions

PlaceOf(m, dims, role, otherwise) ==
    LET P == {p \in DOMAIN dims : m.dims[dims[p]].role = role}
    IN  IF P = {} THEN otherwise ELSE Min(P)

CountedAs(m, dims, p) ==
    LET role == m.dims[dims[p]].role IN
    CASE role \in {"time", "depth"} -> role
      [] role \notin {"time", "depth"} /\ p = 1 -> "time"
      [] role \notin {"time", "depth"} /\ p = 2 -> "depth"
      [] OTHER -> "other"

\* leading_axes: the place of the logical time or depth axis, or 0
Leading(m, dims, axis) ==
    LET rest == DOMAIN dims \ {PlaceOf(m, dims, "lat", Len(dims) - 1), PlaceOf(m, dims, "lon", Len(dims))}
    IN  Max({0} \cup {p \in rest : CountedAs(m, dims, p) = axis})

\* leading_lengths
LeadingSteps(m, v, axis) ==
    LET p == Leading(m, m.stored[v], axis)
    IN  IF p = 0 THEN 1 ELSE m.dims[m.stored[v][p]].length

-----------------------------------------------------------------------------
\* Formulas

RECURSIVE References(_)
References(e) ==
    IF e.op = "ref" THEN <<e>> ELSE FlattenSeq([k \in DOMAIN e.args |-> References(e.args[k])])

RECURSIVE DependsOn(_, _)
DependsOn(e, axis) ==
    \/ e.op = "ref"
    \/ e.axis # axis /\ \E k \in DOMAIN e.args : DependsOn(e.args[k], axis)

Primary(n) == References(Formula[n])[1]

\* FormulaDefinition::anchor: the only file of a formula, or 0
Anchor(n) ==
    IF \E r \in ToSet(References(Formula[n])) : r.dataset = 0 THEN 0 ELSE Primary(n).dataset

OperandSource(i, r) == IF r.dataset = 0 THEN i ELSE r.dataset

\* FormulaSource::resolve
Resolves(i, r) ==
    LET s == OperandSource(i, r)
    IN  s \in DOMAIN raw /\ r.name \in DOMAIN Meta(s).stored /\ Len(Meta(s).stored[r.name]) >= 2

ResultDims(i, n) ==
    LET m == Meta(OperandSource(i, Primary(n)))
        dims == m.stored[Primary(n).name]
        dropped == {Leading(m, dims, axis) : axis \in {a \in {"time", "depth"} : ~DependsOn(Formula[n], a)}}
    IN  SelectSeq(dims, LAMBDA d : \A p \in dropped \ {0} : dims[p] # d)

\* FormulaSource::add and apply_formulas
Accepts(i, n) ==
    /\ Anchor(n) \in {0, i}
    /\ n \notin DOMAIN Meta(i).stored
    /\ \A r \in ToSet(References(Formula[n])) : Resolves(i, r)
    /\ Len(ResultDims(i, n)) >= 2

\* the metadata of a source with its formulas
Wrapped(i, F) ==
    LET N == {n \in F : Accepts(i, n)}
    IN  [Meta(i) EXCEPT
           !.stored = @ @@ [n \in N |-> ResultDims(i, n)],
           !.dims = FoldSet(LAMBDA n, d : d @@ Meta(OperandSource(i, Primary(n))).dims, @, N)]

\* Mutant: the labels of a formula are those of the file on screen.
LabelsOfBase(i, x) == i

\* FormulaSource::label_target: the source of labels and coordinate values
LabelTarget(i, x) == IF x \in DOMAIN Formula THEN OperandSource(i, Primary(x)) ELSE i

\* time_label_for_variable and parse_time_label: 0 is not a time
TimeLabel(i, x, t) ==
    LET times == Meta(LabelTarget(i, x)).times IN
    IF (x \in DOMAIN Formula => DependsOn(Formula[x], "time")) /\ t + 1 \in DOMAIN times
    THEN times[t + 1] ELSE 0

CoordinateValues(i, x) == Meta(LabelTarget(i, x)).values

-----------------------------------------------------------------------------
\* Evaluation

\* The window is that of the first operand, so that the planes of all operands have
\* its shape and the cells of the result are computed one by one.

Failed == [kind |-> "error"]

\* a reader finds all of the window
HasPlane(m, v, q) ==
    \A d \in {<<q.row, q.rows>>, <<q.col, q.cols>>} :
      d[1] \in ToSet(m.stored[v]) /\ m.dims[d[1]].length >= d[2]

\* Mutant: dimensions without a role stay at the beginning.
OperandIndexAtStart(m, dims, q, p, time, depth) ==
    Min({CASE p = Leading(m, dims, "time") -> time
           [] p = Leading(m, dims, "depth") -> depth [] OTHER -> 0,
         m.dims[dims[p]].length - 1})

\* SliceInputs::read: the index of the operand's dimension at place p
OperandIndex(m, dims, q, p, time, depth) ==
    Min({CASE p = Leading(m, dims, "time") -> time
           [] p = Leading(m, dims, "depth") -> depth
           [] OTHER -> IF dims[p] \in DOMAIN q.fixed THEN q.fixed[dims[p]] ELSE 0,
         m.dims[dims[p]].length - 1})

\* the dimensions of the plane follow the cell
CellAt(i, v, q, cell, rest) ==
    CellOf(i, v, [d \in ToSet(Meta(i).stored[v]) |->
                    CASE d = q.row -> cell[1] [] d = q.col -> cell[2] [] OTHER -> rest[d]])

\* axis_index
InSteps(index, steps) == steps <= 1 \/ index < steps

OperandReadable(q, r, time, depth) ==
    LET m == Meta(OperandSource(q.source, r))
    IN  /\ InSteps(time, LeadingSteps(m, r.name, "time"))
        /\ InSteps(depth, LeadingSteps(m, r.name, "depth"))
        /\ HasPlane(m, r.name, q)

OperandCell(q, r, cell, time, depth) ==
    LET s == OperandSource(q.source, r)
        m == Meta(s)
        dims == m.stored[r.name]
        Bounded(index, axis) == IF LeadingSteps(m, r.name, axis) <= 1 THEN 0 ELSE index
        IndexOf(p) == OperandIndex(m, dims, q, p, Bounded(time, "time"), Bounded(depth, "depth"))
    IN  CellAt(s, r.name, q, cell,
               [d \in ToSet(dims) |-> IndexOf(SelectInSeq(dims, LAMBDA c : c = d))])

\* aggregate: the steps of the operands that have more than one
StepsOf(q, e) ==
    {LeadingSteps(Meta(OperandSource(q.source, r)), r.name, e.axis) : r \in ToSet(References(e))} \ {1}
Steps(q, e) == 1 .. Max({1} \cup StepsOf(q, e))

OnTime(e, k, time)   == IF e.axis = "time" THEN k - 1 ELSE time
OnDepth(e, k, depth) == IF e.axis = "depth" THEN k - 1 ELSE depth

RECURSIVE Evaluates(_, _, _, _)
Evaluates(e, q, time, depth) ==
    CASE e.op = "ref" -> OperandReadable(q, e, time, depth)
      [] e.axis # "none" ->
           /\ Cardinality(StepsOf(q, e)) <= 1
           /\ \A k \in Steps(q, e) : Evaluates(e.args[1], q, OnTime(e, k, time), OnDepth(e, k, depth))
      [] OTHER -> \A k \in DOMAIN e.args : Evaluates(e.args[k], q, time, depth)

\* eval, map, combine and aggregate, for one cell
RECURSIVE Eval(_, _, _, _, _)
Eval(e, q, cell, time, depth) ==
    CASE e.op = "ref" -> OperandCell(q, e, cell, time, depth)
      [] e.axis # "none" ->
           LET valid == SelectSeq(
                  [k \in Steps(q, e) |-> Eval(e.args[1], q, cell, OnTime(e, k, time), OnDepth(e, k, depth))],
                  LAMBDA c : c # NotANumber)
           IN  IF valid = << >> THEN NotANumber ELSE [op |-> e.op, args |-> valid]
      [] OTHER -> Apply(e.op, [k \in DOMAIN e.args |-> Eval(e.args[k], q, cell, time, depth)])

\* FormulaSource::read_with
Result(q) ==
    LET of == IF q.variable \in DOMAIN Formula THEN Formula[q.variable] ELSE [op |-> "stored"]
        Found == IF of.op = "stored" THEN HasPlane(Meta(q.source), q.variable, q)
                    ELSE Evaluates(of, q, q.time, q.depth)
        Cell(p) == IF of.op = "stored" THEN CellAt(q.source, q.variable, q, p, q.fixed)
                   ELSE Eval(of, q, p, q.time, q.depth)
    IN  IF Found
        THEN [kind |-> "grid", cells |-> [p \in (0 .. q.rows - 1) \X (0 .. q.cols - 1) |-> Cell(p)]]
        ELSE Failed

-----------------------------------------------------------------------------
\* The collection and its timeline

SameShape(m, n, x) ==
    /\ m.format = n.format /\ m.stored[x] = n.stored[x]
    /\ \A d \in ToSet(m.stored[x]) :
         /\ m.dims[d].role = n.dims[d].role
         /\ m.dims[d].length = n.dims[d].length \/ m.dims[d].role = "time"

SameOn(D, i, j, x) ==
    LET a == CoordinateValues(i, x)
        b == CoordinateValues(j, x)
    IN  \A d \in D \cap DOMAIN a \cap DOMAIN b : a[d] = b[d]

SameCorners(i, j, x) ==
    \/ Meta(i).format = "grib2" \/ Meta(j).format = "grib2"
    \/ Meta(LabelTarget(i, x)).corners = Meta(LabelTarget(j, x)).corners

\* Mutant: each file is compared with the one before it.
CompatibleWithPrevious(W, x) ==
    /\ \A i \in DOMAIN W : x \in DOMAIN W[i].stored
    /\ \A i \in 2 .. Len(W) :
         /\ SameShape(W[i - 1], W[i], x)
         /\ SameOn(ToSet(W[1].stored[x]), i - 1, i, x)
         /\ SameCorners(i - 1, i, x)

\* VirtualVariable::compatible after validate_source_semantics: every file is compared
\* with the first, on the dimensions both store values for
IsCompatible(W, x) ==
    /\ \A i \in DOMAIN W : x \in DOMAIN W[i].stored
    /\ \A i \in DOMAIN W :
         /\ SameShape(W[1], W[i], x)
         /\ SameOn(ToSet(W[1].stored[x]), 1, i, x)
         /\ SameCorners(1, i, x)

\* from_sources: the frames in the order of the files
Frames(W, x) ==
    FlattenSeq([i \in DOMAIN W |->
      IF x \notin DOMAIN W[i].stored THEN << >>
      ELSE [k \in 1 .. LeadingSteps(W[i], x, "time") |->
              [source |-> i, local |-> k - 1, label |-> TimeLabel(i, x, k - 1)]]])

ManifestOf(W) ==
    [x \in UNION {DOMAIN W[i].stored : i \in DOMAIN W} |->
       [compatible |-> IsCompatible(W, x), frames |-> Frames(W, x)]]

\* compare_time_labels: what is no time comes last; then source and index
Precedes(p, q) ==
    \/ p.label # 0 /\ (q.label = 0 \/ p.label < q.label)
    \/ p.label = q.label /\ p.source < q.source
    \/ p.label = q.label /\ p.source = q.source /\ p.local < q.local

\* configure_timeline
LineOf(M, x, active) ==
    SortSeq(SelectSeq(M[x].frames, LAMBDA p : M[x].compatible \/ p.source = active), Precedes)

PointOf(v, l) == IF v.slot < Len(l) THEN l[v.slot + 1] ELSE [source |-> v.file, local |-> 0, label |-> 0]

HeldAt(m, v, d) == d \notin {v.row, v.col} /\ m.dims[d].role \notin {"time", "depth"}

\* load_selected: the depth and the fixed dimensions come back into range
InRange(m, v) ==
    LET deep == {d \in ToSet(m.stored[v.variable]) : m.dims[d].role = "depth"}
        levels == IF deep = {} \/ deep \cap {v.row, v.col} # {} THEN 1
                  ELSE m.dims[CHOOSE d \in deep : TRUE].length
    IN  [v EXCEPT !.depth = Min({@, levels - 1}),
                  !.fixed = [d \in ToSet(m.stored[v.variable]) |->
                     IF HeldAt(m, v, d) /\ d \in DOMAIN @ THEN Min({@[d], m.dims[d].length - 1}) ELSE 0]]

\* fixed_axes_for_plane and the request
RequestFor(m, v, point) ==
    [variable |-> v.variable, source |-> point.source, time |-> point.local, depth |-> v.depth,
     row |-> v.row, col |-> v.col,
     rows |-> m.dims[v.row].length, cols |-> m.dims[v.col].length,
     fixed |-> [d \in ToSet(m.stored[v.variable]) \ {v.row, v.col} |->
        Min({CASE m.dims[d].role = "time" -> point.local
               [] m.dims[d].role = "depth" -> v.depth [] OTHER -> v.fixed[d],
             m.dims[d].length - 1})]]

\* load_selected and the answer; the active file follows the timeline
LoadField(v, l, W) ==
    LET point == PointOf(v, l)
        m == W[point.source]
        w == InRange(m, [v EXCEPT !.file = point.source])
        there == v.variable \in DOMAIN m.stored /\ {v.row, v.col} \subseteq ToSet(m.stored[v.variable])
    IN  /\ line' = l
        /\ IF there
           THEN field' = w /\ shown' = [of |-> w, plane |-> Result(RequestFor(m, w, point))]
           ELSE field' = [v EXCEPT !.file = point.source] /\ UNCHANGED shown

\* configure_timeline and the read
Configured(v, W, M) ==
    LET l == LineOf(M, v.variable, v.file)
    IN  LoadField([v EXCEPT !.slot = IF l = << >> THEN 0 ELSE Min({@, Len(l) - 1})], l, W)

-----------------------------------------------------------------------------
\* Commands

DefaultPlane(m, x) ==
    LET dims == m.stored[x]
    IN  <<dims[PlaceOf(m, dims, "lat", Len(dims) - 1)], dims[PlaceOf(m, dims, "lon", Len(dims))]>>

\* select_variable and select_initial_variable, as the file w knows the variable
OnVariable(v, x, w) ==
    LET axes == DefaultPlane(w, x)
    IN  [v EXCEPT !.variable = x, !.fixed = << >>, !.row = axes[1], !.col = axes[2]]

\* select_initial_variable: the most dimensions, of these the last in the list
InitialOf(W) ==
    LET Names == UNION {DOMAIN W[i].stored : i \in DOMAIN W}
        RankOf(x) == Max({Len(W[i].stored[x]) : i \in {j \in DOMAIN W : x \in DOMAIN W[j].stored}})
        Longest == {x \in Names : \A y \in Names : RankOf(x) >= RankOf(y)}
        Listed(x) == SelectInSeq(Listing, LAMBDA z : z = x)
    IN  CHOOSE x \in Longest : \A y \in Longest : Listed(x) >= Listed(y)

\* the file on screen if it has the variable, else the first that has
KnownBy(W, x, active) ==
    IF x \in DOMAIN W[active].stored THEN active
    ELSE Min({i \in DOMAIN W : x \in DOMAIN W[i].stored})

Chosen(v, x, W, active) == OnVariable(v, x, W[KnownBy(W, x, active)])

\* the state for another file, on its initial variable
FreshField(i, W) ==
    OnVariable([variable |-> "", file |-> i, slot |-> 0, depth |-> 0, fixed |-> << >>, row |-> "", col |-> ""],
               InitialOf(<<W[i]>>), W[i])

\* anchored_time_index: the slot of the file at the same index, else its first
AnchoredSlot(l, i, offset) ==
    LET slots == {k \in DOMAIN l : l[k].source = i}
        same == {k \in slots : Cardinality({j \in slots : j < k}) = offset}
    IN  IF slots = {} THEN 0 ELSE Min(IF same = {} THEN slots ELSE same) - 1

\* the first half of apply_formula_changes
Rebuilt(F) ==
    /\ formulas' = F
    /\ sources' = [i \in DOMAIN raw |-> Wrapped(i, F)]
    /\ manifest' = ManifestOf(sources')
    /\ UNCHANGED raw

\* a formula that no file can compute is kept, with an error
DefineFormula ==
    /\ Cardinality(formulas) < MaxFormulas
    /\ \E n \in DOMAIN Formula \ formulas :
         /\ Rebuilt(formulas \cup {n})
         /\ IF n \in DOMAIN manifest'
            THEN LET i == KnownBy(sources', n, field.file)
                 IN  Configured(Chosen([field EXCEPT !.file = i], n, sources', i), sources', manifest')
            ELSE UNCHANGED <<field, line, shown>>

\* fixed dimensions outlast the variable, and so do the axes if the next one is
\* unknown to the file on screen
DeleteFormula ==
    \E n \in formulas :
      /\ Rebuilt(formulas \ {n})
      /\ IF field.variable \in DOMAIN manifest' THEN UNCHANGED <<field, line, shown>>
         ELSE LET x == InitialOf(sources')
                  m == sources'[field.file]
                  next == IF x \in DOMAIN m.stored THEN OnVariable(field, x, m)
                          ELSE [field EXCEPT !.variable = x]
              IN  Configured([next EXCEPT !.fixed = field.fixed], sources', manifest')

Kept == UNCHANGED <<raw, formulas, sources, manifest>>

SelectField ==
    /\ \E x \in DOMAIN manifest : Configured(Chosen(field, x, sources, field.file), sources, manifest)
    /\ Kept

StepSlot ==
    /\ \E k \in 0 .. Len(line) - 1 : k # field.slot /\ LoadField([field EXCEPT !.slot = k], line, sources)
    /\ Kept

\* an index out of range is brought back by the load
StepIndex ==
    /\ \/ LoadField([field EXCEPT !.depth = 1 - @], line, sources)
       \/ \E d \in DOMAIN field.fixed : LoadField([field EXCEPT !.fixed[d] = 1 - @], line, sources)
    /\ Kept

\* any two dimensions, in stored order
ChooseAxes ==
    /\ field.variable \in DOMAIN sources[field.file].stored
    /\ LET dims == sources[field.file].stored[field.variable] IN
       \E p, q \in DOMAIN dims :
         p < q /\ LoadField([field EXCEPT !.row = dims[p], !.col = dims[q]], line, sources)
    /\ Kept

ChangeFile ==
    /\ \E i \in DOMAIN raw \ {field.file} :
         LET v == FreshField(i, sources)
             l == LineOf(manifest, v.variable, i)
         IN  LoadField([v EXCEPT !.slot = AnchoredSlot(l, i, PointOf(field, line).local)], l, sources)
    /\ Kept

DerivedInit ==
    /\ raw \in {RawOf(o) : o \in Openings}
    /\ formulas = {}
    /\ sources = [i \in DOMAIN raw |-> Meta(i)]
    /\ manifest = ManifestOf(sources)
    /\ LET v == FreshField(1, sources)
       IN  /\ line = LineOf(manifest, v.variable, 1)
           /\ field = InRange(Meta(1), v)
    /\ shown = [of |-> field, plane |-> Result(RequestFor(Meta(1), field, PointOf(field, line)))]

DerivedNext ==
    \/ DefineFormula \/ DeleteFormula \/ SelectField
    \/ StepSlot \/ StepIndex \/ ChooseAxes \/ ChangeFile

DerivedSpec == DerivedInit /\ [][DerivedNext]_derivedVars

-----------------------------------------------------------------------------
\* Properties

\* What the documentation says a formula means: a variable is read at the time,
\* the level and the other indices of a cell, told by roles and names.
Expression(x) ==
    IF x \in DOMAIN Formula THEN Formula[x]
    ELSE [op |-> "ref", name |-> x, dataset |-> 0, axis |-> "none", args |-> << >>]

DimsWithRole(m, v, role) == {d \in ToSet(m.stored[v]) : m.dims[d].role = role}
StepsAlong(i, r, role) ==
    LET m == Meta(OperandSource(i, r))
    IN  Max({1} \cup {m.dims[d].length : d \in DimsWithRole(m, r.name, role)})

MeantCell(i, r, at) ==
    LET m == Meta(OperandSource(i, r))
        Step(d, role) == IF m.dims[d].length = 1 THEN 0 ELSE at[role]
    IN  CellOf(OperandSource(i, r), r.name,
          [d \in ToSet(m.stored[r.name]) |->
             CASE m.dims[d].role \in {"time", "depth"} -> Step(d, m.dims[d].role)
               [] OTHER -> IF d \in DOMAIN at.other THEN at.other[d] ELSE 0])

RECURSIVE Meaning(_, _, _)
Meaning(e, i, at) ==
    CASE e.op = "ref" -> MeantCell(i, e, at)
      [] e.axis # "none" ->
           LET steps == Max({StepsAlong(i, r, e.axis) : r \in ToSet(References(e))})
               valid == SelectSeq([k \in 1 .. steps |-> Meaning(e.args[1], i, [at EXCEPT ![e.axis] = k - 1])],
                                  LAMBDA c : c # NotANumber)
           IN  IF valid = << >> THEN NotANumber ELSE [op |-> e.op, args |-> valid]
      [] OTHER -> Apply(e.op, [k \in DOMAIN e.args |-> Meaning(e.args[k], i, at)])

RECURSIVE AxesAggregated(_)
AxesAggregated(e) == {e.axis} \cup UNION {AxesAggregated(e.args[k]) : k \in DOMAIN e.args}

OnScreen == shown.of = field
SourceShown == PointOf(field, line).source
OperandsShown == ToSet(References(Expression(field.variable)))
ShownRole(d) == sources[SourceShown].dims[d].role
ShownRoles == {ShownRole(field.row), ShownRole(field.col)}

PositionOf(p) ==
    LET Step(role, otherwise) ==
            CASE ShownRole(field.row) = role -> p[1]
              [] ShownRole(field.row) # role /\ ShownRole(field.col) = role -> p[2]
              [] OTHER -> otherwise
    IN  [time |-> Step("time", PointOf(field, line).local), depth |-> Step("depth", field.depth),
         other |-> [field.fixed EXCEPT ![field.row] = p[1], ![field.col] = p[2]]]

\* Variables of different lengths are combined index by index, or cut to the first's.
LengthsAgree ==
    \A r, s \in OperandsShown :
      /\ \A role \in {"time", "depth"} :
           \/ StepsAlong(SourceShown, r, role) = StepsAlong(SourceShown, s, role)
           \/ 1 \in {StepsAlong(SourceShown, r, role), StepsAlong(SourceShown, s, role)}
      /\ \A d \in {field.row, field.col} :
           LET m == Meta(OperandSource(SourceShown, r))
               n == Meta(OperandSource(SourceShown, s))
           IN  d \in DOMAIN m.dims /\ d \in DOMAIN n.dims => m.dims[d].length = n.dims[d].length

\* With the axis of an aggregation on screen each step reads the same plane again.
AggregateHidden == AxesAggregated(Expression(field.variable)) \cap ShownRoles = {}

\* A dimension without a role at the first or second place counts as time or depth.
RolesAreTold ==
    \A r \in OperandsShown :
      LET m == Meta(OperandSource(SourceShown, r))
          dims == m.stored[r.name]
      IN  \A axis \in {"time", "depth"} :
            Leading(m, dims, axis) # 0 => m.dims[dims[Leading(m, dims, axis)]].role = axis

PlanesContainAxes ==
    \A r \in OperandsShown :
      {field.row, field.col} \subseteq ToSet(Meta(OperandSource(SourceShown, r)).stored[r.name])

\* Every cell of a derived plane is computed, as the formula says, from the elements
\* of its operands at the file, time, level and dimensions the view names: missing if
\* one of them is, over all valid steps in an aggregation.  And the plane is refused
\* only if an operand lacks one of its axes.  Excepted are the three cases above.
CellsAreOfOperands ==
    OnScreen /\ LengthsAgree /\ AggregateHidden
             /\ (field.variable \in DOMAIN Formula => RolesAreTold) =>
      /\ PlanesContainAxes => shown.plane.kind = "grid"
      /\ shown.plane.kind = "grid" =>
           \A p \in DOMAIN shown.plane.cells :
             shown.plane.cells[p] = Meaning(Expression(field.variable), SourceShown, PositionOf(p))

\* The planes of all slots of the timeline.
PlaneAt(k) ==
    LET point == line[k]
    IN  Result(RequestFor(sources[point.source], field, point))

\* Files are compared with the first only: on a dimension it stores no values for, two
\* later files of one timeline may differ.
FirstTells(x) == DOMAIN CoordinateValues(1, x)

\* A timeline over several files is one dataset: each slot can be read in its file,
\* an index of depth or of a fixed dimension means the same coordinate in any two of
\* them that store its values - though each was compared with the first alone, and
\* files in between may have none -, and no frame of the data comes twice: a field of
\* numbered files is in one file only.  Excepted is what FirstTells leaves out; and a
\* dimension without a role that counts as time has slots that are alike.
TimelineIsOneDataset ==
    OnScreen =>
      LET W == sources
          x == field.variable
          Fixed(i) == {d \in ToSet(W[i].stored[x]) \cap FirstTells(x) : W[i].dims[d].role # "time"}
      IN  /\ \A p \in ToSet(line) :
               x \in DOMAIN W[p.source].stored /\ p.local < LeadingSteps(W[p.source], x, "time")
          /\ \A p, q \in ToSet(line) :
               /\ SameShape(W[p.source], W[q.source], x)
               /\ SameOn(Fixed(p.source), p.source, q.source, x)
          /\ "time" \notin ShownRoles /\ RolesAreTold =>
               \A j, k \in DOMAIN line : j < k /\ PlaneAt(j) # Failed => PlaneAt(j) # PlaneAt(k)

RECURSIVE ReadsOf(_)
ReadsOf(c) == IF c.op = "read" THEN {c} ELSE UNION {ReadsOf(c.args[k]) : k \in DOMAIN c.args}

TimeOf(c) ==
    LET f == CHOOSE g \in UNION {ToSet(FilesOf(i)) : i \in DOMAIN raw} : g.name = c.file
        T == DimsWithRole(f, c.variable, "time")
    IN  {f.times[c.at[d] + 1] : d \in {t \in T : c.at[t] + 1 \in DOMAIN f.times}}

\* Time never runs backwards along the timeline, and a valid time on screen is that of
\* the elements of the first operand the cells are computed from.
LabelIsOfData ==
    LET x == field.variable
        operand == References(Expression(x))[1]
        label == PointOf(field, line).label
    IN  /\ \A k \in 1 .. Len(line) - 1 :
             line[k + 1].label # 0 => line[k].label # 0 /\ line[k].label <= line[k + 1].label
        /\ OnScreen /\ shown.plane.kind = "grid" /\ "time" \notin ShownRoles =>
             \A p \in DOMAIN shown.plane.cells :
               LET reads == {c \in ReadsOf(shown.plane.cells[p]) : c.variable = operand.name}
               IN  reads = {} \/ label = 0 \/ (\A c \in reads : TimeOf(c) = {})
                     \/ \E c \in reads : label \in TimeOf(c)

\* As documented: when several files form one collection, the timeline spans all of
\* them.  Files form one collection if only their times differ.
TimelineSpansFiles ==
    LET W == sources
        x == field.variable
        Untimed == {d \in ToSet(W[1].stored[x]) : W[1].dims[d].role # "time"}
    IN  (\A i \in DOMAIN W :
           x \in DOMAIN W[i].stored /\ SameShape(W[1], W[i], x) /\ SameCorners(1, i, x)
             /\ SameOn(Untimed, 1, i, x))
          => \A i \in DOMAIN W : \E p \in ToSet(line) : p.source = i
=============================================================================
