# A TLA+ model of OpenGeode

OpenGeode is a C++ library for geometric meshes and geological models.  A mesh
is a set of indexed elements with attributes; a model (a `Section` or a `BRep`)
is a set of mesh components, the relations between them, and the identification
of the vertices that several of their meshes share.  Very little of the library
is an algorithm on its own.  Most of it is **the same fact stored twice and kept
in step by hand**: the edges and the lists of edges around vertices, the index
of a component and the component of an index, the unique vertex of a mesh vertex
and the mesh vertices of a unique vertex.  Every deletion and every permutation
renumbers one side before the other.  What is concurrent is small and dense: one
atomic word from which all uuids are drawn, and values cached behind `const`
methods.  This project models those two things.

Paths below are relative to the root of the repository (`src/` in
`PROJECT.json` stands for it).

## Inventory

| Part | State | Operations | Hard because |
|---|---|---|---|
| **uuid** (`src/geode/basic/uuid.cpp`) | `g_state`, one atomic word of timestamp and sequence | `uuid::uuid()` → `generate()` | lock-free, weak compare-exchange, wall clock set back, sequence wraps, drift limit, bounded retries |
| **Renumbering** (`basic/algorithm.hpp`, `permutation.*`, `mapping_after_deletion.hpp`) | none | delete, permute, compute `old2new` | the direction of a permutation; applied before, after and during other updates |
| **Attributes** (`basic/attribute_manager.*`, `*_attribute.hpp`) | attribute id → values in a vector, a map or one value; number of elements | create, find, resize, delete, permute, copy, import | three kinds of storage must do the same to an element; sizes must follow; registration does not override; lookups under a lock, the rest not |
| **CachedValue** (`basic/cached_value.hpp`) | `value_`, `computed_`, `mutex_` | `operator()`, `reset()`, `computed()`, `value()` | double-checked lock, value returned by reference, exceptions |
| **Loggers, progress, singletons** (`basic/`) | client lists, counters | log, increment | a mutex each |
| **Colocated points** (`geometry/nn_search.cpp`) | the mapping of each point to its representative, a mutex | one task per point, then the numbering | a read without the lock before it is taken; nearness is not transitive |
| **Geometry** (`geometry/`) | none | – | floating point |
| **VertexSet, Graph, EdgedCurve** (`mesh/core/graph.cpp`, `mesh/builder/graph_builder.cpp`) | edges → two vertices; vertices → edges around | create, set, delete, permute, replace, copy | each operation updates both, in an order that makes the lookups see mixed indices |
| **SurfaceMesh** (`mesh/core/surface_mesh.cpp`, builder) | polygons, adjacencies, one polygon around each vertex, cached polygons around, edge storage with counters | as above, plus adjacencies and edges on demand | four redundant structures; lazy creation in `const` methods; turns around a vertex |
| **SolidMesh** (`mesh/core/solid_mesh.cpp`, `geode_polyhedral_solid.cpp`, builder) | polyhedra in six vectors, adjacencies, one polyhedron around each vertex, cached polyhedra around with a border flag, edge and facet storage with counters | the same | the same, one dimension up; rows of any length compacted in place; searches around vertices and edges |
| **Orientation repair, merge of surfaces** (`mesh/helpers/repair_polygon_orientations.cpp`, `mesh/helpers/detail/{vertex,surface}_merger.cpp`) | the merged surface, where its polygons come from, which became which | repair, merge | one polygon after another is turned round, one vertex after another; adjacencies are computed, then undone twice; a polygon may come from several surfaces |
| **Grids, CRS, textures** (`mesh/`) | dimensions, coordinates | – | index arithmetic only |
| **Relationships** (`model/mixin/core/relationships.cpp`) | a Graph, uuid → vertex, vertex → component, relation type of edges | add, remove, remove component, save, load, copy, ranges | every removal renumbers; saving prunes the object that is saved |
| **VertexIdentifier** (`model/mixin/core/vertex_identifier.cpp`) | unique vertex → component vertices; an attribute in every mesh | register, unregister, create, set, unset, update, delete isolated | the meshes change first and tell later; parallel loops |
| **Component registries** (`model/mixin/core/{corners,lines,...}.cpp`) | uuid → component by kind; uuids by kind; active flags | add, delete, save, load | two lists of the same components |
| **Section, BRep** (`model/representation/`) | all the mixins | add, remove, update, relate, copy, clone, save and load | each operation changes several mixins, in one order |
| **Model helpers** (`model/helpers/`, `model/representation/*/detail/`) | none | concatenate, filter, convert, transfer meshes | unique vertices are renumbered under the mapping; every kind has a loop of its own, or none |
| **IO, image, bindings, other helpers** | – | – | files, wrappers, geometry |

Who calls whom: a model builder calls the registries, `RelationshipsBuilder` and
`VertexIdentifierBuilder`; `Relationships` stores its relations in a `Graph` that
it changes through `GraphBuilder`; every mesh builder renumbers attributes through
`AttributeManager` and passes the returned `old2new` to whoever stores indices; a
`SurfaceMesh` caches per vertex in `CachedValue`s which its builder resets; all
objects take their name from `uuid`.

What makes each part correct is in the column "promises" of the next table; what
could go wrong in it is the list `hazards` of `PROJECT.json`, line by line.

## Modules

| Module | Models | Promises stated as properties |
|---|---|---|
| `UUIDv7` | `uuid.cpp`: static initialisation, `generate()`, the constructor's retries | stamps unique across threads; later is greater; bounded drift; every call ends |
| `Renumbering` | mappings and vector operations, as operators | (used by all the others) |
| `Graph` | the data of a Graph and each GraphBuilder operation, as operators | – |
| `GraphBuilder` | these operations as a state machine | lists dual to edges; implements `NamedGraph` |
| `GraphBuilder_proof` | – | both, proved |
| `NamedGraph` | abstract: vertices and edges by name, no index | – |
| `Relationships` | `relationships.cpp`, `relationships_impl.cpp`, `uuid_to_index.hpp`, on top of `Graph` | index and ids inverse; one relation per pair; queries agree; an addition adds the relation asked; implements `RelationSet` |
| `RelationSet` | abstract: a set of triples | – |
| `Relationships_proof` | – | the promises of `Relationships`, proved |
| `CachedValue` | `cached_value.hpp` and the builders that reset it | current, whole reads; no assignment under readers; every call ends |
| `PolygonsAroundVertex` | `updated_polygons_around_vertex()` of SurfaceMesh, on top of `CachedValue` | callers see the polygons of their vertex (violated) |
| `Loops` | folds in the order of a loop, as operators | – |
| `FacetStorage` | `facet_storage.hpp`, for edges and for facets, as operators | – |
| `SurfaceMesh` | the data of a SurfaceMesh, the turn around a vertex and each operation of SurfaceMeshBuilder, as operators over `FacetStorage` | – |
| `SurfaceMeshBuilder` | these operations as a state machine, with queries | the polygon around a vertex is one, and there is none only when no polygon has the vertex; adjacencies are mutual; cached lists are current; edge counters count polygon edges; a turn visits its fan; connecting borders connects pairs |
| `SurfaceMesh_proof` | – | lemmas, proved: polygons and their edges, walks around a vertex, and what each step of an operation does to the adjacencies and the lists |
| `SurfaceMeshBuilder_proof` | – | adjacencies are mutual, vertices find their polygons, turns visit fans, cached lists are current, pairs are connected, edges count their polygons, and the safety ones of `CachedValue`, proved |
| `PolygonOrientations` | `repair_polygon_orientations.cpp`, as operators over `SurfaceMesh` | – |
| `SurfaceMerger` | `surface_merger.cpp` and `vertex_merger.cpp`, as operators over `PolygonOrientations` | – |
| `SurfaceHelpers` | both applied to the surfaces that `SurfaceMeshBuilder` reaches | an orientation is found when there is one, and turning polygons round disturbs nothing; merged surfaces keep polygons, origins and connections |
| `PolyhedralStorage` | the six vectors of `OpenGeodePolyhedralSolid`, as operators | – |
| `SolidMesh` | the data of a SolidMesh, the searches around a vertex and an edge and each operation of SolidMeshBuilder, as operators over `PolyhedralStorage` and two `FacetStorage`s | – |
| `SolidMeshBuilder` | these operations as a state machine, with queries | the same for polyhedra; border flags are current; edges and facets are counted; what follows adjacencies meets each polyhedron once; rows of the storage stay whole |
| `VertexIdentifier` | `vertex_identifier.cpp`, with the mesh builders as environment | lists match attributes through the pending mapping; one unique vertex each; implements `Identification` |
| `Identification` | abstract: mesh vertex name → unique vertex name | – |
| `VertexIdentifier_proof` | – | the promises of `VertexIdentifier`, and the safety ones of `ColocatedMapping`, proved |
| `ColocatedMapping` | `NNSearch::colocated_index_mapping()`: the tasks of the parallel loop, the lock, the numbering of the unique points | representatives are not near each other; the result sends each point to one near it; the call ends; implements `ColocatedPoints` |
| `ColocatedPoints` | abstract: one point after the other represents its neighbors that have no representative | – |
| `Graph_proof` | – | lemmas, proved: what the mappings of `Renumbering` do, lists and their folds, and each operation of `Graph` |
| `AttributeManager` | `attribute_manager.cpp` and the variable, sparse and constant attributes | every attribute has the size of its manager; implements `AttributeTable` |
| `AttributeTable` | abstract: a manager is a table, with a row per element and a column per attribute | – |
| `AttributeManager_proof` | – | the promises of `AttributeManager`, proved |
| `ModelComponents` | what every part of a model does when a component is added, removed, copied, added to another model, or exchanges its mesh, as operators | – |
| `BRepBuilder`, `SectionBuilder` | the operations and ranges of the two models over these operators: which kinds there are and which relations each kind may have | – |
| `ModelBuilders` | both as one state machine, with conversions between them and what the two have in common | the parts of a model agree; ranges find stored components and every relation; copies are faithful; meshes that are transferred keep the identification of vertices; a filter keeps what is used |
| `ModelBuilders_proof` | – | all of these, and the safety ones of `UUIDv7`, proved |
| `MC*` | instances for TLC; `MCGraphBuilder`, `MCReplaceVertex`, `MCColocatedMapping` and `MCVertexIdentifier` are a `.cfg` of the module itself | – |

Correspondence of state:

* `UUIDv7`: `g_state` is the word, split in `ts` and `seq`; `real_ms`, `old`, `next`
  are the locals of `generate()`; `attempts` is the counter of the loop in the
  constructor; `pc` says which atomic step is next.  `peak` and `issued` are history
  variables.  Computing the next word from the loaded one is local to the thread
  and one action with the load.  `clock` is the environment.
* `Graph`: `edges` and `around` are the attributes `"edges"` and
  `"edges_around_vertex"`, `elabel` and `vlabel` one more attribute each, to see
  that all attributes of an element are renumbered together.  In `Relationships`
  these two are `relation_type_` and `ids_`; in `GraphBuilder` they hold names.  A
  vector is a function with domain `0 .. n-1`, a `std::vector<bool>` a set.
* `Relationships`: `uuid2index` is `uuid2index_`.
* `CachedValue`: the three members, plus `source`, what the computer reads.  The
  assignment of `value_` takes two steps with `Torn` in between.
* `FacetStorage`: `indices` is `facet_indices_`, `vertices` and `counter` the
  attributes `"facet_vertices"` and `"counter"`.  A cycle of vertices is the set
  of them: two facets of a solid with the same vertices in another order do not
  occur.
* `SurfaceMesh`: a mesh is a record.  `polygons` and `adjacent` are what
  `OpenGeodePolygonalSurface` stores, `around` and `cached` the vertex attributes
  `"polygon_around_vertex"` and `"polygons_around_vertex"`, `enabled` and `edges` the
  pointer `edges_` and what it points to.  A polygon vertex, and the polygon edge
  that starts there, is a pair.  Loops over polygons and their vertices are folds in
  the order of the code, because a step reads what the steps before it wrote.  A
  turn around a vertex is bounded by the number of polygon vertices instead of
  `MAX_SAFETY_COUNT`.
* `PolygonOrientations`: the areas of a 2D surface are given by their signs.  The
  endless loop over polygons without area is left after as many turns as could
  give anybody a sign.
* `SurfaceMerger`: the result of `colocated_index_mapping()`, which
  `ColocatedMapping` models, is the vector `vertices`.  A merger is a record of the
  new surface, `polygons_origins_`, `surface_id_` and `new_id_`.
* `PolyhedralStorage`: a record of the six vectors of
  `OpenGeodePolyhedralSolid::Impl`.  Removal is in place, element by element, as in
  the code; permutation replaces one vector after another and reads the rest through
  those replaced.
* `SolidMesh`: a record as for a surface, with `edges_enabled`, `edges`,
  `facets_enabled` and `facets` for `edges_` and `facets_`.  A value of
  `"polyhedra_around_vertex"` is the list and the border flag of
  `PolyhedraAroundVertexImpl`.  A list is in the order in which the stack of the code
  gives it: `set_polyhedron_vertex()` takes its second element.
* `VertexIdentifier`: `component_vertices` is the attribute of the unique vertices
  (the order within a list is not observable and is dropped), `unique_vertex` the
  attribute in each mesh, `mesh` the names of mesh vertices, `unnotified` the mapping
  that a builder has returned and that `update_unique_vertices()` has not had yet.

* `ColocatedMapping`: `near` is what the searches find, `mapping`, `mutex` and
  `result` the locals of the call, `neighbors` and `pc` those of a task.  A read of
  the mapping without the lock and the test again under it are two steps.
* `AttributeManager`: an attribute is a record of its kind of storage, its
  properties and `values`: a function of `0 .. n-1` for the vector, of the indices
  that have one for the map, of 0 for a constant.  There is one value type and
  one default.  In `AttributeTable` a sparse and a variable attribute are the same.
* `ModelComponents`: a model is a record.  `components` are the storages,
  `mesh_components` and `collection_components` the registry, `inactive` the flags,
  `registered` and `relations` what `Relationships` holds (proved there to be a set of
  triples, so here it is that set), `unique_vertex` and `component_vertices` what
  `VertexIdentifier` holds.  A mesh is its number of vertices, which is what the
  attribute of the vertex identifier needs.  Corner, line, surface and block of either
  dimension are kinds, and a component is a kind and an id.

An action is a whole operation wherever the class is used by one thread
(builders), and one atomic step wherever it is not (`UUIDv7`, `CachedValue`,
`PolygonsAroundVertex`, `ColocatedMapping`).  The parallel loops of
`VertexIdentifier` write one list each and read nothing that the others write, so
they are one action.  So is
`old2new_permutation`, each of whose tasks writes its own element.

Operators named "Mutant" in a comment are not part of the model: each is a form
that a plausible bug would give to the definition after it, and replacing the
definition with it violates one property (`mutants` in `PROJECT.json`).

## Runs

| Run | Bounds | Shows |
|---|---|---|
| `uuid` | 2 threads; clock 0..1; drift 1; 3 sequence numbers; 2 attempts | unique, ordered, bounded; calls end |
| `graph_builder` | 3 vertex names, 2 edge names | duality and the refinement of `NamedGraph` for any sequence of operations |
| `replace_vertex` | 2 vertices, 3 edges | **violated**: an edge is left behind |
| `relationships` | 3 components, 2 types, 3 relations, 3 copy mappings | index, queries, refinement of `RelationSet` |
| `cached_value` | 3 threads, 2 states of the source | safety and termination, with exceptions |
| `polygons_around_vertex` | 2 threads, 1 vertex | **violated**: the list is reassigned under a reader |
| `surface_mesh` | 4 vertices, 2 triangles with a common edge; 1 cached list, or edges enabled | polygons around vertices, adjacencies, cached lists, edge storage and counters under all operations; turns and connection of borders, also with a third triangle; orientation repair, also of tetrahedra and Möbius strips; merge with another surface under 7 vectors of colocated points |
| `solid_mesh` | 5 vertices, 2 tetrahedra with a common edge; 2 cached lists, or edges or facets enabled | the same for a solid; searches and storage, also with two more polyhedra |
| `vertex_identifier` | 2 components of at most 2 mesh vertices, 2 unique vertices | duality with and without a pending mapping, refinement of `Identification` |
| `colocated_mapping` | 4 points, near each other in every possible way | the parallel loop does what one task after the other would, and ends |
| `attributes` | 2 managers of at most 3 elements, 4 together; 2 attributes, 2 values; property sets that allow all or nothing | sizes, and refinement of `AttributeTable` |
| `model_builders` | 6 kinds; 2 components added one by one to an empty BRep or Section, or a loaded BRep (line, surface and block, each bounding the next); 1 mesh vertex, 2 unique vertices, 1 inactive component | the parts of a model agree under all operations; copies, conversions, transfers and filters |

The type invariant of a module is the first conjunct of a property of its run:
`EdgesAroundDual`, `IndexMatchesIds`, `ListsMatchAttributes`, `AroundMatchesPolygons`,
`AroundMatchesPolyhedra`.  `UUIDv7!TypeOK` is checked on its own, that of
`CachedValue` is proved.

Why the bounds are enough for something to happen:

* `uuid`: three sequence numbers wrap after two calls; a clock of two values goes
  back by one drift; a drift of one is reached within one wrap; two attempts let a
  constructor give up after a retry.  More threads change nothing in the proof of
  safety, which holds for any number.  `MaxClock` bounds only the environment: the
  virtual clock is bounded by the code itself.
* `graph_builder`: two edges give parallel edges, loops and an edge moved onto
  the index of a deleted one; three vertices give a permutation of vertices that is
  not its own inverse.  Permutations of more elements, and which way they go, are
  the subject of `Graph_proof`.
* `relationships`: three components and three relations give a triangle and
  loops; the mappings rename all components, drop one while another takes over
  its uuid, or keep one alone.  `MaxRelations` leaves out the larger graphs
  only.  The two relation types are declared symmetric for TLC: the code stores and
  compares them, and no property names one of them.  The proof needs no bound.
* `surface_mesh`: the triangles are created in two orientations of
  one edge, and replacing vertices turns them into triangles that run along their
  common edge in the same direction; until adjacencies are computed, or once they
  are unset, each is a fan of its own around the common vertices.  No two polygons
  have the same vertices (`Twins`) and none has a vertex twice: such a polygon has two fans around
  one vertex or an edge to itself, and the code treats neither.  Four vertices
  leave one isolated next to a triangle.  An edge of three polygons needs a third:
  `TurnsVisitTheFan` and `ComputeConnectsPairs` are about functions of the mesh, so
  they are checked on every reachable mesh with one polygon more (`Extended`)
  instead of in states of their own.  One cached list at a time is enough because
  no operation reads the list of a vertex to change that of another.
* Orientation repair: two triangles run along their common edge either way, and a
  third is added; the strips are a tetrahedron and a Möbius strip of five triangles
  in every orientation, so that polygons are met again from another side, with the
  same answer or not.  Polygons without area are tried in every choice that leaves
  one with area (`NullAreasGetSigns`).
* Merge: every reachable surface, connected or not, with two connected triangles.
  In the vectors of colocated points both surfaces are the same, or have a polygon,
  an edge or a vertex in common, or one has polygons that degenerate; an edge then
  has up to four polygons.
* The view of `surface_mesh` drops the indices of the edges and keeps their
  vertices and counters.  No operation on surfaces depends on the indices, and the
  properties, apart from the bookkeeping in `TypeOK`, do not mention them.  The
  storage is kept whole in the view where it is inconsistent.  The view of
  `solid_mesh` also drops edges and facets that no polyhedron has: one of them that
  is found again counts from 0, as a new one does.
* In both runs no list is cached while edges or facets are enabled, because no
  operation uses the ones for the others.
* `solid_mesh`: five vertices and two tetrahedra have a common facet, a common edge
  without a facet, and each vertex on one of them only.  All six tetrahedra at the
  edge 0 1 are reached by moving vertices; the first two are created.  Two lists are
  cached, since an operation resets those of several vertices.  Two tetrahedra never
  surround an edge: `TraversalsAreComplete` is about functions of the mesh, so it is
  checked on every reachable mesh with a third tetrahedron that closes the turn
  around edge 0 1, with a fourth that closes vertex 0 as well, connected and not
  (`Extended`).  A pyramid, with five vertices and a facet of four, gives
  `RowsFollowMappings` rows of different lengths.
* `vertex_identifier`: two vertices per mesh are enough for a deletion that moves
  the other, two unique vertices for an isolated one below a used one.
* `colocated_mapping`: four points have every pattern in which the code could go
  wrong: two groups, a chain in which the ends are not near each other, a point
  that loses its neighbor between the test and the lock.  The proof of safety holds
  for any number.
* `attributes`: three elements in one manager have a permutation that is not its own
  inverse, two managers of two exchange their attributes; `MaxAllElements` only
  excludes that both are at their largest.  Managers and ids are symmetric: the code
  compares them and nothing else.
* `model_builders`: seven uuids are enough for any reachable model and another that is
  added to it (`UuidsFor`, which a program with 128 bits never runs out of, and which
  always holds in the run).  Two components are enough for one relation of each type, and the
  loaded chain gives a boundary of a boundary, which filters and removals follow.
  The models that are copied or added are a corner that bounds a line and shares a
  vertex with it.  `MaxConcatenated` lets the action add them to an empty model only,
  but `CopiesAreFaithful` computes the concatenation with every reachable model.
  There is no loaded section: a chain of two kinds is built one by one.

All bounds are constants of the `.cfg` files or sets of names; names of deleted
elements are given out again, so behaviours are not bounded in length.

### The two violations

* `ReplaceVertexMovesEveryEdge`: `GraphBuilder::replace_vertex` loops over a
  reference to the list around the old vertex; `set_edge_vertex` erases the
  extremity from that list, through a reference to its own slot.  With two or more
  extremities at the vertex the loop skips some and works on a stale copy at the
  end.  `ReplaceVertexStep` is the loop slot by slot.  `Spec` of `GraphBuilder` uses
  `replace_vertex` only for vertices with at most one extremity, so that the
  other properties are checked on what the operation promises;
  `SpecReplaceAny` has no such guard.
* `QueriesGetTheirPolygons`: `polygons_around_vertex()` is `const` and returns a
  reference into a cache that another `const` call may reset and reassign.  The run
  needs two threads that both found the cache empty.  A vertex without a known
  polygon never finds its cache good and resets it at each call.

### What the guards stand for

Most operations of the builders are public and few check their arguments.  The
specifications ask for what they need.  A guard that is more than a bound stands for
a case in which TLC finds a property violated without it; each is in `hazards` of
`PROJECT.json`, at its line.

`SurfaceMeshBuilder`:

* `replace_vertex()` asks for a manifold vertex in its comment; `polygons_around_vertex()`
  for computed adjacencies.
* `KeepsLists`: **a list can become stale.**  `compute_polygon_adjacencies()` sets
  adjacencies with `do_set_polygon_adjacent()` (`surface_mesh_builder.cpp:670`), which
  resets no list, where `set_polygon_adjacent()` does.  Without the guard TLC finds
  `CachedListsAreCurrent` violated, with triangles 0 1 2 and 1 3 4 (the run, where the
  triangles start with a common edge, does not reach it): the polygons around vertex 1
  are asked for, a vertex moves so that the triangles share an edge at 1, adjacencies
  are computed, and `polygons_around_vertex( 1 )` returns the list of before, with one
  of the two polygons that its documentation (`surface_mesh.hpp:400`) promises.  With
  the guard adjacencies change only at vertices whose list is not used (`ListsInUse`),
  as when they are computed before the first query.
* `delete_polygons()` leaves a vertex with two fans isolated, though polygons have
  it, when it deletes the fan that holds its polygon.
* `permute_vertices()` gives an isolated vertex that moves the polygon around
  another vertex.
* With edges enabled `compute_polygon_adjacencies()` connects two polygons of an
  edge of three when it is called with these two only.  (This one shows with
  three triangles and five vertices; the run has two.)
* `set_polygon_vertex()` that moves the polygon around a vertex associates the
  next polygon of the old vertex to the new one
  (`surface_mesh_builder.cpp:521`), so a moved vertex is not the one of its
  polygon, or no other polygon is at it.  And no adjacency goes through the two
  edges that move: the operation leaves adjacencies to its user.
* `replace_vertices()` is given no mapping whose images are replaced as well.

`SolidMeshBuilder`: as for surfaces, a vertex to replace is manifold
(`solid_mesh_builder.hpp:104`), adjacencies are computed before a query
(`solid_mesh.hpp:506`), an isolated vertex does not move, and `delete_polyhedra()` does
not delete all that adjacencies join to the polyhedron around a vertex while there
are others.  Besides:

* `HaveNoList`: **a list can become stale.**  `update_polyhedron_vertex()`
  (`solid_mesh_builder.cpp:573`), unlike `update_polygon_vertex()` of a surface,
  resets no list, and neither does `compute_polyhedron_adjacencies()` (line 751).
  What saves a query is that a list is used only if it contains the polyhedron around
  the vertex, and that a polyhedron which moves to a vertex becomes the one around
  it.  Without the guard TLC finds the case where it does not stay so: a list is
  asked of vertex `v` whose polyhedron is `c`; a vertex of another polyhedron moves
  to `v`; adjacencies are computed; vertices are permuted, which makes the first of
  the two the one around `v` again.  `polyhedra_around_vertex( v )` then returns the
  old list and `is_vertex_on_border( v )` the old flag.
* `set_polyhedron_vertex()` moves the vertex of a polyhedron whose facets there are
  on the border, and, as for a surface, one that is not the polyhedron around its
  vertex or is the only one.

`AttributeManager`, where the kinds of storage do not agree:

* `SparseFits`: `SparseAttribute::resize()` keeps values beyond the new size.
* `PermutesAlike`: the documentation (`attribute_manager.hpp:241`) gives
  `permutation[i]` as the destination of element `i`; a sparse attribute does
  that, a variable one takes element `i` *from* `permutation[i]`.  A manager with
  both kinds is permuted only by a permutation that is its own inverse.
* `CopyReplaces`: `copy()` takes the number of elements of its source, but leaves
  alone, at its old size, an attribute that the source does not have, does not
  transfer, or has with another storage; it never shortens a vector to 0, and keeps
  a sparse value where the source has the default.
* A constant attribute is imported from a variable one only where the source has
  elements: the value comes from the first one.
* `register_attribute()` keeps an attribute that has the id already, though
  `attribute_manager.hpp:281` says that it overrides; it is modelled as it is.

Model builders:

* `copy()` goes into an empty model.  The code throws where there are components or
  unique vertices, but does not count collections (`brep_builder.cpp:72`,
  `section_builder.cpp:66`): their entries would stay in `uuid2index_`.
* A component is added under an id that the model does not have: with the id of
  another kind `register` throws after the component was stored.
* `convert_brep_into_section()` of a model with an identified vertex of a block
  throws; the model is left as it is.
* What `concatenate()` does not copy is not part of what `CopiesAreFaithful` asks of
  it: the internal relations of lines with corners, and the items of collections
  other than model boundaries.

### Fairness

`UUIDv7`: weak fairness of the steps of a thread inside the constructor (it is
scheduled), and strong fairness of `ExchangeSucceeds`: an exchange that may
succeed again and again does not fail spuriously for ever.  `CallsComplete` does
not ask for more than lock-freedom: it allows a thread to starve while others
publish.  `CachedValue`: weak fairness of the steps inside `operator()`, strong
fairness of `Lock` (`absl::Mutex` queues its waiters).  Nothing is assumed of
callers, of builders or of the clock.  `ColocatedMapping`: weak fairness of each
task and of the numbering (`parallel_for` runs every task); no task takes the
lock more than once, so no stronger fairness is needed for it.  The other modules
are single-threaded and have no liveness.

## Proofs

The theorems hold for every value of the constants that satisfies the named
assumptions of the module, so for any number of threads, vertices, edges,
components or elements:

| Module | Assumes |
|---|---|
| `UUIDv7` | positive drift and number of attempts, at least three sequence numbers, a clock of natural numbers |
| `CachedValue` | `NoThread` is not a thread; `Torn` is not a value the computer returns |
| `SurfaceMeshBuilder` | the bounds are natural numbers; a polygon that is created has at least three vertices, none twice; a permutation of vertices is one |
| `ColocatedMapping` | the number of points is a natural number |
| `GraphBuilder` | `NoName` is not the name of a vertex |
| `Relationships` | a `ModelCopyMapping` is one to one |
| `VertexIdentifier` | nothing |
| `AttributeManager` | the default is a value |
| `ModelComponents`, `ModelBuilders` | the kinds include the five that operations name; the uuids are finitely many and as many as the components that the bounds allow; what is loaded, copied or taken apart is a model (`IsBRepOrSection`) |

The bounds of the runs (`MaxRelations`, `MaxElements`, ...) may have any value.
The last assumption asks of models that a program is given what is proved of those
that it builds; the files and the models of other programs are checked by nobody.

* `ModelBuilders_proof`, of `UUIDv7`: the properties are not inductive.  `Inv` adds that a word about
  to be published is after the word that was loaded and within the drift of the
  highest clock; that a thread inside the constructor has attempts left; and that
  every stamp handed out is at most `g_state`.  From it: `TypeCorrect`,
  `Uniqueness`, `BoundedDrift`, `CreationOrder`.  The arithmetic is in two lemmas,
  `BeforeOrder` (the order on stamps) and `SuccessorAfter` (whatever the clock
  reads, the next word is greater).
* `SurfaceMeshBuilder_proof`, of `CachedValue`: `Inv` adds that whoever is between the second test and the
  end of the critical section holds the mutex, that `computed_` is false while a
  value is computed or assigned, and that it is true while anybody reads.  From
  it: `TypeCorrect`, `CurrentReads`, `NoAssignmentUnderReaders`.
* `VertexIdentifier_proof`, of `ColocatedMapping`: `Inv` adds who holds the mutex; that the neighbors a task
  found are those of its point; that a task that is past the second test takes its
  neighbors for itself and its own point has no representative yet, or is its own;
  that a represented point is near its representative, which represents itself; and
  that a task that is done leaves its point represented.  From it: `StandApart`,
  `SoundResult`, and `Implementation`: every step is one step of the sequential
  algorithm `ColocatedPoints`, or none.
* `Graph_proof` is the library of the next six.  It begins with renumbering:
  `mapping_after_deletion()` is one-to-one from what is kept to the indices below its
  number (`MappingIsOneToOne`), since counting what is kept below an index grows by at
  most one from one index to the next; a vector after a deletion or a permutation
  follows the mapping (`DeletedVectorFollowsMapping`, `PermutedVectorFollowsMapping`)
  and contains nothing else (`DeletedVectorComesFromKept`); `old2new_permutation()`
  inverts the permutation on both sides (`Old2NewInvertsPermutation`).

  Then loops.  A loop of the code is a recursive function of the number of turns that
  are done.  That such a function exists (`LoopIsDefined`), and that what a turn keeps
  holds at the end (`LoopInvariant`), is shown from the least number in a set for which
  it fails (`LeastElement`, `SetInduction`); a property is a set here, where the
  induction theorems of the library would take an operator.

  Then one lemma for each operation of a graph (`SetKeepsDual`, `CreatedVertex`,
  `CreatedEdge`, `DeletedEdges`, `PermutedEdges`, `DeletedVertices`, `PermutedVertices`,
  `ReplacedVertex`, `CopiedGraph`): the lists around the vertices stay dual to the
  edges, and what the edges and their attributes are afterwards.  Each is an invariant
  of the loops of the operation: `TurnOfUpdate`, for one, says which extremities have
  been moved when `update_edge_vertices()` has done a part of its turns, though the
  indices of the others still mean the vertices before the deletion.
* `GraphBuilder_proof`: the inductive invariant is that `graph` is such a dual graph and
  that names are one-to-one with indices.  From it `ListsStayDual`
  (`EdgesAroundDual`); and `NamedGraphIsImplemented`: by name, an edge joins the same
  vertices after every renumbering, and the operation of the builder does what the
  operation of `NamedGraph` says.  It holds for `Spec`, in which
  `replace_vertex()` has at most one extremity to move.
* `Relationships_proof`: `IndexMatchesIds` says nothing of edges, and they cannot be left
  out.  Removing a component takes the edges from the list around its vertex, so the
  lists must be dual to the edges; a vertex that is removed must leave no edge behind,
  so the edges must have their ends; `remove_relation()` takes one edge, so two vertices
  must have one edge at most; and that is kept only because `register_component()`
  finds the vertex of a component by its index.  `IInv` is all of this.
  From it `IndexFollowsIds` and `QueriesStayConsistent`; `RelationSetIsImplemented`, in
  which the set of triples is read off the edges (`RestOfModel`: what is left when
  vertices and their edges are removed are the triples of the others); and
  `RelationAskedIsAdded`, an action property: the pair has the relation and the type
  that are asked for, whichever way round an edge existed.
* `VertexIdentifier_proof`, of `VertexIdentifier`: `ListsMatchAttributes` is not inductive.  When the lists are
  told of a change of a mesh they are rebuilt from the mapping only, so that an
  identified vertex stays listed only if the mapping has it as a value: pending
  mappings must be onto the vertices of the mesh (`PendingIsOnto`), through any
  number of further changes.  From it `ListsAndAttributesAgree`, and with names that are
  one-to-one with indices on both sides `IdentificationIsImplemented`.
* `AttributeManager_proof`: first what each kind of storage does with one attribute: it
  stays an attribute of its kind, in the new size, and element `i` has the value that
  the operation means it to have.  From it `AttributesStayInSize` (`StoredInSize`), and
  `ManagersAreTables`: whatever the storage, the manager is the table of
  `AttributeTable`, under the guards below "What the guards stand for".
* `SurfaceMeshBuilder_proof`, of `SurfaceMeshBuilder`: `AdjacencyIsMutual` cannot be
  proved alone.  `delete_isolated_vertices()` deletes a vertex when no polygon is known
  around it and `replace_vertex()` moves the polygons of its list: if one of them missed
  a polygon, or met one of another vertex, two polygons would stay adjacent by an edge
  that they no longer share.  And what is known around a vertex is in turn taken from
  such a list, by `delete_polygons()` and `set_polygon_vertex()`.  The inductive invariant `IsSurface`
  has the adjacencies (`IsAcross`: the edge `y` of the polygon across `x` has the
  vertices of `x` and the polygon of `x` across it), the polygon vertex known around
  each vertex (`FindsPolygonAround`: it is at the vertex, and there is none only when no
  polygon has it), and the cached lists (`IsListAround`: what is in them is at the
  vertex, each once).  From it `AdjacenciesAreMutual`.  What single steps, chains of
  them and turns do is proved in `SurfaceMesh_proof`, whole operations in
  `SurfaceMeshBuilder_proof`.

  `TurnsVisitFans` needs to know why a turn ends.  The loop of
  `compute_polygons_around_vertex()` is a walk (`IsWalk`) over places `<<x, isNext>>`,
  at a polygon vertex and about to leave its polygon on one side or the other.  What
  follows a place follows it the other way when both are turned back (`FollowsBack`),
  so a walk is one to one both ways: it never meets a place turned back
  (`NoTurningBack`), because the last step to it would be a polygon left by the edge
  it was entered by, and it meets no polygon vertex twice before its start
  (`PlacesApart`).  So the list is at most as long as there are polygon vertices, the
  bound of the loop of the model is never what ends it, and a list that ends at the
  start or between two borders is closed under the adjacencies.

  `CachedListsStayCurrent` needs to know that a list that was cached before other
  operations is still what a turn lists.  The invariant is about the lists that
  `polygons_around_vertex()` returns as they are, `ListsInUse`: each is a fan
  (`HasFans`), the polygon vertices of a walk that nothing can prolong (`IsFan`).  Two
  such walks that meet have the same polygon vertices (`FollowerInWalk`,
  `WalkInWalk`), so that it does not matter from which of them a turn starts, and a list
  is current when it is a fan that holds the polygon around its vertex
  (`FanIsCurrent`).  Each operation then resets the list of a vertex or changes
  nothing that the turns around it read, `KeepsTurns`: the corners at the vertex, the
  edges before them, their adjacencies and which edges lie across which
  (`FanStays`).  A renumbering of polygons resets the lists at all vertices of a
  polygon whose number changes, so what is left keeps its number, and so do the
  polygons across its edges; `set_polygon_vertex()` and `replace_vertices()` may change
  a far vertex of a polygon of the fan, which changes the vertices of both edges of a
  pair alike.  `compute_polygon_adjacencies()` resets nothing: there the proof uses
  the guard `KeepsLists`.

  The hard steps are those in which adjacencies are not mutual for a while.
  `compute_polygon_adjacencies()` connects two polygons when it meets the second of an
  edge; when it meets a third, that one points at the second, the second at the first
  and the first at none (`IsChain`), until a last loop disconnects what is in such a
  chain.  That gives mutual adjacencies; that all pairs are connected, and only
  pairs, `ComputingConnectsPairs`, needs what the edges met so far have for adjacents
  (`AreJoined`): of one, none; of two, each other; of more, the last has the one before
  and that one the one before it, and all others none.
  `delete_polygons()` and `permute_polygons()` carry the edge across an edge
  along with `old2new`, which is one to one on what is kept.  Operations that
  renumber or replace vertices walk the polygon vertices one by one, and between two
  turns some are at the new vertex and some at the old: `IsCarried` says what is around
  each vertex when the polygon vertices `done` have been moved.

  `EdgesCountTheirPolygons` adds the edges, `HasEdges`.  A storage numbers its facets
  one to one (`HasFacets`), and the counter of each is the number of its users
  (`Counts`), here the polygon edges with its two vertices, each edge with vertices of
  the mesh.  `add_facet()`, `remove_facet()` and `update_facet_vertex()` are then one
  user more, one less and one that goes elsewhere (`OneMoreIsCounted`,
  `OneLessIsCounted`, `OneElseIsCounted`).  A polygon vertex that moves takes its two
  edges along, in the one order in which both steps are right: the edge that leaves it
  first, then the one that comes to it (`MoveKeepsEdges`).  `delete_polygons()` and
  `permute_polygons()` carry users one to one (`RenumberedCounts`), `clean_facets()` and
  `update_facet_vertices()` carry facets (`FacetsAreKept`), and no facet with a user is
  among those that they drop.  Both invariants together give `SurfaceTypeOK`, and so
  `VerticesFindTheirPolygons`.
* `ModelBuilders_proof`, of `ModelBuilders`: the inductive invariant is that the model is
  a BRep or a Section, `IsBRepOrSection(model)` (`ModelsAreValid`).  To `Agree`, which
  is what `PartsAgree` says, it adds the types of the parts; that two components have
  one relation at most, and one that their kinds may have, or else the ranges would
  look for a component in a storage of another kind; and that a Section has no block,
  since `BRep` and `Section` share this state.  TLC checks it as the assumption about
  the given models, and checked it as an invariant.

  It is proved in three parts: the storages with the registry (`StorageHolds`), the
  relations (`RelationsHold`) and the vertices (`VerticesHold`) share only which
  component is of which kind, so that an operation is looked at in the parts it changes.
  From it `PartsOfModelsAgree` and, range by range, `RangesFindComponents`.

  Copies, transfers and filters are loops over sets of components, relations or
  vertices, some of them parallel in the code.  The lemmas of the second section are
  about one turn each and hold in any order.  What a copy does to vertices is stated
  by `IsMadeOf`: the component vertices of the result, and the unique vertex of each,
  from those of the two models; `ClassesTogether` reads the classes of identified
  vertices off it, whatever the numbers of the unique vertices are and however
  `delete_isolated_vertices()` has renumbered them.  So `CopiesKeepTheModel` and
  `TransfersKeepIdentification` need no statement about numbers.
  `FiltersKeepWhatIsUsed` relates the three loops of the code, from surfaces down to
  corners, to three turns of `WithParts`, from the anchors down: relations go from a
  kind to one above it, so that a component of which something is used is met in
  the code when all above it is decided.

TLC checked each inductive invariant before it was proved; `HasFans`, which speaks of
all walks, in the form of `CachedListsAreCurrent`.

Only model-checked:

* Liveness (`CallsComplete`, `CallsEnd`, `Terminates`): the prover has no rule for
  fairness.
* `SolidMeshBuilder` and `SurfaceHelpers`: the same loops over polyhedra, and one more
  level of loops over surfaces.
* `GraphBuilder` and `PolygonsAroundVertex` where they fail, below "The two violations".

## Not modelled

* Operations that end in undefined behaviour or leave a half-updated object, with
  nothing in the repository to say what is then promised: deleting vertices in
  use (throws after the attributes were compacted), renumbering the vertices of
  a graph with an edge that has no vertices yet.  The public low-level setters of
  `GraphBuilder` (`associate_...`, `disassociate_...`, `set_edges_around_vertex`),
  which nobody outside the builder calls, are parts of the operations here.
* Protocols that callers must keep are guards: `update_unique_vertices()` before
  the next use of a component's vertices, `unset_unique_vertex()` with the right
  unique vertex.
* Orientation and merge: a part of a 2D surface without any area next to one with
  area, for which `process_null_area_polygons()` does not end
  (`repair_polygon_orientations.cpp:200`); areas themselves; the merge of curves and
  solids, and the other mesh helpers (conversion, rasterization, hausdorff distance,
  texture), which compute with points.
* Surfaces: polygons created before their vertices, with a vertex twice, or with
  the vertices of another; adjacencies set on one side; points, textures and
  coordinate systems, which are more attributes; the 1000 polygons around a vertex
  at which the turn gives up; the parallel use of `enable_edges()`.
* Solids: the same, and edges or facets enabled next to cached lists; the 40000
  polyhedra at which a search gives up; tetrahedral and hybrid solids, whose facets
  are not stored but computed from the shape; regular grids.
* Serialisation, apart from the pruning of relationships; the random bits of a
  uuid; the value types of attributes and the names of attributes and components;
  mappings of attributes that merge elements; all geometry.
* The components of `PROJECT.json` with status `not_modelled`.

## Plan

The modules were written in this order, all of them done:

1. `UUIDv7`, with its proof: everything is named by it and it is lock-free.
2. `Renumbering`, `Graph`, `GraphBuilder`, `NamedGraph`: the pattern of all
   builders.
3. `Relationships` over `Graph`, `RelationSet`.
4. `CachedValue` with its proof, `PolygonsAroundVertex`.
5. `VertexIdentifier`, `Identification`.
6. `FacetStorage`: facet index, counters and attributes of the edges of surfaces.
7. `SurfaceMesh`, `SurfaceMeshBuilder` over `FacetStorage`.
8. `ColocatedMapping`, `ColocatedPoints`, with its proof: a parallel loop with an
   unlocked read against its sequential reference.
9. `AttributeManager`, `AttributeTable`: what the three storages agree on.
10. `ModelComponents`, `BRepBuilder`, `SectionBuilder`, `ModelBuilders`: storages,
    registry, relationships and vertex identifier composed.
11. `PolyhedralStorage`, `SolidMesh`, `SolidMeshBuilder`, over `FacetStorage` and
    `Loops`.
12. `PolygonOrientations`, `SurfaceMerger`, `SurfaceHelpers`, over `SurfaceMesh`.

Next: two threads that enable the edges of one surface, and a reader beside a save of
the same model; an abstract surface by name, as `NamedGraph` is for graphs; the
helpers that merge and convert solids, over `SolidMesh`.

Theorems worth proving next: `AdjacencyIsMutual` for the merge of surfaces; then for
polyhedra `AroundMatchesPolyhedra`, with the invariants of surfaces as its pattern.
