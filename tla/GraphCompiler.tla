--------------------------- MODULE GraphCompiler ---------------------------
(***************************************************************************)
(* src/internal/graph_compiler.cpp: from a graph to memory.  A build       *)
(* computes when each tensor is alive, lets views share the bytes of what  *)
(* they view, packs the intermediate groups into one arena and gives every *)
(* other group a buffer.  It may fail at any of its allocations.           *)
(***************************************************************************)
EXTENDS Graph, ArenaPlan

CONSTANT MaxFailures \* bound on failing builds

ASSUME CompilerAssumption == MaxFailures \in Nat

VARIABLES topo,     \* Executable::Impl::topo: the nodes in the order they run
          device,   \* Executable::Impl::device
          failures  \* builds that have failed

compilerVars == <<topo, device, failures>>

CompilerInit ==
    /\ topo = <<>>
    /\ device = "none"
    /\ failures = 0
-----------------------------------------------------------------------------
(* Liveness of tensors, for the nodes in a given order.                    *)

\* What the nodes read and write; an output that is none of these is active too.
Touched(order) == UNION {Range(nodes[n].ins) \cup {nodes[n].out} : n \in Range(order)}

\* The tensors that need memory.
Active(order) == Touched(order) \cup (IF hasExplicit THEN explicit ELSE Tensors)

Populated == {i \in Tensors : tensors[i].data # NULL}
Inputs == {i \in Tensors : IsInput(i)}

\* Faulty: the outputs are packed like intermediates, or the inputs are.
InputsProtected(active) == Populated \cup Inputs
OutputsProtected(active) == Populated \cup (IF hasExplicit THEN explicit ELSE active)

\* Tensors the caller reads or writes: they never lie in the arena.
Protected(active) == Populated \cup Inputs \cup (IF hasExplicit THEN explicit ELSE active)

Writes(order, i) == {k - 1 : k \in {j \in DOMAIN order : nodes[order[j]].out = i}}
Reads(order, i) == {k - 1 : k \in {j \in DOMAIN order : Uses(order[j], i)}}

\* The first step that writes i, 0 if there is none.
Birth(order, i) == IF Writes(order, i) = {} THEN 0 ELSE Min(Writes(order, i))

\* The last step that reads i, 0 if there is none.
Death(order, i) == Max({0} \cup Reads(order, i))
-----------------------------------------------------------------------------
(* Views: tensors that share the bytes of the tensor they view.            *)

\* Faulty: the consumers of a view are not looked at.
FusesAnywhere(dev, order, n) == TRUE

\* A transposition can stay a view if every kernel that reads it knows strides.
CanFuse(dev, order, n) ==
    LET readers == {m \in Range(order) : Uses(m, nodes[n].out)}
    IN  /\ readers # {}
        /\ \A m \in readers : nodes[m].op = "MatMul"
        /\ dev = "CUDA" => /\ tensors[nodes[n].out].rank > 2
                           /\ \A m \in readers : nodes[m].ins[1] # nodes[n].out

\* What node n adds to the views: root[i] is the root of i's group.
AddView(dev, order, views, n) ==
    LET in == nodes[n].ins[1]
        out == nodes[n].out
        joined == [i \in Tensors |-> IF views.root[i] = views.root[out]
                                     THEN views.root[in] ELSE views.root[i]]
        View(strides) == [root |-> joined, strides |-> [views.strides EXCEPT ![out] = strides]]
    IN  IF views.strides[in] # "row" THEN views
        ELSE CASE nodes[n].op = "Reshape" -> View("row")
               [] /\ nodes[n].op = "Transpose"
                  /\ dev \in {"CPU", "CUDA"}
                  /\ out \notin explicit \cup Protected(Active(order))
                  /\ CanFuse(dev, order, n) -> View("swapped")
               [] OTHER -> views

Views(dev, order) ==
    FoldLeft(LAMBDA views, n : AddView(dev, order, views, n),
             [root |-> [i \in Tensors |-> i], strides |-> [i \in Tensors |-> tensors[i].strides]],
             order)
-----------------------------------------------------------------------------
(* Memory: one arena for the intermediate groups, a buffer for the others. *)

\* A group of tensors that share bytes.  A plan is a record with the order, the
\* strides, and the groups that lie in the arena and those that do not.
Group(order, views, active, r) ==
    LET members == {i \in active : views.root[i] = r}
        sized == {i \in members : tensors[i].size > 0}
    IN  [root |-> r,
         members |-> members,
         size |-> Max({0} \cup {tensors[i].size : i \in members}),
         birth |-> Min({Len(order)} \cup {Birth(order, i) : i \in sized}),
         death |-> Max({0} \cup {Birth(order, i) : i \in sized} \cup {Death(order, i) : i \in sized})]

\* The group that the packing takes last puts itself beside all the others.
Pack(groups) ==
    MapThenFoldSet(LAMBDA g, planned : Place(planned, g), {}, LAMBDA g : g,
                   LAMBDA s : CHOOSE g \in s : \A h \in s \ {g} : Before(h, g), groups)

\* The plan when the nodes run in a given order.
PlanFor(dev, order) ==
    LET views == Views(dev, order)
        active == Active(order)
        protected == Protected(active)
        groups == {Group(order, views, active, r) : r \in {views.root[i] : i \in active}}
        dedicated == {g \in groups : g.members \cap protected # {}}
        packed == Pack({g \in groups \ dedicated : g.size > 0})
    IN  [order |-> order,
         active |-> active,
         root |-> views.root,
         strides |-> views.strides,
         packed |-> packed,
         arenaSize |-> TotalSize(packed),
         adopted |-> {g \in dedicated : g.members \cap Populated # {}},
         buffers |-> {g \in dedicated : g.members \cap Populated = {}}]

Plan(dev) == PlanFor(dev, TopologicalOrder)

Allocations(plan) == Cardinality(plan.buffers) + IF plan.arenaSize > 0 THEN 1 ELSE 0

At(group, data, offset) == [root |-> group.root, data |-> data, offset |-> offset]

\* What fresh memory holds, zeros or not, is junk to all but an input, whose first value it is.
Fresh(group) == Cells(IF IsInput(group.root) THEN Value(group.root, 0) ELSE Junk, group.size)

\* Faulty: the buffer starts where it should end.
AddBufferPast(group, layout) ==
    [places |-> layout.places \cup {At(group, Len(layout.bytes) + 1 + group.size, 0)},
     bytes |-> layout.bytes \o Fresh(group)]

\* A buffer of its own, behind the memory there is already.
AddBuffer(group, layout) ==
    [places |-> layout.places \cup {At(group, Len(layout.bytes) + 1, 0)},
     bytes |-> layout.bytes \o Fresh(group)]

\* The memory with the arena and behind it the buffers, and where in it each
\* group is; a group with a populated member is where that member is.
Layout(plan) ==
    LET arena == {At(p, Len(mem) + 1 + p.offset, p.offset) : p \in plan.packed}
        adopted == {At(g, tensors[Min(g.members \cap Populated)].data, 0) : g \in plan.adopted}
    IN  MapThenFoldSet(AddBuffer,
                       [places |-> arena \cup adopted, bytes |-> mem \o Cells(Junk, plan.arenaSize)],
                       LAMBDA g : g, LAMBDA s : CHOOSE g \in s : \A h \in s : h.root <= g.root,
                       plan.buffers)

Restrided(plan) == [i \in Tensors |-> [tensors[i] EXCEPT !.strides = plan.strides[i]]]

Staged(plan, places, dev) ==
    LET restrided == Restrided(plan)
        Placed(i) == tensors[i].size > 0 /\ \E p \in places : p.root = plan.root[i]
        Moved(i) == LET p == CHOOSE p \in places : p.root = plan.root[i]
                    IN  [restrided[i] EXCEPT !.data = p.data, !.offset = p.offset]
    IN  [i \in Tensors |->
            IF i \notin plan.active THEN restrided[i]
            ELSE [(IF Placed(i) THEN Moved(i) ELSE restrided[i]) EXCEPT !.device = dev]]

\* Graph::validate: memory that exists already cannot change its device.
Valid(dev) == \A i \in Populated : tensors[i].device = dev

Build(dev) ==
    /\ ~ built
    /\ Valid(dev)
    /\ LET plan == Plan(dev)
           layout == Layout(plan)
       IN  /\ tensors' = Staged(plan, layout.places, dev)
           /\ mem' = layout.bytes
           /\ topo' = plan.order
    /\ device' = dev
    /\ built' = TRUE
    /\ UNCHANGED <<nodes, hasExplicit, explicit, failures>>

\* An allocation fails: the staged storage is dropped, but the strides that the
\* analysis of views wrote into the graph's own tensors stay.
BuildFails(dev) ==
    /\ ~ built
    /\ Valid(dev)
    /\ failures < MaxFailures
    /\ LET plan == Plan(dev)
       IN  Allocations(plan) > 0 /\ tensors' = Restrided(plan)
    /\ failures' = failures + 1
    /\ UNCHANGED <<nodes, hasExplicit, explicit, built, mem, topo, device>>
=============================================================================
