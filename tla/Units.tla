-------------------------------- MODULE Units --------------------------------
(***************************************************************************)
(* One tenant's tree of units, one person's memberships in it, and what    *)
(* the tree grants that person, as every process of the service caches it. *)
(* An edit of the tree is a request: it loads the tree, checks the change  *)
(* against what it loaded, flushes, drops the cache of its own process and *)
(* commits; other requests run between any two of these steps.             *)
(***************************************************************************)
EXTENDS Naturals, FiniteSets

CONSTANTS
  UnitIds,
  Org,        \* the parent of a top-level unit: parent_id is None
  Editors,    \* requests that change the tree
  Processes,  \* those that serve the person
  ProcessOf,  \* editor -> the process that serves it, one of these or another
  TTL,        \* CACHE_TTL_S, in ticks
  LastTick,   \* bound: the clock stops here
  MaxEdits    \* bound: edits begun

UnitsAssumption ==
  /\ IsFiniteSet(UnitIds) /\ Org \notin UnitIds
  /\ DOMAIN ProcessOf = Editors
  /\ TTL \in Nat \ {0} /\ LastTick \in Nat /\ MaxEdits \in Nat

VARIABLES
  tree,      \* unit -> its row, or NoUnit
  member,    \* unit -> the person's role in it, or "none"
  edit,      \* editor -> its request
  cache,     \* process -> its entry for the person, or NoEntry
  fill,      \* process -> its resolution under way
  clock,
  changed,   \* history: the clock at the last commit
  raced,     \* history: two edits have overlapped
  edits      \* edits left

unitsVars == <<tree, member, edit, cache, fill, clock, changed, raced, edits>>

Roles == {"none", "member", "admin"}
\* read_descendants and publish_up of the unit's policy
Row == [parent : UnitIds \cup {Org}, shares : BOOLEAN, adminsOnly : BOOLEAN]
NoUnit == [parent |-> Org, shares |-> FALSE, adminsOnly |-> FALSE, absent |-> TRUE]

Rows(t) == {u \in UnitIds : t[u] # NoUnit}

-----------------------------------------------------------------------------
(* What a tree and the person's roles grant. *)

ParentsOf(t, us) == {t[u].parent : u \in us \cap Rows(t)} \ {Org}

\* The walk up from u: it stops at the org, at a unit it has met, and after a
\* parent that has no row.
AncestorsIn(t, u) ==
  LET Up[n \in Nat] ==
        IF n = 0 THEN {u}
        ELSE Up[n-1] \cup ParentsOf(t, Up[n-1])
  IN Up[Cardinality(UnitIds)] \ {u}

\* The walk down. In a cycle a unit is below itself.
DescendantsIn(t, u) ==
  LET Down[n \in Nat] ==
        IF n = 0 THEN {x \in Rows(t) : t[x].parent = u}
        ELSE Down[n-1] \cup {x \in Rows(t) : t[x].parent \in Down[n-1]}
  IN Down[Cardinality(UnitIds)]

Own(t, m) == {u \in Rows(t) : m[u] # "none"}
AdminOf(t, m) == {u \in Rows(t) : m[u] = "admin"}

\* mutant: the org is one of the levels above
ReadableWithOrg(t, m) == Own(t, m) \cup {t[u].parent : u \in Own(t, m)}

\* own, then every level above, then the subtrees of the admin grants.
Readable(t, m) ==
  LET Level[n \in Nat] ==
        IF n = 0 THEN Own(t, m)
        ELSE Level[n-1] \cup ParentsOf(t, Level[n-1])
  IN Level[Cardinality(UnitIds)]
       \cup UNION {DescendantsIn(t, u) : u \in {a \in AdminOf(t, m) : t[a].shares}}

\* by_id[anc] of a parent that has no row raises.
Resolvable(t, m) == \A u \in Own(t, m) : AncestorsIn(t, u) \subseteq Rows(t)

Writable(t, m) ==
  LET mayPublish(a) == t[a].adminsOnly => AdminOf(t, m) # {}
  IN Own(t, m) \cup {a \in UNION {AncestorsIn(t, u) : u \in Own(t, m)} : mayPublish(a)}

Administered(t, m) == AdminOf(t, m) \cup UNION {DescendantsIn(t, u) : u \in AdminOf(t, m)}

Access(t, m) ==
  [readable |-> Readable(t, m), writable |-> Writable(t, m),
   administered |-> Administered(t, m)]

-----------------------------------------------------------------------------
(* Requests that change the tree.  The caller is the service or a memory   *)
(* admin; a name clash refuses a request as any failed check does.         *)

Change ==
  [op : {"create", "move"}, unit : UnitIds, to : UnitIds \cup {Org}]
    \cup [op : {"delete", "share", "join", "admin", "leave"}, unit : UnitIds]
NoEdit == [phase |-> "idle"]
NoEntry == [expires |-> 0]
NoFill == [phase |-> "none"]

\* mutant: a move does not look at the units below
MoveToAnyRow(t, m, c) ==
  CASE c.op = "create" -> t[c.unit] = NoUnit /\ c.to \in Rows(t) \cup {Org}
    [] c.op = "move" -> c.unit \in Rows(t) /\ c.to \in Rows(t) \cup {Org}
    [] c.op = "delete" ->
         /\ c.unit \in Rows(t) /\ m[c.unit] = "none"
         /\ \A u \in Rows(t) : t[u].parent # c.unit
    [] c.op = "leave" -> m[c.unit] # "none"
    [] OTHER -> c.unit \in Rows(t)

\* The checks of each operation, on the tree the request loaded.
Allowed(t, m, c) ==
  CASE c.op = "create" -> t[c.unit] = NoUnit /\ c.to \in Rows(t) \cup {Org}
    [] c.op = "move" ->
         /\ c.unit \in Rows(t) /\ c.to \in Rows(t) \cup {Org}
         /\ c.to \notin {c.unit} \cup DescendantsIn(t, c.unit)
    [] c.op = "delete" ->
         /\ c.unit \in Rows(t) /\ m[c.unit] = "none"
         /\ \A u \in Rows(t) : t[u].parent # c.unit
    [] c.op = "leave" -> m[c.unit] # "none"
    [] OTHER -> c.unit \in Rows(t)

\* What a commit writes: an UPDATE of a deleted row changes none and fails.
TreeAfter(c) ==
  CASE c.op = "create" ->
         [tree EXCEPT ![c.unit] = [parent |-> c.to, shares |-> FALSE, adminsOnly |-> FALSE]]
    [] c.op = "delete" -> [tree EXCEPT ![c.unit] = NoUnit]
    [] c.op = "move" /\ tree[c.unit] # NoUnit -> [tree EXCEPT ![c.unit].parent = c.to]
    [] c.op = "share" /\ tree[c.unit] # NoUnit ->
         [tree EXCEPT ![c.unit].shares = TRUE, ![c.unit].adminsOnly = TRUE]
    [] OTHER -> tree

MemberAfter(c) ==
  CASE c.op = "join" -> [member EXCEPT ![c.unit] = "member"]
    [] c.op = "admin" -> [member EXCEPT ![c.unit] = "admin"]
    [] c.op = "leave" -> [member EXCEPT ![c.unit] = "none"]
    [] OTHER -> member

Overlapping(e) == \E o \in Editors \ {e} : edit[o] # NoEdit

\* load_tree and the checks.
BeginEdit(e, c) ==
  /\ edits > 0 /\ edit[e] = NoEdit
  /\ Allowed(tree, member, c)
  /\ edit' = [edit EXCEPT ![e] = [phase |-> "checked", change |-> c]]
  /\ edits' = edits - 1
  /\ raced' = (raced \/ Overlapping(e))
  /\ UNCHANGED <<tree, member, cache, fill, clock, changed>>

\* A row another request has flushed stays locked until that one commits.
FlushEdit(e) ==
  /\ edit[e] # NoEdit /\ edit[e].phase = "checked"
  /\ \A o \in Editors \ {e} :
       (edit[o] # NoEdit /\ edit[o].phase = "flushed") => edit[o].change.unit # edit[e].change.unit
  /\ edit' = [edit EXCEPT ![e].phase = "flushed"]
  /\ cache' = [p \in Processes |-> IF p = ProcessOf[e] THEN NoEntry ELSE cache[p]]
  /\ UNCHANGED <<tree, member, fill, clock, changed, raced, edits>>

CommitEdit(e) ==
  /\ edit[e] # NoEdit /\ edit[e].phase = "flushed"
  /\ tree' = TreeAfter(edit[e].change)
  /\ member' = MemberAfter(edit[e].change)
  /\ edit' = [edit EXCEPT ![e] = NoEdit]
  /\ changed' = clock
  /\ UNCHANGED <<cache, fill, clock, raced, edits>>

-----------------------------------------------------------------------------
(* Requests of the person: resolve.  A hit changes nothing. *)

Hit(p) == cache[p] # NoEntry /\ cache[p].expires > clock

BeginFill(p) ==
  /\ fill[p] = NoFill /\ ~Hit(p)
  /\ fill' = [fill EXCEPT ![p] = [phase |-> "asked", at |-> clock]]
  /\ UNCHANGED <<tree, member, edit, cache, clock, changed, raced, edits>>

LoadTree(p) ==
  /\ fill[p].phase = "asked"
  /\ fill' = [fill EXCEPT ![p] = [phase |-> "loaded", at |-> fill[p].at, tree |-> tree]]
  /\ UNCHANGED <<tree, member, edit, cache, clock, changed, raced, edits>>

\* mutant: the entry lives from the moment it is stored
StoreFromNow(p) ==
  /\ fill[p].phase = "loaded"
  /\ fill' = [fill EXCEPT ![p] = NoFill]
  /\ cache' = IF Resolvable(fill[p].tree, member)
              THEN [cache EXCEPT ![p] = [expires |-> clock + TTL,
                                         access |-> Access(fill[p].tree, member)]]
              ELSE cache
  /\ UNCHANGED <<tree, member, edit, clock, changed, raced, edits>>

\* memberships_of is a statement of its own; a tree that cannot be resolved
\* fails the person's request.
StoreAccess(p) ==
  /\ fill[p].phase = "loaded"
  /\ fill' = [fill EXCEPT ![p] = NoFill]
  /\ cache' = IF Resolvable(fill[p].tree, member)
              THEN [cache EXCEPT ![p] = [expires |-> fill[p].at + TTL,
                                         access |-> Access(fill[p].tree, member)]]
              ELSE cache
  /\ UNCHANGED <<tree, member, edit, clock, changed, raced, edits>>

UnitsTick ==
  /\ clock < LastTick
  /\ clock' = clock + 1
  /\ UNCHANGED <<tree, member, edit, cache, fill, changed, raced, edits>>

-----------------------------------------------------------------------------
\* A tenant whose tree is any forest of its units, none shared, and a person who
\* is a plain member of some.
UnitsInit ==
  /\ tree \in {t \in [UnitIds -> {[parent |-> p, shares |-> FALSE, adminsOnly |-> FALSE] :
                                    p \in UnitIds \cup {Org}} \cup {NoUnit}] :
                 \A u \in Rows(t) : AncestorsIn(t, u) \subseteq Rows(t) \ {u}
                                    /\ u \notin DescendantsIn(t, u)}
  /\ member \in [UnitIds -> {"none", "member"}]
  /\ \A u \in UnitIds : member[u] # "none" => tree[u] # NoUnit
  /\ edit = [e \in Editors |-> NoEdit]
  /\ cache = [p \in Processes |-> NoEntry]
  /\ fill = [p \in Processes |-> NoFill]
  /\ clock = 0 /\ changed = 0 /\ raced = FALSE /\ edits = MaxEdits

UnitsNext ==
  \/ \E e \in Editors :
       \/ \E c \in Change : BeginEdit(e, c)
       \/ FlushEdit(e) \/ CommitEdit(e)
  \/ \E p \in Processes : BeginFill(p) \/ LoadTree(p) \/ StoreAccess(p)
  \/ UnitsTick

UnitsSpec == UnitsInit /\ [][UnitsNext]_unitsVars

UnitsTypeOK ==
  /\ tree \in [UnitIds -> Row \cup {NoUnit}]
  /\ member \in [UnitIds -> Roles]
  /\ \A e \in Editors : edit[e] # NoEdit =>
       edit[e].phase \in {"checked", "flushed"} /\ edit[e].change \in Change
  /\ \A p \in Processes : cache[p] # NoEntry =>
       /\ cache[p].expires \in 1..(LastTick + TTL)
       /\ cache[p].access.readable \subseteq UnitIds
       /\ cache[p].access.writable \subseteq UnitIds
  /\ \A p \in Processes : fill[p].phase \in {"none", "asked", "loaded"}
  /\ clock \in 0..LastTick /\ changed \in 0..clock
  /\ raced \in BOOLEAN /\ edits \in 0..MaxEdits

-----------------------------------------------------------------------------
(* Properties. *)

\* update_unit, delete_unit: as long as no two edits overlapped, every unit hangs
\* from the org by units that exist, and the person belongs to units that exist.
RootedUnlessRaced ==
  ~raced => /\ \A u \in Rows(tree) :
                 /\ AncestorsIn(tree, u) \subseteq Rows(tree)
                 /\ u \notin DescendantsIn(tree, u)
            /\ \A u \in UnitIds : member[u] # "none" => tree[u] # NoUnit

\* resolve, invalidate: once the tree has been left alone for CACHE_TTL_S, what
\* any process answers from its cache is what the tree grants, whichever process
\* made the last change and whatever a resolution under way had read.
SettledWithinTTL ==
  clock >= changed + TTL =>
    \A p \in Processes : Hit(p) => cache[p].access = Access(tree, member)
=============================================================================
