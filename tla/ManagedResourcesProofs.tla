----------------------- MODULE ManagedResourcesProofs -----------------------
(***************************************************************************)
(* Proofs about ManagedResources, for any IDs, endpoints and contents of   *)
(* credentials and any number of interventions.                            *)
(*                                                                         *)
(* No action changes more than one kind of resource but for Crash.  The    *)
(* invariant is therefore a formula about what there is of one kind:       *)
(*   r, c     the stored resource and its copy in the cache,               *)
(*   f        who holds the current version,                               *)
(*   s, o     the step of the reconcile and its copy,                      *)
(*   e        what exists outside,                                         *)
(*   l, b     whether the kind is in lost and in blind.                    *)
(***************************************************************************)
EXTENDS ManagedResources, FiniteSetTheorems, TLAPS

-----------------------------------------------------------------------------
(* The inductive invariant.                                                *)

Copy == Resource \cup {None}

Exists(e) == {i \in DOMAIN e : e[i] # "absent"}

\* The IDs a copy names.
NamesOf(o) == IF o = None THEN {} ELSE {o.mark, o.id} \ {None}

Typed(k, r, c, f, s, o, e) ==
    /\ r \in Copy /\ c \in Copy /\ o \in Copy
    /\ f \subseteq {"cache", "work"}
    /\ s \in Steps
    /\ e \in [IDsOf(k) -> ExternalStates]
    /\ k = "binding" => \A i \in IDsOf(k) : e[i] \in {"absent", "present"}

Agrees(o, r) ==
    /\ o # None /\ r # None
    /\ o.deleting = r.deleting /\ o.finalizer = r.finalizer /\ o.mark = r.mark

\* A holder of the current version has the stored deletion, finalizer and annotation, but for
\* the annotations that are about to be written.
CopiesAreCurrent(r, c, f, s, o) ==
    /\ "cache" \in f => c = r
    /\ "work" \in f => s # "idle"
    /\ "work" \in f /\ s # "annotate" => Agrees(o, r)
    /\ s # "idle" => o # None

\* What is deleted stays so, in all copies.
DeletionIsFinal(r, c, s) ==
    /\ c # None /\ c.deleting => r = None \/ r.deleting
    /\ s = "delete" => r = None \/ r.deleting

\* A creation is decided and made under the finalizer, and for a resource without a name.
CreatesUnnamed(r, f, s, o, l) ==
    /\ s = "markPending" /\ "work" \in f => r.finalizer
    /\ s \in {"addFinalizer", "markPending"} /\ "work" \in f /\ ~l => r.mark = None
    /\ s \in {"create", "annotate"} => r # None /\ r.finalizer
    /\ s \in {"create", "annotate"} /\ ~l => r.mark = None
    /\ s = "create" /\ ~l => o.mark = None

\* Before the finalizer nothing exists, and without a name only what is about to get one.
UnnamedIsNothing(r, s, o, e, l) ==
    /\ r # None /\ ~r.finalizer => Exists(e) = {}
    /\ ~l /\ r # None /\ r.mark = None /\ ~(s = "annotate" /\ o.mark # None) => Exists(e) = {}

\* Backups and restores: what a copy names exists or has existed, there is one, and the
\* manager deletes a backup only after its resource was deleted.
NamedExists(k, r, c, o, e, l) ==
    k # "binding" =>
        /\ NamesOf(r) \subseteq Exists(e) /\ NamesOf(c) \subseteq Exists(e) /\ NamesOf(o) \subseteq Exists(e)
        /\ ~l => \A i, j \in Exists(e) : i = j
        /\ ~l /\ (\E i \in IDs : e[i] = "deleted") => r = None \/ r.deleting
        /\ \A i \in IDs : e[i] # "present"

\* A ServiceBinding that was created knows its instance, so that connection details are
\* looked for only while there are none.
BoundHasInstance(k, r, c, f, s, o) ==
    k = "binding" =>
        /\ \A x \in {r, c, o} : x # None /\ x.mark # None => x.instance
        /\ s \in {"addFinalizer", "markPending"} /\ "work" \in f => r.instance
        /\ s \in {"create", "annotate"} => r.instance /\ o.instance

\* When the finalizer goes, and the resource with it, nothing is left.
NothingLeft(k, r, f, s, e, l, b) ==
    (r = None \/ (s = "removeFinalizer" /\ "work" \in f)) /\ ~l /\ ~b =>
        \A i \in IDsOf(k) : e[i] \notin Leftover(k)

Good(k, r, c, f, s, o, e, l, b) ==
    /\ Typed(k, r, c, f, s, o, e)
    /\ CopiesAreCurrent(r, c, f, s, o)
    /\ DeletionIsFinal(r, c, s)
    /\ CreatesUnnamed(r, f, s, o, l)
    /\ UnnamedIsNothing(r, s, o, e, l)
    /\ NamedExists(k, r, c, o, e, l)
    /\ BoundHasInstance(k, r, c, f, s, o)
    /\ NothingLeft(k, r, f, s, e, l, b)

GoodKind(k) == Good(k, res[k], cache[k], fresh[k], work[k].step, work[k].obj, external[k], k \in lost, k \in blind)

OnKinds(f) == f = [k \in Kinds |-> f[k]]

\* The variables are functions of the kinds, and the others are of their types.
Frame ==
    /\ OnKinds(res) /\ OnKinds(cache) /\ OnKinds(fresh)
    /\ work \in [Kinds -> [step : Steps, obj : Copy, content : Contents \cup {None}]]
    /\ OnKinds(external)
    /\ instance \in {"unset", "set", "gone"} /\ creds \in Contents \cup {None}
    /\ lost \subseteq Kinds /\ blind \subseteq Kinds
    /\ ops \in 0..MaxOps

Inv == Frame /\ \A k \in Kinds : GoodKind(k)

-----------------------------------------------------------------------------
(* The steps, for one kind.                                                *)

\* Changing single fields of a resource yields a resource and leaves the others alone.
LEMMA ExceptFacts ==
    ASSUME NEW x \in Resource, NEW v \in BOOLEAN, NEW i \in AllIDs \cup {None},
           NEW outcome \in {"none", "pending", "failed", "succeeded"}, NEW d \in Details
    PROVE  /\ [x EXCEPT !.deleting = v] \in Resource
           /\ [x EXCEPT !.finalizer = v] \in Resource
           /\ [x EXCEPT !.ready = v] \in Resource
           /\ [x EXCEPT !.instance = v] \in Resource
           /\ [x EXCEPT !.create = outcome] \in Resource
           /\ [x EXCEPT !.create = outcome, !.mark = i] \in Resource
           /\ [x EXCEPT !.mark = i, !.create = outcome] \in Resource
           /\ [x EXCEPT !.id = i, !.ready = v] \in Resource
           /\ [x EXCEPT !.details = d] \in Resource
           /\ [x EXCEPT !.instance = v, !.backup = i] \in Resource
    BY DEF Resource

\* A user or an administrator writes the resource.
LEMMA UserWrites ==
    ASSUME NEW k \in Kinds, NEW r, NEW c, NEW f, NEW s, NEW o, NEW e, NEW l, NEW b,
           Good(k, r, c, f, s, o, e, l, b), r # None, NEW new \in Copy,
           \/ new = None /\ ~r.finalizer
           \/ /\ new # None /\ new.finalizer = r.finalizer /\ new.mark = r.mark /\ new.id = r.id
              /\ new.instance = r.instance /\ (r.deleting => new.deleting)
    PROVE  Good(k, new, c, {}, s, o, e, l, b)
  <1> USE DEF Good
  <1>1. Typed(k, new, c, {}, s, o, e)
    BY DEF Typed
  <1>2. CopiesAreCurrent(new, c, {}, s, o) /\ DeletionIsFinal(new, c, s)
    BY DEF CopiesAreCurrent, DeletionIsFinal
  <1>3. CreatesUnnamed(new, {}, s, o, l) /\ UnnamedIsNothing(new, s, o, e, l)
    BY DEF CreatesUnnamed, UnnamedIsNothing
  <1>4. NamedExists(k, new, c, o, e, l)
    BY DEF NamedExists, NamesOf
  <1>5. BoundHasInstance(k, new, c, {}, s, o)
    BY DEF BoundHasInstance, CreatesUnnamed
  <1>6. NothingLeft(k, new, {}, s, e, l, b)
    BY DEF NothingLeft, UnnamedIsNothing, Typed, Exists, Leftover
  <1> QED
    BY <1>1, <1>2, <1>3, <1>4, <1>5, <1>6

LEMMA DeliverGood ==
    ASSUME NEW k \in Kinds, NEW r, NEW c, NEW f, NEW s, NEW o, NEW e, NEW l, NEW b,
           Good(k, r, c, f, s, o, e, l, b)
    PROVE  Good(k, r, r, f \cup {"cache"}, s, o, e, l, b)
  <1> USE DEF Good
  <1>1. Typed(k, r, r, f \cup {"cache"}, s, o, e)
    BY DEF Typed
  <1>2. CopiesAreCurrent(r, r, f \cup {"cache"}, s, o) /\ DeletionIsFinal(r, r, s)
    BY DEF CopiesAreCurrent, DeletionIsFinal
  <1>3. CreatesUnnamed(r, f \cup {"cache"}, s, o, l) /\ UnnamedIsNothing(r, s, o, e, l)
    BY DEF CreatesUnnamed, UnnamedIsNothing
  <1>4. NamedExists(k, r, r, o, e, l) /\ BoundHasInstance(k, r, r, f \cup {"cache"}, s, o)
    BY DEF NamedExists, BoundHasInstance
  <1>5. NothingLeft(k, r, f \cup {"cache"}, s, e, l, b)
    BY DEF NothingLeft
  <1> QED
    BY <1>1, <1>2, <1>3, <1>4, <1>5

\* What a reconcile begins with: a step, and a copy of the cached resource c whose status
\* may have changed.  On a current copy, a creation needs a resource without a name, and the
\* finalizer is removed only when nothing is left.
MayTake(k, c, f, step, obj, e, l, b) ==
    /\ step \in Steps \ {"idle", "create", "annotate"} /\ obj \in Resource
    /\ obj.deleting = c.deleting /\ obj.finalizer = c.finalizer /\ obj.mark = c.mark
    /\ NamesOf(obj) \subseteq NamesOf(c)
    /\ k = "binding" /\ c.instance => obj.instance
    /\ step = "delete" => c.deleting
    /\ "cache" \in f /\ step \in {"addFinalizer", "markPending"} =>
           (l \/ c.mark = None) /\ (k = "binding" => c.instance)
    /\ step = "markPending" => c.finalizer
    /\ "cache" \in f /\ step = "removeFinalizer" /\ ~l /\ ~b =>
           \A i \in IDsOf(k) : e[i] \notin Leftover(k)

LEMMA TakeGood ==
    ASSUME NEW k \in Kinds, NEW r, NEW c, NEW f, NEW o, NEW e, NEW L, NEW B,
           Good(k, r, c, f, "idle", o, e, k \in L, k \in B), c # None,
           NEW B2, B \subseteq B2, NEW step, NEW obj, MayTake(k, c, f, step, obj, e, k \in L, k \in B2),
           NEW f2, f2 = IF "cache" \in f THEN f \cup {"work"} ELSE f \ {"work"}
    PROVE  Good(k, r, c, f2, step, obj, e, k \in L, k \in B2)
  <1> USE DEF MayTake
  <1>0. obj # None
    BY ManagedResourcesAssumption
  <1>a. f2 \subseteq f \cup {"work"} /\ ("work" \in f2 => "cache" \in f /\ c = r)
    BY DEF Good, CopiesAreCurrent
  <1>b. "cache" \in f2 => c = r
    BY DEF Good, CopiesAreCurrent
  <1>1. Typed(k, r, c, f2, step, obj, e)
    BY <1>a DEF Good, Typed, Copy
  <1>2. CopiesAreCurrent(r, c, f2, step, obj) /\ DeletionIsFinal(r, c, step)
    BY <1>0, <1>a, <1>b DEF Good, CopiesAreCurrent, Agrees, DeletionIsFinal
  <1>3. CreatesUnnamed(r, f2, step, obj, k \in L)
    BY <1>a DEF CreatesUnnamed
  <1>4. UnnamedIsNothing(r, step, obj, e, k \in L)
    BY DEF Good, UnnamedIsNothing
  <1>5. NamedExists(k, r, c, obj, e, k \in L)
    BY DEF Good, NamedExists
  <1>6. BoundHasInstance(k, r, c, f2, step, obj)
    BY <1>a DEF Good, BoundHasInstance
  <1>7. NothingLeft(k, r, f2, step, e, k \in L, k \in B2)
    BY <1>a DEF Good, NothingLeft
  <1> QED
    BY <1>1, <1>2, <1>3, <1>4, <1>5, <1>6, <1>7 DEF Good

\* A reconcile ends early: a conflict, or the death of the provider, which loses the name of
\* what was just created.
LEMMA StopGood ==
    ASSUME NEW k \in Kinds, NEW r, NEW c, NEW f, NEW s, NEW o, NEW e, NEW L, NEW b,
           Good(k, r, c, f, s, o, e, k \in L, b), NEW L2, L \subseteq L2,
           s = "annotate" /\ o.mark # None => k \in L2
    PROVE  Good(k, r, c, f \ {"work"}, "idle", None, e, k \in L2, b)
  <1> USE DEF Good
  <1>1. Typed(k, r, c, f \ {"work"}, "idle", None, e)
    BY DEF Typed, Copy, Steps
  <1>2. CopiesAreCurrent(r, c, f \ {"work"}, "idle", None) /\ DeletionIsFinal(r, c, "idle")
    BY DEF CopiesAreCurrent, DeletionIsFinal
  <1>3. CreatesUnnamed(r, f \ {"work"}, "idle", None, k \in L2) /\ UnnamedIsNothing(r, "idle", None, e, k \in L2)
    BY DEF CreatesUnnamed, UnnamedIsNothing
  <1>4. NamedExists(k, r, c, None, e, k \in L2) /\ BoundHasInstance(k, r, c, f \ {"work"}, "idle", None)
    BY DEF NamedExists, NamesOf, BoundHasInstance
  <1>5. NothingLeft(k, r, f \ {"work"}, "idle", e, k \in L2, b)
    BY DEF NothingLeft
  <1> QED
    BY <1>1, <1>2, <1>3, <1>4, <1>5

\* AddFinalizer and MarkPending write the copy.
LEMMA AddFinalizerGood ==
    ASSUME NEW k \in Kinds, NEW r, NEW c, NEW f, NEW o, NEW e, NEW l, NEW b,
           Good(k, r, c, f, "addFinalizer", o, e, l, b), "work" \in f
    PROVE  LET new == [r EXCEPT !.finalizer = TRUE]
           IN  Good(k, new, c, IF new = r THEN f ELSE {"work"}, "markPending", new, e, l, b)
  <1> DEFINE new == [r EXCEPT !.finalizer = TRUE]
             f2 == IF new = r THEN f ELSE {"work"}
  <1>0. r \in Resource
    BY DEF Good, Typed, CopiesAreCurrent, Agrees, Copy
  <1>1. /\ new \in Resource /\ new # None /\ new.finalizer /\ new.deleting = r.deleting
        /\ new.mark = r.mark /\ new.id = r.id /\ new.instance = r.instance
    <2>1. new \in Resource
        BY <1>0 DEF Resource
    <2>2. new # None
        BY <2>1, ManagedResourcesAssumption
    <2> QED
        BY <1>0, <2>1, <2>2 DEF Resource
  <1>2. f2 \subseteq {"cache", "work"} /\ ("cache" \in f2 => c = new)
    BY DEF Good, Typed, CopiesAreCurrent
  <1>3. r # None /\ (~l => r.mark = None)
    BY DEF Good, CopiesAreCurrent, Agrees, CreatesUnnamed
  <1> HIDE DEF new, f2
  <1>4. Typed(k, new, c, f2, "markPending", new, e)
    BY <1>1, <1>2 DEF Good, Typed, Copy, Steps
  <1>5. CopiesAreCurrent(new, c, f2, "markPending", new) /\ DeletionIsFinal(new, c, "markPending")
    BY <1>1, <1>2, <1>3 DEF Good, CopiesAreCurrent, Agrees, DeletionIsFinal
  <1>6. CreatesUnnamed(new, f2, "markPending", new, l) /\ UnnamedIsNothing(new, "markPending", new, e, l)
    BY <1>1, <1>3 DEF Good, CreatesUnnamed, UnnamedIsNothing
  <1>7. NamedExists(k, new, c, new, e, l)
    BY <1>1, <1>3 DEF Good, NamedExists, NamesOf
  <1>8. BoundHasInstance(k, new, c, f2, "markPending", new)
    BY <1>1, <1>3 DEF Good, BoundHasInstance
  <1>9. NothingLeft(k, new, f2, "markPending", e, l, b)
    BY <1>1 DEF NothingLeft
  <1> QED
    BY <1>4, <1>5, <1>6, <1>7, <1>8, <1>9 DEF Good, new, f2

LEMMA MarkPendingGood ==
    ASSUME NEW k \in Kinds, NEW r, NEW c, NEW f, NEW o, NEW e, NEW l, NEW b,
           Good(k, r, c, f, "markPending", o, e, l, b), "work" \in f
    PROVE  LET new == [r EXCEPT !.create = "pending"]
           IN  Good(k, new, c, IF new = r THEN f ELSE {"work"}, "create", new, e, l, b)
  <1> DEFINE new == [r EXCEPT !.create = "pending"]
             f2 == IF new = r THEN f ELSE {"work"}
  <1>0. r \in Resource
    BY DEF Good, Typed, CopiesAreCurrent, Agrees, Copy
  <1>1. /\ new \in Resource /\ new # None /\ new.finalizer = r.finalizer /\ new.deleting = r.deleting
        /\ new.mark = r.mark /\ new.id = r.id /\ new.instance = r.instance
    <2>1. new \in Resource
        BY <1>0 DEF Resource
    <2>2. new # None
        BY <2>1, ManagedResourcesAssumption
    <2> QED
        BY <1>0, <2>1, <2>2 DEF Resource
  <1>2. f2 \subseteq {"cache", "work"} /\ ("cache" \in f2 => c = new)
    BY DEF Good, Typed, CopiesAreCurrent
  <1>3. r # None /\ r.finalizer /\ (~l => r.mark = None)
    BY DEF Good, CopiesAreCurrent, Agrees, CreatesUnnamed
  <1> HIDE DEF new, f2
  <1>4. Typed(k, new, c, f2, "create", new, e)
    BY <1>1, <1>2 DEF Good, Typed, Copy, Steps
  <1>5. CopiesAreCurrent(new, c, f2, "create", new) /\ DeletionIsFinal(new, c, "create")
    BY <1>1, <1>2, <1>3 DEF Good, CopiesAreCurrent, Agrees, DeletionIsFinal
  <1>6. CreatesUnnamed(new, f2, "create", new, l) /\ UnnamedIsNothing(new, "create", new, e, l)
    BY <1>1, <1>3 DEF Good, CreatesUnnamed, UnnamedIsNothing
  <1>7. NamedExists(k, new, c, new, e, l)
    BY <1>1, <1>3 DEF Good, NamedExists, NamesOf
  <1>8. BoundHasInstance(k, new, c, f2, "create", new)
    BY <1>1, <1>3 DEF Good, BoundHasInstance
  <1>9. NothingLeft(k, new, f2, "create", e, l, b)
    BY <1>1 DEF NothingLeft
  <1> QED
    BY <1>4, <1>5, <1>6, <1>7, <1>8, <1>9 DEF Good, new, f2

\* The call of Create: it has failed without an effect, has made i and answered with it, or
\* has made i and the answer was lost.
LEMMA CreateGood ==
    ASSUME NEW k \in Kinds, NEW r, NEW c, NEW f, NEW o, NEW e, NEW L, NEW b,
           Good(k, r, c, f, "create", o, e, k \in L, b),
           NEW o2 \in Resource, o2.id = o.id, o2.instance = o.instance,
           NEW e2, NEW L2, L \subseteq L2, NEW i,
           \/ e2 = e /\ o2.mark = o.mark
           \/ /\ i \in IDsOf(k)
              /\ IF k = "binding" THEN e2 = [e EXCEPT ![i] = "present"]
                                  ELSE e[i] = "absent" /\ e2 = [e EXCEPT ![i] = "running"]
              /\ o2.mark = i \/ (o2.mark = o.mark /\ k \in L2)
    PROVE  Good(k, r, c, f, "annotate", o2, e2, k \in L2, b)
  <1>0. /\ r # None /\ r.finalizer /\ o # None /\ o2 # None
        /\ k \notin L => r.mark = None /\ o.mark = None /\ Exists(e) = {}
    BY ManagedResourcesAssumption DEF Good, CreatesUnnamed, CopiesAreCurrent, UnnamedIsNothing
  <1>a. e \in [IDsOf(k) -> ExternalStates] /\ (i \in IDsOf(k) => i # None)
    BY ManagedResourcesAssumption DEF Good, Typed, IDsOf, AllIDs
  <1>b. e2 \in [IDsOf(k) -> ExternalStates]
    BY <1>a DEF ExternalStates
  <1>c. Exists(e2) = Exists(e) \/ Exists(e2) = Exists(e) \cup {i}
    BY <1>a, <1>b DEF Exists
  <1>d. o2.mark # o.mark => o2.mark = i /\ i \in Exists(e2)
    BY <1>a, <1>b DEF Exists
  <1>1. Typed(k, r, c, f, "annotate", o2, e2)
    BY <1>b DEF Good, Typed, Copy, Steps
  <1>2. CopiesAreCurrent(r, c, f, "annotate", o2) /\ DeletionIsFinal(r, c, "annotate")
    BY <1>0 DEF Good, CopiesAreCurrent, DeletionIsFinal
  <1>3. CreatesUnnamed(r, f, "annotate", o2, k \in L2)
    BY <1>0 DEF CreatesUnnamed
  <1>4. UnnamedIsNothing(r, "annotate", o2, e2, k \in L2)
    BY <1>0, <1>a DEF UnnamedIsNothing
  <1>5. NamedExists(k, r, c, o2, e2, k \in L2)
    <2> SUFFICES ASSUME k # "binding" PROVE NamedExists(k, r, c, o2, e2, k \in L2)
        BY DEF NamedExists
    <2>1. NamesOf(r) \subseteq Exists(e2) /\ NamesOf(c) \subseteq Exists(e2) /\ NamesOf(o2) \subseteq Exists(e2)
        BY <1>0, <1>c, <1>d DEF Good, NamedExists, NamesOf
    <2>2. k \notin L2 => \A x, y \in Exists(e2) : x = y
        BY <1>0, <1>c
    <2>3. IDsOf(k) = IDs
        BY DEF IDsOf
    <2>4. /\ k \notin L2 /\ (\E x \in IDs : e2[x] = "deleted") => r = None \/ r.deleting
          /\ \A x \in IDs : e2[x] # "present"
        BY <1>a, <2>3 DEF Good, NamedExists
    <2> QED
        BY <2>1, <2>2, <2>4 DEF NamedExists
  <1>6. BoundHasInstance(k, r, c, f, "annotate", o2)
    BY <1>0 DEF Good, BoundHasInstance
  <1>7. NothingLeft(k, r, f, "annotate", e2, k \in L2, b)
    BY <1>0 DEF NothingLeft
  <1> QED
    BY <1>1, <1>2, <1>3, <1>4, <1>5, <1>6, <1>7 DEF Good

LEMMA AnnotateGood ==
    ASSUME NEW k \in Kinds, NEW r, NEW c, NEW f, NEW o, NEW e, NEW l, NEW b,
           Good(k, r, c, f, "annotate", o, e, l, b), NEW step \in {"publish", "writeStatus"}
    PROVE  LET new == [r EXCEPT !.create = o.create, !.mark = o.mark]
           IN  Good(k, new, c, IF new = r THEN f ELSE {"work"}, step, new, e, l, b)
  <1> DEFINE new == [r EXCEPT !.create = o.create, !.mark = o.mark]
             f2 == IF new = r THEN f ELSE {"work"}
  <1>0. r \in Resource /\ o \in Resource /\ r # None /\ r.finalizer /\ (~l => r.mark = None)
    BY DEF Good, Typed, CopiesAreCurrent, CreatesUnnamed, Copy
  <1>1. /\ new \in Resource /\ new # None /\ new.finalizer = r.finalizer /\ new.deleting = r.deleting
        /\ new.mark = o.mark /\ new.id = r.id /\ new.instance = r.instance
    <2>1. new \in Resource
        BY <1>0 DEF Resource
    <2>2. new # None
        BY <2>1, ManagedResourcesAssumption
    <2> QED
        BY <1>0, <2>1, <2>2 DEF Resource
  <1>2. f2 \subseteq {"cache", "work"} /\ ("cache" \in f2 => c = new)
    BY DEF Good, Typed, CopiesAreCurrent
  <1> HIDE DEF new, f2
  <1>4. Typed(k, new, c, f2, step, new, e)
    BY <1>1, <1>2 DEF Good, Typed, Copy, Steps
  <1>5. CopiesAreCurrent(new, c, f2, step, new) /\ DeletionIsFinal(new, c, step)
    BY <1>0, <1>1, <1>2 DEF Good, CopiesAreCurrent, Agrees, DeletionIsFinal
  <1>6. CreatesUnnamed(new, f2, step, new, l) /\ UnnamedIsNothing(new, step, new, e, l)
    BY <1>0, <1>1 DEF Good, CreatesUnnamed, UnnamedIsNothing
  <1>7. NamedExists(k, new, c, new, e, l)
    <2>1. o # None /\ NamesOf(new) \subseteq NamesOf(o) \cup NamesOf(r)
        BY <1>0, <1>1, ManagedResourcesAssumption DEF NamesOf
    <2> QED
        BY <1>0, <1>1, <2>1 DEF Good, NamedExists
  <1>8. BoundHasInstance(k, new, c, f2, step, new)
    BY <1>0, <1>1 DEF Good, BoundHasInstance
  <1>9. NothingLeft(k, new, f2, step, e, l, b)
    BY <1>1 DEF NothingLeft
  <1> QED
    BY <1>4, <1>5, <1>6, <1>7, <1>8, <1>9 DEF Good, new, f2

\* What comes before the status is written: the credentials are published, or Delete was
\* called, with an effect or without.
LEMMA ToStatusGood ==
    ASSUME NEW k \in Kinds, NEW r, NEW c, NEW f, NEW s \in {"publish", "delete"}, NEW o, NEW e,
           NEW l, NEW b, Good(k, r, c, f, s, o, e, l, b),
           NEW o2 \in Resource, o2.id = o.id, o2.mark = o.mark, o2.instance = o.instance,
           o2.deleting = o.deleting, o2.finalizer = o.finalizer,
           NEW e2,
           \/ e2 = e
           \/ k = "binding" /\ e2 = [e EXCEPT ![UID] = "absent"]
           \/ k = "backup" /\ s = "delete" /\ e2 = [e EXCEPT ![o.id] = "deleted"]
    PROVE  Good(k, r, c, f, "writeStatus", o2, e2, l, b)
  <1>0. o # None /\ o2 # None /\ o \in Resource
    BY ManagedResourcesAssumption DEF Good, CopiesAreCurrent, Typed, Copy
  <1>a. e \in [IDsOf(k) -> ExternalStates] /\ e2 \in [IDsOf(k) -> ExternalStates]
    BY DEF Good, Typed, ExternalStates
  <1>b. \A i \in IDsOf(k) : e2[i] = e[i] \/ e2[i] \in {"absent", "deleted"}
    BY <1>a
  <1>c. Exists(e2) \subseteq Exists(e)
    <2>1. CASE e2 = e
        BY <2>1
    <2>2. CASE k = "binding" /\ e2 = [e EXCEPT ![UID] = "absent"]
        BY <1>a, <2>2 DEF Exists
    <2>3. CASE k = "backup" /\ e2 = [e EXCEPT ![o.id] = "deleted"]
        <3>1. o.id # None => o.id \in Exists(e)
            BY <1>0, <2>3 DEF Good, NamedExists, NamesOf
        <3>2. None \notin IDsOf(k)
            BY ManagedResourcesAssumption DEF IDsOf, AllIDs
        <3> QED
            BY <1>a, <2>3, <3>1, <3>2 DEF Exists
    <2> QED
        BY <2>1, <2>2, <2>3
  <1>d. k # "binding" => Exists(e2) = Exists(e)
    BY <1>a, <1>c DEF Exists
  <1>1. Typed(k, r, c, f, "writeStatus", o2, e2)
    BY <1>a DEF Good, Typed, Copy, Steps
  <1>2. CopiesAreCurrent(r, c, f, "writeStatus", o2) /\ DeletionIsFinal(r, c, "writeStatus")
    BY <1>0 DEF Good, CopiesAreCurrent, Agrees, DeletionIsFinal
  <1>3. CreatesUnnamed(r, f, "writeStatus", o2, l)
    BY DEF CreatesUnnamed
  <1>4. UnnamedIsNothing(r, "writeStatus", o2, e2, l)
    BY <1>c DEF Good, UnnamedIsNothing
  <1>5. NamedExists(k, r, c, o2, e2, l)
    <2> SUFFICES ASSUME k # "binding" PROVE NamedExists(k, r, c, o2, e2, l)
        BY DEF NamedExists
    <2>1. NamesOf(r) \subseteq Exists(e2) /\ NamesOf(c) \subseteq Exists(e2) /\ NamesOf(o2) \subseteq Exists(e2)
        BY <1>0, <1>d DEF Good, NamedExists, NamesOf
    <2>2. ~l => \A x, y \in Exists(e2) : x = y
        BY <1>d DEF Good, NamedExists
    <2>3. IDsOf(k) = IDs
        BY DEF IDsOf
    <2>4. ~l /\ (\E x \in IDs : e2[x] = "deleted") => r = None \/ r.deleting
        BY <1>a, <2>3 DEF Good, NamedExists, DeletionIsFinal
    <2>5. \A x \in IDs : e2[x] # "present"
        BY <1>b, <2>3 DEF Good, NamedExists
    <2> QED
        BY <2>1, <2>2, <2>4, <2>5 DEF NamedExists
  <1>6. BoundHasInstance(k, r, c, f, "writeStatus", o2)
    BY <1>0 DEF Good, BoundHasInstance
  <1>7. NothingLeft(k, r, f, "writeStatus", e2, l, b)
    BY <1>b DEF Good, NothingLeft, Leftover
  <1> QED
    BY <1>1, <1>2, <1>3, <1>4, <1>5, <1>6, <1>7 DEF Good

LEMMA RemoveFinalizerGood ==
    ASSUME NEW k \in Kinds, NEW r, NEW c, NEW f, NEW o, NEW e, NEW l, NEW b,
           Good(k, r, c, f, "removeFinalizer", o, e, l, b), "work" \in f
    PROVE  Good(k, None, c, {}, "idle", None, e, l, b) /\ r # None
  <1>0. r # None
    BY DEF Good, CopiesAreCurrent, Agrees
  <1>1. Typed(k, None, c, {}, "idle", None, e)
    BY DEF Good, Typed, Copy, Steps
  <1>2. CopiesAreCurrent(None, c, {}, "idle", None) /\ DeletionIsFinal(None, c, "idle")
    BY DEF CopiesAreCurrent, DeletionIsFinal
  <1>3. CreatesUnnamed(None, {}, "idle", None, l) /\ UnnamedIsNothing(None, "idle", None, e, l)
    BY DEF CreatesUnnamed, UnnamedIsNothing
  <1>4. NamedExists(k, None, c, None, e, l) /\ BoundHasInstance(k, None, c, {}, "idle", None)
    BY DEF Good, NamedExists, NamesOf, BoundHasInstance
  <1>5. NothingLeft(k, None, {}, "idle", e, l, b)
    BY DEF Good, NothingLeft
  <1> QED
    BY <1>0, <1>1, <1>2, <1>3, <1>4, <1>5 DEF Good

LEMMA WriteStatusGood ==
    ASSUME NEW k \in Kinds, NEW r, NEW c, NEW f, NEW o, NEW e, NEW l, NEW b,
           Good(k, r, c, f, "writeStatus", o, e, l, b), "work" \in f
    PROVE  Good(k, o, c, IF o = r THEN f \ {"work"} ELSE {}, "idle", None, e, l, b)
  <1> DEFINE f2 == IF o = r THEN f \ {"work"} ELSE {}
  <1>0. Agrees(o, r)
    BY DEF Good, CopiesAreCurrent
  <1>a. f2 \subseteq {"cache"} /\ ("cache" \in f2 => c = o)
    BY DEF Good, Typed, CopiesAreCurrent
  <1> HIDE DEF f2
  <1>1. Typed(k, o, c, f2, "idle", None, e)
    BY <1>a DEF Good, Typed, Copy, Steps
  <1>2. CopiesAreCurrent(o, c, f2, "idle", None) /\ DeletionIsFinal(o, c, "idle")
    BY <1>0, <1>a DEF Good, CopiesAreCurrent, DeletionIsFinal, Agrees
  <1>3. CreatesUnnamed(o, f2, "idle", None, l) /\ UnnamedIsNothing(o, "idle", None, e, l)
    BY <1>0 DEF Good, CreatesUnnamed, UnnamedIsNothing, Agrees
  <1>4. NamedExists(k, o, c, None, e, l) /\ BoundHasInstance(k, o, c, f2, "idle", None)
    BY <1>0 DEF Good, NamedExists, NamesOf, BoundHasInstance, Agrees
  <1>5. NothingLeft(k, o, f2, "idle", e, l, b)
    BY <1>0 DEF NothingLeft, Agrees
  <1> QED
    BY <1>1, <1>2, <1>3, <1>4, <1>5 DEF Good, f2

\* What was started ends by itself, or the manager deletes an old backup.
LEMMA OutsideGood ==
    ASSUME NEW k \in Kinds, NEW r, NEW c, NEW f, NEW s, NEW o, NEW e, NEW L, NEW b,
           Good(k, r, c, f, s, o, e, k \in L, b), NEW i \in IDsOf(k), NEW new, NEW L2, L \subseteq L2,
           \/ e[i] = "running" /\ new \in {"done", "failed"}
           \/ e[i] = "done" /\ new = "deleted" /\ k \in L2
    PROVE  Good(k, r, c, f, s, o, [e EXCEPT ![i] = new], k \in L2, b)
  <1> DEFINE e2 == [e EXCEPT ![i] = new]
  <1>a. e \in [IDsOf(k) -> ExternalStates]
    BY DEF Good, Typed
  <1>b. /\ e2 \in [IDsOf(k) -> ExternalStates]
        /\ \A x \in IDsOf(k) : e2[x] = IF x = i THEN new ELSE e[x]
    BY <1>a DEF ExternalStates
  <1> HIDE DEF e2
  <1>c. Exists(e2) = Exists(e)
    BY <1>a, <1>b DEF Exists
  <1>1. Typed(k, r, c, f, s, o, e2)
    BY <1>b DEF Good, Typed
  <1>2. CopiesAreCurrent(r, c, f, s, o) /\ DeletionIsFinal(r, c, s) /\ BoundHasInstance(k, r, c, f, s, o)
    BY DEF Good
  <1>3. CreatesUnnamed(r, f, s, o, k \in L2)
    BY DEF Good, CreatesUnnamed
  <1>4. UnnamedIsNothing(r, s, o, e2, k \in L2)
    BY <1>c DEF Good, UnnamedIsNothing
  <1>5. NamedExists(k, r, c, o, e2, k \in L2)
    BY <1>b, <1>c DEF Good, NamedExists, IDsOf
  <1>6. NothingLeft(k, r, f, s, e2, k \in L2, b)
    BY <1>b DEF Good, NothingLeft, Leftover
  <1> QED
    BY <1>1, <1>2, <1>3, <1>4, <1>5, <1>6 DEF Good, e2

-----------------------------------------------------------------------------
(* The actions.                                                            *)

\* Nothing happens to the other kinds.
Others(k) ==
    \A j \in Kinds \ {k} :
        /\ res'[j] = res[j] /\ cache'[j] = cache[j] /\ fresh'[j] = fresh[j]
        /\ work'[j] = work[j] /\ external'[j] = external[j]
        /\ j \in lost' <=> j \in lost
        /\ j \in blind' <=> j \in blind

LEMMA OneKind ==
    ASSUME Inv, NEW k \in Kinds, Frame', Others(k), GoodKind(k)'
    PROVE  Inv'
  <1>1. ASSUME NEW j \in Kinds \ {k} PROVE GoodKind(j)'
    <2>1. GoodKind(j)
        BY DEF Inv
    <2>2. (j \in lost') = (j \in lost) /\ (j \in blind') = (j \in blind)
        BY DEF Others
    <2> QED
        BY <2>1, <2>2 DEF Others, GoodKind
  <1> QED
    BY <1>1 DEF Inv

\* What the operators that write do.
LEMMA WriteResFacts ==
    ASSUME Frame, NEW k \in Kinds, NEW new, NEW keep, WriteRes(k, new, keep)
    PROVE  /\ OnKinds(res') /\ OnKinds(fresh')
           /\ res'[k] = new /\ fresh'[k] = IF new = res[k] THEN fresh[k] ELSE keep
           /\ \A j \in Kinds \ {k} : res'[j] = res[j] /\ fresh'[j] = fresh[j]
    BY DEF WriteRes, Frame, OnKinds

Work == [step : Steps, obj : Copy, content : Contents \cup {None}]

LEMMA WorkFacts ==
    ASSUME Frame, NEW k \in Kinds, NEW w \in Work, work' = [work EXCEPT ![k] = w]
    PROVE  /\ work' \in [Kinds -> Work]
           /\ work'[k] = w
           /\ \A j \in Kinds \ {k} : work'[j] = work[j]
    BY DEF Frame, OnKinds, Work

LEMMA IdleIsWork == Idle \in Work /\ Idle.step = "idle" /\ Idle.obj = None
    BY DEF Idle, Work, Steps, Copy

LEMMA InterveneType ==
    ASSUME Frame, Intervene
    PROVE  ops' \in 0..MaxOps
    BY ManagedResourcesAssumption DEF Frame, OnKinds, Intervene

\* The facts about one kind that the lemmas of the last section start from.
LEMMA KindFacts ==
    ASSUME Inv, NEW k \in Kinds
    PROVE  /\ Frame
           /\ Good(k, res[k], cache[k], fresh[k], work[k].step, work[k].obj, external[k], k \in lost, k \in blind)
           /\ res[k] \in Copy /\ cache[k] \in Copy /\ work[k].obj \in Copy
           /\ work[k] \in Work
           /\ external[k] \in [IDsOf(k) -> ExternalStates]
    BY DEF Inv, GoodKind, Good, Typed, Frame, OnKinds, Work

LEMMA ResourceCopy == \A x \in Copy : x # None => x \in Resource
    BY DEF Copy

LEMMA UserStep ==
    ASSUME Inv, NEW k \in Kinds, UserDelete(k) \/ ClearPending(k)
    PROVE  Inv'
  <1> DEFINE gone == IF res[k].finalizer THEN [res[k] EXCEPT !.deleting = TRUE] ELSE None
             cleared == [res[k] EXCEPT !.create = "none"]
  <1>0. res[k] \in Resource /\ res[k] # None
    BY KindFacts, ResourceCopy DEF UserDelete, ClearPending
  <1>1. PICK new \in {gone, cleared} : WriteRes(k, new, {})
    BY DEF UserDelete, ClearPending
  <1>2. UNCHANGED <<cache, work, external, instance, creds, history>> /\ (Intervene \/ ops' = ops)
    BY DEF UserDelete, ClearPending
  <1>3. /\ new \in Copy
        /\ \/ new = None /\ ~res[k].finalizer
           \/ /\ new # None /\ new.finalizer = res[k].finalizer /\ new.mark = res[k].mark
              /\ new.id = res[k].id /\ new.instance = res[k].instance
              /\ (res[k].deleting => new.deleting)
    <2>1. CASE new = None /\ ~res[k].finalizer
        BY <2>1 DEF Copy
    <2>2. CASE new = [res[k] EXCEPT !.deleting = TRUE]
        <3>1. new \in Resource
            BY <1>0, <2>2 DEF Resource
        <3>2. new # None
            BY <3>1, ManagedResourcesAssumption
        <3> QED
            BY <1>0, <2>2, <3>1, <3>2 DEF Resource, Copy
    <2>3. CASE new = cleared
        <3>1. new \in Resource
            BY <1>0, <2>3 DEF Resource
        <3>2. new # None
            BY <3>1, ManagedResourcesAssumption
        <3> QED
            BY <1>0, <2>3, <3>1, <3>2 DEF Resource, Copy
    <2> QED
        BY <1>1, <2>1, <2>2, <2>3
  <1> HIDE DEF gone, cleared
  <1>4. /\ OnKinds(res') /\ OnKinds(fresh')
        /\ res'[k] = new /\ fresh'[k] = IF new = res[k] THEN fresh[k] ELSE {}
        /\ \A j \in Kinds \ {k} : res'[j] = res[j] /\ fresh'[j] = fresh[j]
    BY <1>1, WriteResFacts, KindFacts
  <1>5. Good(k, new, cache[k], fresh'[k], work[k].step, work[k].obj, external[k], k \in lost, k \in blind)
    BY <1>0, <1>3, <1>4, KindFacts, UserWrites
  <1>6. Frame'
    BY <1>2, <1>4, KindFacts, InterveneType DEF Frame, OnKinds, history
  <1>7. Others(k) /\ GoodKind(k)'
    BY <1>2, <1>4, <1>5 DEF Others, GoodKind, history
  <1> QED
    BY <1>6, <1>7, OneKind

LEMMA DeliverStep ==
    ASSUME Inv, NEW k \in Kinds, Deliver(k)
    PROVE  Inv'
  <1>1. /\ UNCHANGED <<res, work, external, instance, creds, lost, blind, ops>>
        /\ cache' = [cache EXCEPT ![k] = res[k]]
        /\ fresh' = [fresh EXCEPT ![k] = @ \cup {"cache"}]
    BY DEF Deliver, history
  <1>2. /\ OnKinds(cache') /\ OnKinds(fresh')
        /\ cache'[k] = res[k] /\ fresh'[k] = fresh[k] \cup {"cache"}
        /\ \A j \in Kinds \ {k} : cache'[j] = cache[j] /\ fresh'[j] = fresh[j]
    BY <1>1, KindFacts DEF Frame, OnKinds
  <1>3. Good(k, res[k], res[k], fresh[k] \cup {"cache"}, work[k].step, work[k].obj, external[k], k \in lost, k \in blind)
    BY KindFacts, DeliverGood
  <1>4. Frame'
    BY <1>1, <1>2, KindFacts DEF Frame, OnKinds
  <1>5. Others(k) /\ GoodKind(k)'
    BY <1>1, <1>2, <1>3 DEF Others, GoodKind
  <1> QED
    BY <1>4, <1>5, OneKind

\* A reconcile begins.
LEMMA TakeStep ==
    ASSUME Inv, NEW k \in Kinds, Reconciling(k), NEW step, NEW obj, Take(k, step, obj),
           MayTake(k, cache[k], fresh[k], step, obj, external[k], k \in lost, k \in blind'),
           UNCHANGED <<external, instance, creds, lost>>,
           blind' = blind \/ blind' = blind \cup {k},
           ops' \in 0..MaxOps
    PROVE  Inv'
  <1> DEFINE w == [step |-> step, obj |-> obj, content |-> None]
  <1>1. w \in Work /\ w.step = step /\ w.obj = obj
    BY DEF Work, Copy, MayTake
  <1>2. /\ work' = [work EXCEPT ![k] = w]
        /\ fresh' = [fresh EXCEPT ![k] = IF "cache" \in @ THEN @ \cup {"work"} ELSE @ \ {"work"}]
        /\ UNCHANGED <<res, cache>>
    BY DEF Take
  <1> HIDE DEF w
  <1>3. /\ work' \in [Kinds -> Work] /\ work'[k] = w
        /\ \A j \in Kinds \ {k} : work'[j] = work[j]
    BY <1>1, <1>2, KindFacts, WorkFacts
  <1>4. /\ OnKinds(fresh')
        /\ fresh'[k] = IF "cache" \in fresh[k] THEN fresh[k] \cup {"work"} ELSE fresh[k] \ {"work"}
        /\ \A j \in Kinds \ {k} : fresh'[j] = fresh[j]
    BY <1>2, KindFacts DEF Frame, OnKinds
  <1>5. /\ Good(k, res[k], cache[k], fresh[k], "idle", work[k].obj, external[k], k \in lost, k \in blind)
        /\ cache[k] # None
    BY KindFacts DEF Reconciling
  <1>6. Good(k, res[k], cache[k], fresh'[k], step, obj, external[k], k \in lost, k \in blind')
    <2>1. blind \subseteq blind'
        OBVIOUS
    <2> QED
        BY <1>4, <1>5, <2>1, TakeGood
  <1>7. Frame'
    BY <1>2, <1>3, <1>4, KindFacts DEF Frame, OnKinds, Work
  <1>8. Others(k) /\ GoodKind(k)'
    BY <1>1, <1>2, <1>3, <1>4, <1>6 DEF Others, GoodKind
  <1> QED
    BY <1>7, <1>8, OneKind

\* What the status functions leave alone.
LEMMA InitializeFacts ==
    ASSUME Inv, NEW k \in Kinds, cache[k] # None, ~Initialized(k, cache[k])
    PROVE  LET obj == Initialize(k, cache[k]) IN
           /\ obj \in Resource
           /\ obj.deleting = cache[k].deleting /\ obj.finalizer = cache[k].finalizer
           /\ obj.mark = cache[k].mark /\ obj.id = cache[k].id
           /\ k = "binding" /\ cache[k].instance => obj.instance
  <1> DEFINE x == cache[k]
             obj == Initialize(k, x)
  <1>0. x \in Resource /\ creds \in Contents \cup {None}
    BY KindFacts, ResourceCopy DEF Frame, OnKinds
  <1>1. CASE k = "binding"
    <2>1. obj = initializeServiceBindingStatus(x) /\ (x.mark # None => x.details = <<>> /\ x.instance)
        <3>1. x.mark # None => x.instance
            BY <1>1, KindFacts DEF Good, BoundHasInstance
        <3> QED
            BY <1>1, <3>1 DEF Initialize, Initialized
    <2> DEFINE v == x.instance \/ HasInstance
    <2>2. v \in BOOLEAN /\ (x.instance => v)
        OBVIOUS
    <2>3. CASE x.mark = None
        <3>1. obj = [x EXCEPT !.instance = v]
            BY <1>0, <2>1, <2>3 DEF initializeServiceBindingStatus, initializeInstanceFields, Resource
        <3> HIDE DEF v, x, obj
        <3>2. obj \in Resource /\ obj.deleting = x.deleting /\ obj.finalizer = x.finalizer
              /\ obj.mark = x.mark /\ obj.id = x.id /\ obj.instance = v
            BY <1>0, <2>2, <3>1 DEF Resource
        <3> QED
            BY <2>2, <3>2 DEF x, obj
    <2>4. CASE x.mark # None /\ creds = None
        BY <1>0, <2>1, <2>4 DEF initializeServiceBindingStatus
    <2>5. CASE x.mark # None /\ creds # None
        <3> DEFINE d == x.details \o Extract(creds)
                   found == [x EXCEPT !.details = d]
        <3>1. d \in Details
            BY <1>0, <2>1, <2>5 DEF Details
        <3>2. obj = IF Extracted(creds) THEN [found EXCEPT !.instance = @ \/ HasInstance] ELSE found
            BY <2>1, <2>5 DEF initializeServiceBindingStatus, initializeInstanceFields
        <3> HIDE DEF d, x, obj
        <3>3. /\ found \in Resource /\ found.deleting = x.deleting /\ found.finalizer = x.finalizer
              /\ found.mark = x.mark /\ found.id = x.id /\ found.instance = x.instance
            BY <1>0, <3>1 DEF Resource
        <3> HIDE DEF found
        <3>4. [found EXCEPT !.instance = @ \/ HasInstance] = [found EXCEPT !.instance = v]
            BY <3>3
        <3> HIDE DEF v
        <3>5. LET y == [found EXCEPT !.instance = v] IN
              /\ y \in Resource /\ y.deleting = x.deleting /\ y.finalizer = x.finalizer
              /\ y.mark = x.mark /\ y.id = x.id /\ y.instance = v
            BY <2>2, <3>3 DEF Resource
        <3> QED
            BY <2>2, <3>2, <3>3, <3>4, <3>5 DEF x, obj
    <2> QED
        BY <2>3, <2>4, <2>5
  <1>2. CASE k = "backup"
    <2> DEFINE v == BackupHasInstance
    <2>1. obj = [x EXCEPT !.instance = v]
        BY <1>2 DEF Initialize, initializeBackupStatus, getServiceInstanceID
    <2>2. v \in BOOLEAN
        BY DEF BackupHasInstance
    <2> HIDE DEF v, x, obj
    <2>3. obj \in Resource /\ obj.deleting = x.deleting /\ obj.finalizer = x.finalizer
              /\ obj.mark = x.mark /\ obj.id = x.id
        BY <1>0, <2>1, <2>2 DEF Resource
    <2> QED
        BY <1>2, <2>3 DEF x, obj
  <1>3. CASE k = "restore"
    <2> DEFINE backup == cache["backup"]
    <2>1. obj = IF backup # None /\ backup.instance /\ backup.id # None
                  THEN [x EXCEPT !.instance = TRUE, !.backup = backup.id] ELSE x
        BY <1>3 DEF Initialize, initializeRestoreStatus, getBackupDetails
    <2>2. backup # None => backup.id \in AllIDs \cup {None}
        BY KindFacts, ResourceCopy DEF Resource, Kinds
    <2> HIDE DEF backup, x, obj
    <2>3. obj \in Resource /\ obj.deleting = x.deleting /\ obj.finalizer = x.finalizer
              /\ obj.mark = x.mark /\ obj.id = x.id
        BY <1>0, <2>1, <2>2 DEF Resource
    <2> QED
        BY <1>3, <2>3 DEF x, obj
  <1> QED
    BY <1>1, <1>2, <1>3 DEF Kinds

LEMMA ReconcilingFacts ==
    ASSUME Inv, NEW k \in Kinds, Reconciling(k)
    PROVE  /\ cache[k] \in Resource /\ cache[k] # None
           /\ ops \in 0..MaxOps
           /\ "cache" \in fresh[k] => res[k] = cache[k]
           /\ external[k] \in [IDsOf(k) -> ExternalStates]
           /\ Good(k, res[k], cache[k], fresh[k], "idle", work[k].obj, external[k], k \in lost, k \in blind)
  <1>1. Good(k, res[k], cache[k], fresh[k], "idle", work[k].obj, external[k], k \in lost, k \in blind)
    BY KindFacts DEF Reconciling
  <1>2. cache[k] \in Resource /\ cache[k] # None /\ ops \in 0..MaxOps
    BY KindFacts, ResourceCopy DEF Reconciling, Frame, OnKinds
  <1>3. ("cache" \in fresh[k] => res[k] = cache[k]) /\ external[k] \in [IDsOf(k) -> ExternalStates]
    BY <1>1 DEF Good, CopiesAreCurrent, Typed
  <1> QED
    BY <1>1, <1>2, <1>3

LEMMA ObserveUnsetStep ==
    ASSUME Inv, NEW k \in Kinds, ObserveUnset(k)
    PROVE  Inv'
  <1> DEFINE obj == Initialize(k, cache[k])
  <1>1. /\ Reconciling(k) /\ Take(k, "writeStatus", obj)
        /\ UNCHANGED <<external, instance, creds, lost, blind, ops>>
    BY DEF ObserveUnset, history
  <1>2. /\ obj \in Resource /\ obj.deleting = cache[k].deleting /\ obj.finalizer = cache[k].finalizer
        /\ obj.mark = cache[k].mark /\ obj.id = cache[k].id
        /\ k = "binding" /\ cache[k].instance => obj.instance
    BY InitializeFacts DEF ObserveUnset, Reconciling
  <1> HIDE DEF obj
  <1>3. NamesOf(obj) \subseteq NamesOf(cache[k])
    BY <1>2, <1>1 DEF NamesOf, Reconciling
  <1>4. MayTake(k, cache[k], fresh[k], "writeStatus", obj, external[k], k \in lost, k \in blind')
    BY <1>2, <1>3 DEF MayTake, Steps
  <1>5. ops' \in 0..MaxOps
    BY <1>1, KindFacts DEF Frame, OnKinds
  <1> QED
    BY <1>1, <1>4, <1>5, TakeStep

\* What the reconciler does next, if the object exists and if it does not.
LEMMA DecideFacts ==
    ASSUME NEW obj \in Resource
    PROVE  /\ Decide(obj, TRUE) = IF obj.deleting THEN "delete" ELSE "writeStatus"
           /\ obj.deleting => Decide(obj, FALSE) = "removeFinalizer"
           /\ ~obj.deleting /\ obj.finalizer => Decide(obj, FALSE) = "markPending"
           /\ ~obj.deleting /\ ~obj.finalizer => Decide(obj, FALSE) = "addFinalizer"
  <1>1. obj.deleting \in BOOLEAN /\ obj.finalizer \in BOOLEAN
    BY DEF Resource
  <1> QED
    BY <1>1 DEF Decide

LEMMA ObserveNewStep ==
    ASSUME Inv, NEW k \in Kinds, ObserveNew(k)
    PROVE  Inv'
  <1> DEFINE c == cache[k]
             step == Decide(c, FALSE)
  <1>1. /\ Reconciling(k) /\ Take(k, step, c) /\ c.mark = None /\ c.id = None
        /\ UNCHANGED <<external, instance, creds, lost, blind, ops>>
    BY DEF ObserveNew, history, Unnamed
  <1>2. k = "binding" => c.instance
    BY DEF ObserveNew, Initialized
  <1>3. /\ step \in {"removeFinalizer", "addFinalizer", "markPending"}
        /\ step = "markPending" => c.finalizer
    BY <1>1, DecideFacts, ReconcilingFacts
  <1>4. "cache" \in fresh[k] /\ k \notin lost => \A i \in IDsOf(k) : external[k][i] \notin Leftover(k)
    <2>1. "cache" \in fresh[k] /\ k \notin lost => Exists(external[k]) = {}
        BY <1>1, ReconcilingFacts DEF Good, UnnamedIsNothing
    <2> QED
        BY <1>1, <2>1, ReconcilingFacts DEF Exists, Leftover
  <1>5. c \in Resource /\ ops' \in 0..MaxOps
    BY <1>1, ReconcilingFacts
  <1> HIDE DEF step
  <1>6. MayTake(k, c, fresh[k], step, c, external[k], k \in lost, k \in blind')
    BY <1>1, <1>2, <1>3, <1>4, <1>5 DEF MayTake, Steps
  <1> QED
    BY <1>1, <1>5, <1>6, TakeStep

LEMMA GetBindingStep ==
    ASSUME Inv, GetBinding \/ GetBindingFails
    PROVE  Inv'
  <1> DEFINE c == cache["binding"]
             new == [c EXCEPT !.ready = IF c.deleting THEN @ ELSE TRUE]
             k == "binding"
  <1>0. k \in Kinds /\ Reconciling(k)
    BY DEF Kinds, GetBinding, GetBindingFails, Asking
  <1>1. c \in Resource /\ c # None /\ ops \in 0..MaxOps
    BY <1>0, ReconcilingFacts
  <1>2. /\ new \in Resource /\ new.deleting = c.deleting /\ new.finalizer = c.finalizer
        /\ new.mark = c.mark /\ new.id = c.id /\ new.instance = c.instance
    <2>1. (IF c.deleting THEN c.ready ELSE TRUE) \in BOOLEAN
        BY <1>1 DEF Resource
    <2> QED
        BY <1>1, <2>1 DEF Resource
  <1>3. UNCHANGED <<external, instance, creds, lost>>
    BY DEF GetBinding, GetBindingFails, history
  <1>4. ops' \in 0..MaxOps
    BY <1>0, <1>1, KindFacts, InterveneType DEF GetBinding, GetBindingFails
  <1>5. IDsOf(k) = {UID} /\ external[k][UID] \in {"absent", "present"}
    BY <1>0, ReconcilingFacts DEF Good, Typed, IDsOf
  <1> HIDE DEF new
  <1>6. NamesOf(new) \subseteq NamesOf(c)
    BY <1>1, <1>2 DEF NamesOf
  <1> SUFFICES \E step, obj :
                  /\ Take(k, step, obj) /\ (blind' = blind \/ blind' = blind \cup {k})
                  /\ MayTake(k, c, fresh[k], step, obj, external[k], k \in lost, k \in blind')
    BY <1>0, <1>3, <1>4, TakeStep
  <1>7. CASE GetBinding /\ GetBindingExists
    <2>1. Take(k, Decide(c, TRUE), new) /\ blind' = blind
        BY <1>7 DEF GetBinding, new, history
    <2>2. MayTake(k, c, fresh[k], Decide(c, TRUE), new, external[k], k \in lost, k \in blind')
        <3> DEFINE step == Decide(c, TRUE)
        <3>1. step \in {"delete", "writeStatus"} /\ (step = "delete" => c.deleting)
            BY <1>1, DecideFacts
        <3> HIDE DEF step
        <3>2. MayTake(k, c, fresh[k], step, new, external[k], k \in lost, k \in blind')
            BY <1>2, <1>6, <3>1 DEF MayTake, Steps
        <3> QED
            BY <3>2 DEF step
    <2> QED
        BY <2>1, <2>2
  <1>8. CASE GetBinding /\ ~GetBindingExists
    <2> DEFINE step == IF c.deleting THEN "removeFinalizer" ELSE "writeStatus"
    <2>1. Take(k, step, c) /\ blind' = blind
        BY <1>8 DEF GetBinding, history
    <2>2. external[k][UID] = "absent"
        BY <1>5, <1>8 DEF GetBindingExists
    <2>3. MayTake(k, c, fresh[k], step, c, external[k], k \in lost, k \in blind')
        BY <1>1, <1>5, <2>2 DEF MayTake, Steps, Leftover
    <2> QED
        BY <2>1, <2>3
  <1>9. CASE GetBindingFails
    <2>1. CASE c.deleting
        <3>1. Take(k, "removeFinalizer", c) /\ blind' = blind \cup {k}
            BY <1>9, <2>1 DEF GetBindingFails
        <3>2. MayTake(k, c, fresh[k], "removeFinalizer", c, external[k], k \in lost, k \in blind')
            BY <1>1, <3>1 DEF MayTake, Steps
        <3> QED
            BY <3>1, <3>2
    <2>2. CASE ~c.deleting
        <3>1. Take(k, "writeStatus", c) /\ blind' = blind
            BY <1>9, <2>2 DEF GetBindingFails
        <3>2. MayTake(k, c, fresh[k], "writeStatus", c, external[k], k \in lost, k \in blind')
            BY <1>1, <3>1 DEF MayTake, Steps
        <3> QED
            BY <3>1, <3>2
    <2> QED
        BY <2>1, <2>2
  <1> QED
    BY <1>7, <1>8, <1>9

\* Observe of a Backup and of a Restore takes the ID of the status, or that of the annotation:
\* it exists, and it is the only one.
LEMMA AskingFacts ==
    ASSUME Inv, NEW k \in {"backup", "restore"}, Asking(k), NEW ready \in BOOLEAN
    PROVE  LET c == cache[k]
               new == [c EXCEPT !.id = Named(c), !.ready = ready]
           IN  /\ Named(c) \in IDs
               /\ k \notin lost => \A i \in IDs : i = Named(c) \/ external[k][i] = "absent"
               /\ new \in Resource /\ new.deleting = c.deleting /\ new.finalizer = c.finalizer
               /\ new.mark = c.mark /\ NamesOf(new) \subseteq NamesOf(c)
  <1> DEFINE c == cache[k]
             new == [c EXCEPT !.id = Named(c), !.ready = ready]
             e == external[k]
  <1>0. k \in Kinds /\ Reconciling(k) /\ ~Unnamed(c) /\ k # "binding" /\ IDsOf(k) = IDs
    BY DEF Asking, Kinds, IDsOf
  <1>1. /\ c \in Resource /\ c # None /\ e \in [IDs -> ExternalStates]
        /\ NamedExists(k, res[k], c, work[k].obj, e, k \in lost)
    BY <1>0, ReconcilingFacts DEF Good
  <1>2. Named(c) \in NamesOf(c)
    BY <1>0, <1>1 DEF Named, NamesOf, Unnamed
  <1>3. Named(c) \in Exists(e)
    BY <1>0, <1>1, <1>2 DEF NamedExists
  <1>4. Named(c) \in IDs
    BY <1>1, <1>3 DEF Exists
  <1>5. k \notin lost => \A i \in IDs : i = Named(c) \/ e[i] = "absent"
    <2> SUFFICES ASSUME k \notin lost, NEW i \in IDs, e[i] # "absent" PROVE i = Named(c)
        OBVIOUS
    <2>1. i \in Exists(e)
        BY <1>1 DEF Exists
    <2> QED
        BY <1>0, <1>1, <1>3, <2>1 DEF NamedExists
  <1> DEFINE i == Named(c)
  <1>6. i \in AllIDs /\ i # None
    BY <1>4, ManagedResourcesAssumption DEF AllIDs
  <1> HIDE DEF c, i
  <1>7. /\ [c EXCEPT !.id = i, !.ready = ready] \in Resource
        /\ LET x == [c EXCEPT !.id = i, !.ready = ready]
           IN  x.deleting = c.deleting /\ x.finalizer = c.finalizer /\ x.mark = c.mark /\ x.id = i
    BY <1>1, <1>6 DEF Resource
  <1> DEFINE x == [c EXCEPT !.id = i, !.ready = ready]
  <1>8. x # None /\ x.mark = c.mark /\ x.id = i
    BY <1>7, ManagedResourcesAssumption
  <1>9. NamesOf(x) \subseteq NamesOf(c)
    <2> HIDE DEF x
    <2> QED
        BY <1>1, <1>2, <1>8 DEF NamesOf, i
  <1> QED
    BY <1>4, <1>5, <1>7, <1>9 DEF i, c

LEMMA GetBackupStep ==
    ASSUME Inv, GetBackup
    PROVE  Inv'
  <1> DEFINE k == "backup"
             c == cache[k]
             s == GetBackupStatus(Named(c))
             new == GenerateObservation(c, s)
             step == Decide(c, s # "deleted")
             e == external[k]
  <1>0. k \in Kinds /\ Reconciling(k) /\ Asking(k) /\ k # "binding" /\ IDsOf(k) = IDs
    BY DEF GetBackup, Asking, Kinds, IDsOf
  <1>1. Take(k, step, new) /\ UNCHANGED <<external, instance, creds, lost, blind, ops>>
    BY DEF GetBackup, history
  <1>2. /\ c \in Resource /\ c # None /\ ops' \in 0..MaxOps
        /\ "cache" \in fresh[k] => res[k] = c
        /\ NamedExists(k, res[k], c, work[k].obj, e, k \in lost)
    BY <1>0, <1>1, ReconcilingFacts DEF Good
  <1>3. /\ Named(c) \in IDs
        /\ k \notin lost => \A i \in IDs : i = Named(c) \/ e[i] = "absent"
        /\ new \in Resource /\ new.deleting = c.deleting /\ new.finalizer = c.finalizer
        /\ new.mark = c.mark /\ NamesOf(new) \subseteq NamesOf(c)
    BY <1>0, AskingFacts DEF GenerateObservation
  <1>4. s = e[Named(c)]
    BY DEF GetBackupStatus
  <1>5. CASE s # "deleted"
    <2>1. step \in {"delete", "writeStatus"} /\ (step = "delete" => c.deleting)
        BY <1>2, <1>5, DecideFacts
    <2> HIDE DEF step, new
    <2>2. MayTake(k, c, fresh[k], step, new, e, k \in lost, k \in blind')
        BY <1>3, <2>1 DEF MayTake, Steps
    <2> QED
        BY <1>0, <1>1, <1>2, <2>2, TakeStep
  <1>6. CASE s = "deleted"
    <2>1. /\ step \in {"removeFinalizer", "addFinalizer", "markPending"}
          /\ step \in {"addFinalizer", "markPending"} => ~c.deleting
          /\ step = "markPending" => c.finalizer
        BY <1>2, <1>6, DecideFacts
    <2>2. "cache" \in fresh[k] /\ k \notin lost => c.deleting
        BY <1>0, <1>2, <1>3, <1>4, <1>6 DEF NamedExists
    <2>3. k \notin lost => \A i \in IDs : e[i] \notin Leftover(k)
        BY <1>3, <1>4, <1>6 DEF Leftover
    <2> HIDE DEF step, new
    <2>4. MayTake(k, c, fresh[k], step, new, e, k \in lost, k \in blind')
        BY <1>0, <1>3, <2>1, <2>2, <2>3 DEF MayTake, Steps
    <2> QED
        BY <1>0, <1>1, <1>2, <2>4, TakeStep
  <1> QED
    BY <1>5, <1>6

LEMMA GetRestoreStep ==
    ASSUME Inv, GetRestore
    PROVE  Inv'
  <1> DEFINE k == "restore"
             c == cache[k]
             s == GetRestoreStatus(Named(c))
             new == GenerateBackupRestoreObservation(c, s)
             step == IF c.deleting THEN checkForDeletion(s) ELSE "writeStatus"
             e == external[k]
  <1>0. k \in Kinds /\ Reconciling(k) /\ Asking(k) /\ k # "binding" /\ IDsOf(k) = IDs
    BY DEF GetRestore, Asking, Kinds, IDsOf
  <1>1. Take(k, step, new) /\ UNCHANGED <<external, instance, creds, lost, blind, ops>>
    BY DEF GetRestore, history
  <1>2. /\ ops' \in 0..MaxOps
        /\ \A i \in IDs : e[i] # "present"
    BY <1>0, <1>1, ReconcilingFacts DEF Good, NamedExists
  <1>3. /\ Named(c) \in IDs
        /\ k \notin lost => \A i \in IDs : i = Named(c) \/ e[i] = "absent"
        /\ new \in Resource /\ new.deleting = c.deleting /\ new.finalizer = c.finalizer
        /\ new.mark = c.mark /\ NamesOf(new) \subseteq NamesOf(c)
    BY <1>0, AskingFacts DEF GenerateBackupRestoreObservation
  <1>4. s = e[Named(c)]
    BY DEF GetRestoreStatus
  <1>5. step \in {"removeFinalizer", "writeStatus"} /\ (step = "removeFinalizer" => s # "running")
    BY DEF checkForDeletion
  <1>6. step = "removeFinalizer" /\ k \notin lost => \A i \in IDs : e[i] \notin Leftover(k)
    BY <1>2, <1>3, <1>4, <1>5 DEF Leftover
  <1> HIDE DEF step, new
  <1>7. MayTake(k, c, fresh[k], step, new, e, k \in lost, k \in blind')
    BY <1>0, <1>3, <1>5, <1>6 DEF MayTake, Steps
  <1> QED
    BY <1>0, <1>1, <1>2, <1>7, TakeStep

LEMMA ConnectFailsStep ==
    ASSUME Inv, NEW k \in Kinds, ConnectFails(k)
    PROVE  Inv'
  <1>1. /\ Reconciling(k) /\ Take(k, "writeStatus", cache[k])
        /\ UNCHANGED <<external, instance, creds, lost, blind>>
    BY DEF ConnectFails, history
  <1>2. cache[k] \in Resource /\ ops' \in 0..MaxOps
    BY <1>1, KindFacts, ReconcilingFacts, InterveneType DEF ConnectFails
  <1>3. MayTake(k, cache[k], fresh[k], "writeStatus", cache[k], external[k], k \in lost, k \in blind')
    BY <1>2 DEF MayTake, Steps
  <1> QED
    BY <1>1, <1>2, <1>3, TakeStep

\* Every other step of a reconcile: it is about one kind, and leaves the cache alone.
LEMMA Closes ==
    ASSUME Inv, NEW k \in Kinds,
           OnKinds(res'), OnKinds(fresh'), OnKinds(external'),
           work' \in [Kinds -> Work], cache' = cache, instance' = instance,
           creds' \in Contents \cup {None}, lost' = lost \/ lost' = lost \cup {k},
           blind' = blind, ops' \in 0..MaxOps,
           \A j \in Kinds \ {k} : /\ res'[j] = res[j] /\ fresh'[j] = fresh[j]
                                  /\ work'[j] = work[j] /\ external'[j] = external[j],
           Good(k, res'[k], cache[k], fresh'[k], work'[k].step, work'[k].obj, external'[k], k \in lost', k \in blind)
    PROVE  Inv'
  <1>1. Frame'
    BY KindFacts DEF Frame, OnKinds, Work
  <1>2. Others(k)
    BY DEF Others
  <1>3. GoodKind(k)'
    BY DEF GoodKind
  <1> QED
    BY <1>1, <1>2, <1>3, OneKind

LEMMA StopStep ==
    ASSUME Inv, NEW k \in Kinds, work' = [work EXCEPT ![k] = Idle],
           OnKinds(fresh'), fresh'[k] = fresh[k] \ {"work"},
           \A j \in Kinds \ {k} : fresh'[j] = fresh[j],
           work[k].step # "annotate",
           UNCHANGED <<res, cache, external, instance, creds, lost, blind, ops>>
    PROVE  Inv'
  <1>1. /\ work' \in [Kinds -> Work] /\ work'[k].step = "idle" /\ work'[k].obj = None
        /\ \A j \in Kinds \ {k} : work'[j] = work[j]
    BY KindFacts, WorkFacts, IdleIsWork
  <1>2. Good(k, res[k], cache[k], fresh[k] \ {"work"}, "idle", None, external[k], k \in lost, k \in blind)
    BY KindFacts, StopGood
  <1>3. creds' \in Contents \cup {None} /\ ops' \in 0..MaxOps /\ OnKinds(res') /\ OnKinds(external')
    BY KindFacts DEF Frame, OnKinds
  <1> QED
    BY <1>1, <1>2, <1>3, Closes

LEMMA SaveStep ==
    ASSUME Inv, NEW k \in Kinds, NEW new, NEW step, Save(k, new, step),
           UNCHANGED <<cache, external, instance, creds, lost, blind, ops>>,
           work[k].step # "annotate",
           "work" \in fresh[k] =>
               Good(k, new, cache[k], IF new = res[k] THEN fresh[k] ELSE {"work"}, step, new,
                    external[k], k \in lost, k \in blind)
    PROVE  Inv'
  <1>1. CASE "work" \in fresh[k]
    <2>1. WriteRes(k, new, {"work"}) /\ work' = [work EXCEPT ![k].step = step, ![k].obj = new]
        BY <1>1 DEF Save
    <2>2. /\ OnKinds(res') /\ OnKinds(fresh')
          /\ res'[k] = new /\ fresh'[k] = IF new = res[k] THEN fresh[k] ELSE {"work"}
          /\ \A j \in Kinds \ {k} : res'[j] = res[j] /\ fresh'[j] = fresh[j]
        BY <2>1, KindFacts, WriteResFacts
    <2>3. /\ work' \in [Kinds -> Work] /\ work'[k].step = step /\ work'[k].obj = new
          /\ \A j \in Kinds \ {k} : work'[j] = work[j]
        <3>1. new \in Copy /\ step \in Steps
            BY <1>1 DEF Good, Typed
        <3> QED
            BY <2>1, <3>1, KindFacts DEF Frame, OnKinds, Work
    <2>4. creds' \in Contents \cup {None} /\ ops' \in 0..MaxOps /\ OnKinds(external')
        BY KindFacts DEF Frame, OnKinds
    <2>5. Good(k, res'[k], cache[k], fresh'[k], work'[k].step, work'[k].obj, external'[k], k \in lost', k \in blind)
        BY <1>1, <2>2, <2>3
    <2> QED
        BY <2>2, <2>3, <2>4, <2>5, Closes
  <1>2. CASE "work" \notin fresh[k]
    <2>1. Stop(k) /\ UNCHANGED res
        BY <1>2 DEF Save
    <2>2. /\ OnKinds(fresh') /\ fresh'[k] = fresh[k] \ {"work"}
          /\ \A j \in Kinds \ {k} : fresh'[j] = fresh[j]
        BY <2>1, KindFacts DEF Stop, Frame, OnKinds
    <2> QED
        BY <2>1, <2>2, StopStep DEF Stop
  <1> QED
    BY <1>1, <1>2

LEMMA AddFinalizerStep ==
    ASSUME Inv, NEW k \in Kinds, AddFinalizer(k)
    PROVE  Inv'
  <1> DEFINE new == [res[k] EXCEPT !.finalizer = TRUE]
             f == IF new = res[k] THEN fresh[k] ELSE {"work"}
  <1>1. /\ work[k].step = "addFinalizer" /\ Save(k, new, "markPending")
        /\ UNCHANGED <<cache, external, instance, creds, lost, blind, ops>>
    BY DEF AddFinalizer, history
  <1>2. "work" \in fresh[k] =>
            Good(k, new, cache[k], f, "markPending", new, external[k], k \in lost, k \in blind)
    <2>1. Good(k, res[k], cache[k], fresh[k], "addFinalizer", work[k].obj, external[k], k \in lost, k \in blind)
        BY <1>1, KindFacts
    <2> QED
        BY <2>1, AddFinalizerGood
  <1> HIDE DEF new
  <1> QED
    BY <1>1, <1>2, SaveStep

LEMMA MarkPendingStep ==
    ASSUME Inv, NEW k \in Kinds, MarkPending(k)
    PROVE  Inv'
  <1> DEFINE new == [res[k] EXCEPT !.create = "pending"]
             f == IF new = res[k] THEN fresh[k] ELSE {"work"}
  <1>1. /\ work[k].step = "markPending" /\ Save(k, new, "create")
        /\ UNCHANGED <<cache, external, instance, creds, lost, blind, ops>>
    BY DEF MarkPending, history
  <1>2. "work" \in fresh[k] =>
            Good(k, new, cache[k], f, "create", new, external[k], k \in lost, k \in blind)
    <2>1. Good(k, res[k], cache[k], fresh[k], "markPending", work[k].obj, external[k], k \in lost, k \in blind)
        BY <1>1, KindFacts
    <2> QED
        BY <2>1, MarkPendingGood
  <1> HIDE DEF new
  <1> QED
    BY <1>1, <1>2, SaveStep

\* The calls: the reconcile goes on with another copy.
LEMMA GotoStep ==
    ASSUME Inv, NEW k \in Kinds, NEW step, NEW obj, NEW content \in Contents \cup {None},
           Goto(k, step, obj, content),
           OnKinds(external'), \A j \in Kinds \ {k} : external'[j] = external[j],
           instance' = instance, creds' \in Contents \cup {None},
           lost' = lost \/ lost' = lost \cup {k}, blind' = blind, ops' \in 0..MaxOps,
           Good(k, res[k], cache[k], fresh[k], step, obj, external'[k], k \in lost', k \in blind)
    PROVE  Inv'
  <1> DEFINE w == [step |-> step, obj |-> obj, content |-> content]
  <1>1. w \in Work /\ w.step = step /\ w.obj = obj
    BY DEF Good, Typed, Work
  <1>2. work' = [work EXCEPT ![k] = w] /\ UNCHANGED <<res, cache, fresh>>
    BY DEF Goto
  <1> HIDE DEF w
  <1>3. /\ work' \in [Kinds -> Work] /\ work'[k] = w
        /\ \A j \in Kinds \ {k} : work'[j] = work[j]
    BY <1>1, <1>2, KindFacts, WorkFacts
  <1>4. OnKinds(res') /\ OnKinds(fresh')
    BY <1>2, KindFacts DEF Frame, OnKinds
  <1>5. Good(k, res'[k], cache[k], fresh'[k], work'[k].step, work'[k].obj, external'[k], k \in lost', k \in blind)
    BY <1>1, <1>2, <1>3
  <1> QED
    BY <1>2, <1>3, <1>4, <1>5, Closes

LEMMA ExternalFacts ==
    ASSUME Inv, NEW k \in Kinds, NEW i, NEW s, External(k, i, s)
    PROVE  /\ OnKinds(external') /\ external'[k] = [external[k] EXCEPT ![i] = s]
           /\ \A j \in Kinds \ {k} : external'[j] = external[j]
    BY KindFacts DEF External, Frame, OnKinds

\* The outcomes of Create: nothing was made, or i.
MadeNothing == external' = external
Made(k, i) ==
    /\ i \in IDsOf(k)
    /\ External(k, i, IF k = "binding" THEN "present" ELSE "running")
    /\ k # "binding" => external[k][i] = "absent"

LEMMA CreateStep ==
    ASSUME Inv, NEW k \in Kinds, work[k].step = "create",
           NEW i, NEW outcome \in {"failed", "succeeded"},
           NEW obj \in {[work[k].obj EXCEPT !.create = outcome],
                        Created(work[k].obj, i, outcome)},
           NEW content \in Contents \cup {None}, Goto(k, "annotate", obj, content),
           \/ MadeNothing /\ obj = [work[k].obj EXCEPT !.create = outcome]
           \/ Made(k, i) /\ (obj = Created(work[k].obj, i, outcome) \/ k \in lost'),
           instance' = instance, creds' = creds,
           lost' = lost \/ lost' = lost \cup {k}, blind' = blind, ops' \in 0..MaxOps
    PROVE  Inv'
  <1> DEFINE o == work[k].obj
  <1>1. Good(k, res[k], cache[k], fresh[k], "create", o, external[k], k \in lost, k \in blind)
    BY KindFacts
  <1>2. o \in Resource
    BY <1>1, ResourceCopy DEF Good, Typed, CopiesAreCurrent
  <1>3. i \in IDsOf(k) => i \in AllIDs
    BY DEF IDsOf, AllIDs
  <1>4. OnKinds(external') /\ \A j \in Kinds \ {k} : external'[j] = external[j]
    <2>1. CASE MadeNothing
        BY <2>1, KindFacts DEF MadeNothing, Frame, OnKinds
    <2>2. CASE Made(k, i)
        <3> DEFINE s == IF k = "binding" THEN "present" ELSE "running"
        <3>1. External(k, i, s)
            BY <2>2 DEF Made
        <3> HIDE DEF s
        <3> QED
            BY <3>1, ExternalFacts
    <2> QED
        BY <2>1, <2>2
  <1>5. creds' \in Contents \cup {None} /\ lost \subseteq lost'
    BY KindFacts DEF Frame, OnKinds
  <1>6. CASE MadeNothing /\ obj = [o EXCEPT !.create = outcome]
    <2> HIDE DEF o
    <2>1. obj \in Resource /\ obj.mark = o.mark /\ obj.id = o.id /\ obj.instance = o.instance
        BY <1>2, <1>6 DEF Resource
    <2>2. external'[k] = external[k]
        BY <1>6 DEF MadeNothing
    <2>3. Good(k, res[k], cache[k], fresh[k], "annotate", obj, external'[k], k \in lost', k \in blind)
        BY <1>1, <1>5, <2>1, <2>2, CreateGood
    <2> QED
        BY <1>4, <1>5, <2>3, GotoStep
  <1>7. CASE Made(k, i) /\ (obj = Created(o, i, outcome) \/ k \in lost')
    <2>1. i \in IDsOf(k) /\ i \in AllIDs
        BY <1>3, <1>7 DEF Made
    <2>2. /\ obj \in Resource /\ obj.id = o.id /\ obj.instance = o.instance
          /\ obj.mark = i \/ (obj.mark = o.mark /\ k \in lost')
        <3> HIDE DEF o
        <3>1. CASE obj = Created(o, i, outcome)
            BY <1>2, <2>1, <3>1 DEF Created, Resource
        <3>2. CASE obj = [o EXCEPT !.create = outcome] /\ k \in lost'
            BY <1>2, <3>2 DEF Resource
        <3> QED
            BY <1>7, <3>1, <3>2 DEF o
    <2>3. IF k = "binding" THEN external'[k] = [external[k] EXCEPT ![i] = "present"]
          ELSE external[k][i] = "absent" /\ external'[k] = [external[k] EXCEPT ![i] = "running"]
        <3> DEFINE s == IF k = "binding" THEN "present" ELSE "running"
        <3>1. External(k, i, s) /\ (k # "binding" => external[k][i] = "absent")
            BY <1>7 DEF Made
        <3> HIDE DEF s
        <3>2. external'[k] = [external[k] EXCEPT ![i] = s]
            BY <3>1, KindFacts DEF External, Frame, OnKinds
        <3> QED
            BY <3>1, <3>2 DEF s
    <2> HIDE DEF o
    <2>4. Good(k, res[k], cache[k], fresh[k], "annotate", obj, external'[k], k \in lost', k \in blind)
        BY <1>1, <1>5, <2>1, <2>2, <2>3, CreateGood
    <2> QED
        BY <1>4, <1>5, <2>4, GotoStep
  <1> QED
    BY <1>6, <1>7

LEMMA AnsweredStep ==
    ASSUME Inv, NEW k \in Kinds, work[k].step = "create", NEW i, Made(k, i),
           NEW content \in Contents \cup {None}, Answered(k, work[k].obj, i, content),
           instance' = instance, creds' = creds, blind' = blind
    PROVE  Inv'
  <1> DEFINE named == Created(work[k].obj, i, "succeeded")
             failed == [work[k].obj EXCEPT !.create = "failed"]
  <1>1. CASE Goto(k, "annotate", named, content) /\ UNCHANGED <<lost, ops>>
    <2>1. ops' \in 0..MaxOps
        BY <1>1, KindFacts DEF Frame, OnKinds
    <2> QED
        BY <1>1, <2>1, CreateStep
  <1>2. CASE Intervene /\ Goto(k, "annotate", failed, None) /\ lost' = lost \cup {k}
    <2>1. ops' \in 0..MaxOps /\ k \in lost'
        BY <1>2, KindFacts, InterveneType
    <2> QED
        BY <1>2, <2>1, CreateStep
  <1> QED
    BY <1>1, <1>2 DEF Answered

LEMMA BindStep ==
    ASSUME Inv, Bind \/ BindAsync
    PROVE  Inv'
  <1> DEFINE k == "binding"
  <1>1. k \in Kinds /\ work[k].step = "create" /\ instance' = instance /\ creds' = creds /\ blind' = blind
    BY DEF Bind, BindAsync, Kinds, history
  <1>2. Made(k, UID)
    BY DEF Bind, BindAsync, BindAtBroker, Made, IDsOf
  <1>3. CASE Bind
    <2>1. PICK content \in Contents : Answered(k, work[k].obj, UID, content)
        BY <1>3 DEF Bind
    <2> QED
        BY <1>1, <1>2, <2>1, AnsweredStep
  <1>4. CASE BindAsync
    <2>1. ops' \in 0..MaxOps /\ lost' = lost /\ Goto(k, "annotate", Created(work[k].obj, UID, "failed"), None)
        BY <1>1, <1>4, KindFacts, InterveneType DEF BindAsync, history
    <2> QED
        BY <1>1, <1>2, <2>1, CreateStep
  <1> QED
    BY <1>3, <1>4

LEMMA StartStep ==
    ASSUME Inv, NEW k \in {"backup", "restore"}, work[k].step = "create", Start(k),
           instance' = instance, creds' = creds, blind' = blind
    PROVE  Inv'
  <1> DEFINE unused == {i \in IDs : external[k][i] = "absent"}
             next == CHOOSE i \in unused : TRUE
  <1>1. External(k, next, "running") /\ Answered(k, work[k].obj, next, None) /\ unused # {}
    BY DEF Start
  <1>2. next \in unused
    BY <1>1
  <1> HIDE DEF next
  <1>3. k \in Kinds /\ Made(k, next)
    BY <1>1, <1>2 DEF Made, IDsOf, Kinds
  <1> QED
    BY <1>1, <1>3, AnsweredStep

LEMMA CreateBackupStep ==
    ASSUME Inv, CreateBackup
    PROVE  Inv'
  <1>1. /\ work["backup"].step = "create" /\ Start("backup")
        /\ instance' = instance /\ creds' = creds /\ blind' = blind
    BY DEF CreateBackup
  <1> QED
    BY <1>1, StartStep

LEMMA CreateRestoreStep ==
    ASSUME Inv, CreateRestore
    PROVE  Inv'
  <1> DEFINE k == "restore"
             failed == [work[k].obj EXCEPT !.create = "failed"]
  <1>1. k \in Kinds /\ work[k].step = "create" /\ instance' = instance /\ creds' = creds /\ blind' = blind
    BY DEF CreateRestore, Kinds
  <1>2. CASE Start(k)
    BY <1>1, <1>2, StartStep
  <1>3. CASE Goto(k, "annotate", failed, None) /\ UNCHANGED <<external, lost, ops>>
    <2>1. ops' \in 0..MaxOps /\ MadeNothing
        BY <1>1, <1>3, KindFacts DEF Frame, OnKinds, MadeNothing
    <2> QED
        BY <1>1, <1>3, <2>1, CreateStep
  <1> QED
    BY <1>2, <1>3 DEF CreateRestore

LEMMA CallFailsStep ==
    ASSUME Inv, NEW k \in Kinds, CallFails(k)
    PROVE  Inv'
  <1>1. UNCHANGED <<external, instance, creds, lost, blind>> /\ ops' \in 0..MaxOps
    BY KindFacts, InterveneType DEF CallFails, history
  <1>2. CASE work[k].step = "create" /\ Goto(k, "annotate", [work[k].obj EXCEPT !.create = "failed"], None)
    <2>1. MadeNothing
        BY <1>1 DEF MadeNothing
    <2> QED
        BY <1>1, <1>2, <2>1, CreateStep
  <1>3. CASE work[k].step \in {"delete", "publish"} /\ Goto(k, "writeStatus", work[k].obj, None)
    <2>1. work[k].obj \in Resource
        BY <1>3, KindFacts, ResourceCopy DEF Good, CopiesAreCurrent
    <2>2. Good(k, res[k], cache[k], fresh[k], "writeStatus", work[k].obj, external'[k], k \in lost', k \in blind)
        BY <1>1, <1>3, <2>1, KindFacts, ToStatusGood
    <2>3. OnKinds(external') /\ creds' \in Contents \cup {None}
        BY <1>1, KindFacts DEF Frame, OnKinds
    <2> QED
        BY <1>1, <1>3, <2>2, <2>3, GotoStep
  <1> QED
    BY <1>2, <1>3 DEF CallFails

LEMMA AnnotateStep ==
    ASSUME Inv, NEW k \in Kinds, Annotate(k)
    PROVE  Inv'
  <1> DEFINE new == [res[k] EXCEPT !.create = work[k].obj.create, !.mark = work[k].obj.mark]
             f == IF new = res[k] THEN fresh[k] ELSE {"work"}
             step == IF work[k].content = None THEN "writeStatus" ELSE "publish"
  <1>1. /\ work[k].step = "annotate" /\ WriteRes(k, new, {"work"})
        /\ work' = [work EXCEPT ![k].obj = new, ![k].step = step]
        /\ UNCHANGED <<cache, external, instance, creds, lost, blind, ops>>
    BY DEF Annotate, history
  <1>2. step \in {"publish", "writeStatus"}
    OBVIOUS
  <1> HIDE DEF step
  <1>3. Good(k, new, cache[k], f, step, new, external[k], k \in lost, k \in blind)
    <2>1. Good(k, res[k], cache[k], fresh[k], "annotate", work[k].obj, external[k], k \in lost, k \in blind)
        BY <1>1, KindFacts
    <2>2. CASE step = "publish"
        BY <2>1, <2>2, AnnotateGood
    <2>3. CASE step = "writeStatus"
        BY <2>1, <2>3, AnnotateGood
    <2> QED
        BY <1>2, <2>2, <2>3
  <1> HIDE DEF new
  <1>4. new \in Copy /\ step \in Steps
    BY <1>3 DEF Good, Typed
  <1>5. /\ work' \in [Kinds -> Work] /\ work'[k].step = step /\ work'[k].obj = new
        /\ \A j \in Kinds \ {k} : work'[j] = work[j]
    BY <1>1, <1>4, KindFacts DEF Frame, OnKinds, Work
  <1>6. /\ OnKinds(res') /\ OnKinds(fresh') /\ res'[k] = new /\ fresh'[k] = f
        /\ \A j \in Kinds \ {k} : res'[j] = res[j] /\ fresh'[j] = fresh[j]
    BY <1>1, KindFacts, WriteResFacts
  <1>7. creds' \in Contents \cup {None} /\ ops' \in 0..MaxOps /\ OnKinds(external')
    BY <1>1, KindFacts DEF Frame, OnKinds
  <1>8. Good(k, res'[k], cache[k], fresh'[k], work'[k].step, work'[k].obj, external'[k], k \in lost', k \in blind)
    BY <1>1, <1>3, <1>5, <1>6
  <1> QED
    BY <1>1, <1>5, <1>6, <1>7, <1>8, Closes

LEMMA PublishStep ==
    ASSUME Inv, NEW k \in Kinds, Publish(k)
    PROVE  Inv'
  <1>1. /\ work[k].step = "publish" /\ Goto(k, "writeStatus", work[k].obj, None)
        /\ creds' = work[k].content /\ UNCHANGED <<external, instance, lost, blind, ops>>
    BY DEF Publish, history
  <1>2. work[k].obj \in Resource
    BY <1>1, KindFacts, ResourceCopy DEF Good, CopiesAreCurrent
  <1>3. Good(k, res[k], cache[k], fresh[k], "writeStatus", work[k].obj, external'[k], k \in lost', k \in blind)
    BY <1>1, <1>2, KindFacts, ToStatusGood
  <1>4. OnKinds(external') /\ creds' \in Contents \cup {None} /\ ops' \in 0..MaxOps
    BY <1>1, KindFacts DEF Frame, OnKinds, Work
  <1> QED
    BY <1>1, <1>3, <1>4, GotoStep

LEMMA DeleteStep ==
    ASSUME Inv, NEW k \in Kinds, Delete(k)
    PROVE  Inv'
  <1> DEFINE o == work[k].obj
             new == [o EXCEPT !.ready = FALSE]
  <1>1. /\ work[k].step = "delete" /\ Goto(k, "writeStatus", new, None)
        /\ UNCHANGED <<instance, creds, lost, blind, ops>>
    BY DEF Delete, Unbind, DeleteBackup, history
  <1>2. o \in Resource
    BY <1>1, KindFacts, ResourceCopy DEF Good, CopiesAreCurrent
  <1> HIDE DEF o
  <1>3. /\ new \in Resource /\ new.id = o.id /\ new.mark = o.mark /\ new.instance = o.instance
        /\ new.deleting = o.deleting /\ new.finalizer = o.finalizer
    BY <1>2 DEF Resource
  <1> HIDE DEF new
  <1>4. /\ OnKinds(external')
        /\ \A j \in Kinds \ {k} : external'[j] = external[j]
        /\ \/ external'[k] = external[k]
           \/ k = "binding" /\ external'[k] = [external[k] EXCEPT ![UID] = "absent"]
           \/ k = "backup" /\ external'[k] = [external[k] EXCEPT ![o.id] = "deleted"]
    <2>1. CASE external' = external
        BY <2>1, KindFacts DEF Frame, OnKinds
    <2>2. CASE k = "binding" /\ External(k, UID, "absent")
        BY <2>2, KindFacts DEF External, Frame, OnKinds
    <2>3. CASE k = "backup" /\ External(k, o.id, "deleted")
        BY <2>3, KindFacts DEF External, Frame, OnKinds
    <2> QED
        BY <2>1, <2>2, <2>3 DEF Delete, Unbind, DeleteBackup, UnbindAtBroker, DeleteAtManager, o
  <1>5. Good(k, res[k], cache[k], fresh[k], "writeStatus", new, external'[k], k \in lost, k \in blind)
    <2>1. Good(k, res[k], cache[k], fresh[k], "delete", o, external[k], k \in lost, k \in blind)
        BY <1>1, KindFacts DEF o
    <2> QED
        BY <1>3, <1>4, <2>1, ToStatusGood
  <1>6. creds' \in Contents \cup {None} /\ ops' \in 0..MaxOps
    BY <1>1, KindFacts DEF Frame, OnKinds
  <1> QED
    BY <1>1, <1>4, <1>5, <1>6, GotoStep

LEMMA RemoveFinalizerStep ==
    ASSUME Inv, NEW k \in Kinds, RemoveFinalizer(k)
    PROVE  Inv'
  <1>1. /\ work[k].step = "removeFinalizer" /\ work' = [work EXCEPT ![k] = Idle]
        /\ UNCHANGED <<cache, external, instance, creds, lost, blind, ops>>
    BY DEF RemoveFinalizer, history
  <1>2. CASE "work" \in fresh[k]
    <2>1. /\ Good(k, None, cache[k], {}, "idle", None, external[k], k \in lost, k \in blind)
          /\ res[k] # None
        BY <1>1, <1>2, KindFacts, RemoveFinalizerGood
    <2>2. /\ OnKinds(res') /\ OnKinds(fresh') /\ res'[k] = None /\ fresh'[k] = {}
          /\ \A j \in Kinds \ {k} : res'[j] = res[j] /\ fresh'[j] = fresh[j]
        <3>1. WriteRes(k, None, {})
            BY <1>2 DEF RemoveFinalizer
        <3> QED
            BY <2>1, <3>1, KindFacts, WriteResFacts
    <2>3. /\ work' \in [Kinds -> Work] /\ work'[k].step = "idle" /\ work'[k].obj = None
          /\ \A j \in Kinds \ {k} : work'[j] = work[j]
        BY <1>1, KindFacts, WorkFacts, IdleIsWork
    <2>4. creds' \in Contents \cup {None} /\ ops' \in 0..MaxOps /\ OnKinds(external')
        BY <1>1, KindFacts DEF Frame, OnKinds
    <2> QED
        BY <1>1, <2>1, <2>2, <2>3, <2>4, Closes
  <1>3. CASE "work" \notin fresh[k]
    <2>1. UNCHANGED <<res, fresh>>
        BY <1>3 DEF RemoveFinalizer
    <2>2. OnKinds(fresh') /\ fresh'[k] = fresh[k] \ {"work"}
        BY <1>3, <2>1, KindFacts DEF Frame, OnKinds, Good, Typed
    <2> QED
        BY <1>1, <2>1, <2>2, StopStep
  <1> QED
    BY <1>2, <1>3

LEMMA WriteStatusStep ==
    ASSUME Inv, NEW k \in Kinds, WriteStatus(k)
    PROVE  Inv'
  <1>1. /\ work[k].step = "writeStatus" /\ work' = [work EXCEPT ![k] = Idle]
        /\ UNCHANGED <<cache, external, instance, creds, lost, blind, ops>>
    BY DEF WriteStatus, history
  <1>2. CASE "work" \in fresh[k]
    <2> DEFINE o == work[k].obj
               f == IF o = res[k] THEN fresh[k] \ {"work"} ELSE {}
    <2>1. Good(k, o, cache[k], f, "idle", None, external[k], k \in lost, k \in blind)
        <3>1. Good(k, res[k], cache[k], fresh[k], "writeStatus", o, external[k], k \in lost, k \in blind)
            BY <1>1, KindFacts
        <3> QED
            BY <1>2, <3>1, WriteStatusGood
    <2>2. /\ OnKinds(res') /\ OnKinds(fresh') /\ res'[k] = o /\ fresh'[k] = f
          /\ \A j \in Kinds \ {k} : res'[j] = res[j] /\ fresh'[j] = fresh[j]
        BY <1>2, KindFacts DEF WriteStatus, Frame, OnKinds
    <2>3. /\ work' \in [Kinds -> Work] /\ work'[k].step = "idle" /\ work'[k].obj = None
          /\ \A j \in Kinds \ {k} : work'[j] = work[j]
        BY <1>1, KindFacts, WorkFacts, IdleIsWork
    <2>4. creds' \in Contents \cup {None} /\ ops' \in 0..MaxOps /\ OnKinds(external')
        BY <1>1, KindFacts DEF Frame, OnKinds
    <2> HIDE DEF f, o
    <2>5. Good(k, res'[k], cache[k], fresh'[k], work'[k].step, work'[k].obj, external'[k], k \in lost', k \in blind)
        BY <1>1, <2>1, <2>2, <2>3
    <2> QED
        BY <1>1, <2>2, <2>3, <2>4, <2>5, Closes
  <1>3. CASE "work" \notin fresh[k]
    <2>1. UNCHANGED <<res, fresh>>
        BY <1>3 DEF WriteStatus
    <2>2. OnKinds(fresh') /\ fresh'[k] = fresh[k] \ {"work"}
        BY <1>3, <2>1, KindFacts DEF Frame, OnKinds, Good, Typed
    <2> QED
        BY <1>1, <2>1, <2>2, StopStep
  <1> QED
    BY <1>2, <1>3

LEMMA CrashStep ==
    ASSUME Inv, Crash
    PROVE  Inv'
  <1> DEFINE forgotten == {k \in Kinds : work[k].step = "annotate" /\ work[k].obj.mark # None}
  <1>1. /\ work' = [k \in Kinds |-> Idle] /\ fresh' = [k \in Kinds |-> fresh[k] \ {"work"}]
        /\ lost' = lost \cup forgotten
        /\ UNCHANGED <<res, cache, external, instance, creds, blind>>
    BY DEF Crash
  <1>2. Frame /\ ops' \in 0..MaxOps
    BY InterveneType DEF Inv, Crash
  <1>3. Frame'
    BY <1>1, <1>2, IdleIsWork DEF Frame, OnKinds, Work
  <1>4. ASSUME NEW k \in Kinds PROVE GoodKind(k)'
    <2>1. /\ work'[k].step = "idle" /\ work'[k].obj = None /\ fresh'[k] = fresh[k] \ {"work"}
        BY <1>1, IdleIsWork
    <2>2. lost \subseteq lost' /\ (work[k].step = "annotate" /\ work[k].obj.mark # None => k \in lost')
        BY <1>1
    <2>3. Good(k, res[k], cache[k], fresh[k] \ {"work"}, "idle", None, external[k], k \in lost', k \in blind)
        BY <2>2, KindFacts, StopGood
    <2> QED
        BY <1>1, <2>1, <2>3 DEF GoodKind
  <1> QED
    BY <1>3, <1>4 DEF Inv

LEMMA OutsideStep ==
    ASSUME Inv, NEW k \in Kinds, NEW i \in IDsOf(k),
           Finish(k, i) \/ Fail(k, i) \/ (k = "backup" /\ Expire(i))
    PROVE  Inv'
  <1>1. PICK s : /\ External(k, i, s)
                 /\ \/ external[k][i] = "running" /\ s \in {"done", "failed"} /\ lost' = lost
                    \/ external[k][i] = "done" /\ s = "deleted" /\ lost' = lost \cup {k}
    BY DEF Finish, Fail, Expire, history
  <1>2. UNCHANGED <<res, cache, fresh, work, instance, creds, blind>> /\ ops' \in 0..MaxOps
    BY KindFacts, InterveneType DEF Finish, Fail, Expire, objects, history, Frame, OnKinds
  <1>3. /\ OnKinds(external') /\ external'[k] = [external[k] EXCEPT ![i] = s]
        /\ \A j \in Kinds \ {k} : external'[j] = external[j]
    BY <1>1, KindFacts DEF External, Frame, OnKinds
  <1>4. Good(k, res[k], cache[k], fresh[k], work[k].step, work[k].obj, external'[k], k \in lost', k \in blind)
    <2>1. lost \subseteq lost' /\ (s = "deleted" => k \in lost')
        BY <1>1
    <2>2. Good(k, res[k], cache[k], fresh[k], work[k].step, work[k].obj, [external[k] EXCEPT ![i] = s],
               k \in lost', k \in blind)
        BY <1>1, <2>1, KindFacts, OutsideGood
    <2> QED
        BY <1>3, <2>2
  <1>5. /\ OnKinds(res') /\ OnKinds(fresh') /\ work' \in [Kinds -> Work]
        /\ creds' \in Contents \cup {None} /\ (lost' = lost \/ lost' = lost \cup {k})
    BY <1>1, <1>2, KindFacts DEF Frame, OnKinds, Work
  <1>6. Good(k, res'[k], cache[k], fresh'[k], work'[k].step, work'[k].obj, external'[k], k \in lost', k \in blind)
    BY <1>2, <1>4
  <1> QED
    BY <1>2, <1>3, <1>5, <1>6, Closes

LEMMA InstanceStep ==
    ASSUME Inv, InstanceReady \/ InstanceGone
    PROVE  Inv'
  <1>1. /\ UNCHANGED <<res, cache, fresh, work, external, creds, lost, blind>>
        /\ instance' \in {"unset", "set", "gone"} /\ (ops' = ops \/ Intervene)
    BY DEF InstanceReady, InstanceGone, objects, history
  <1>2. Frame'
    BY <1>1, InterveneType DEF Inv, Frame, OnKinds
  <1> QED
    BY <1>1, <1>2 DEF Inv, GoodKind

LEMMA StutterStep ==
    ASSUME Inv, UNCHANGED vars
    PROVE  Inv'
    BY DEF Inv, Frame, OnKinds, GoodKind, vars, objects, history

-----------------------------------------------------------------------------
(* The theorems.                                                           *)

LEMMA InitInv ==
    ASSUME Init
    PROVE  Inv
  <1>0. New \in Resource /\ New # None /\ New.mark = None /\ New.id = None /\ ~New.deleting /\ ~New.finalizer
    <2>1. New \in Resource
        BY DEF New, Resource, Details
    <2> QED
        BY <2>1, ManagedResourcesAssumption DEF New
  <1>1. Frame
    BY IdleIsWork, ManagedResourcesAssumption DEF Init, Frame, OnKinds, Work
  <1>2. ASSUME NEW k \in Kinds PROVE GoodKind(k)
    <2>1. /\ res[k] \in {New, None} /\ cache[k] = None /\ fresh[k] = {}
          /\ work[k].step = "idle" /\ work[k].obj = None
          /\ external[k] = [i \in IDsOf(k) |-> "absent"] /\ k \notin lost
        BY IdleIsWork DEF Init
    <2>2. /\ external[k] \in [IDsOf(k) -> ExternalStates] /\ Exists(external[k]) = {}
          /\ \A i \in IDsOf(k) : external[k][i] = "absent"
        BY <2>1 DEF Exists, ExternalStates
    <2> DEFINE r == res[k]
               e == external[k]
    <2> HIDE DEF e
    <2>3. Typed(k, r, None, {}, "idle", None, e)
        BY <1>0, <2>1, <2>2 DEF Typed, Copy, Steps, e
    <2>4. CopiesAreCurrent(r, None, {}, "idle", None) /\ DeletionIsFinal(r, None, "idle")
        BY DEF CopiesAreCurrent, DeletionIsFinal
    <2>5. CreatesUnnamed(r, {}, "idle", None, k \in lost) /\ UnnamedIsNothing(r, "idle", None, e, k \in lost)
        BY <2>2 DEF CreatesUnnamed, UnnamedIsNothing, e
    <2>6. NamedExists(k, r, None, None, e, k \in lost)
        BY <1>0, <2>1, <2>2 DEF NamedExists, NamesOf, e, IDsOf
    <2>7. BoundHasInstance(k, r, None, {}, "idle", None)
        BY <1>0, <2>1 DEF BoundHasInstance
    <2>8. NothingLeft(k, r, {}, "idle", e, k \in lost, k \in blind)
        BY <2>2 DEF NothingLeft, Leftover, e
    <2>9. Good(k, r, None, {}, "idle", None, e, k \in lost, k \in blind)
        BY <2>3, <2>4, <2>5, <2>6, <2>7, <2>8 DEF Good
    <2> QED
        BY <2>1, <2>9 DEF GoodKind, e
  <1> QED
    BY <1>1, <1>2 DEF Inv

LEMMA InvStep ==
    ASSUME Inv, [Next]_vars
    PROVE  Inv'
  <1>1. CASE UNCHANGED vars
    BY <1>1, StutterStep
  <1>2. CASE InstanceReady \/ InstanceGone
    BY <1>2, InstanceStep
  <1>3. CASE Crash
    BY <1>3, CrashStep
  <1>4. CASE GetBindingFails \/ GetBinding
    BY <1>4, GetBindingStep
  <1>5. CASE BindAsync \/ Bind
    BY <1>5, BindStep
  <1>6. CASE \E i \in IDs : Expire(i)
    <2>1. PICK i \in IDs : Expire(i)
        BY <1>6
    <2>2. "backup" \in Kinds /\ i \in IDsOf("backup")
        BY DEF Kinds, IDsOf
    <2> QED
        BY <2>1, <2>2, OutsideStep
  <1>7. ASSUME NEW k \in Kinds, UserDelete(k) \/ ClearPending(k) PROVE Inv'
    BY <1>7, UserStep
  <1>8. ASSUME NEW k \in Kinds, Deliver(k) PROVE Inv'
    BY <1>8, DeliverStep
  <1>9. ASSUME NEW k \in Kinds, ConnectFails(k) \/ CallFails(k) PROVE Inv'
    BY <1>9, ConnectFailsStep, CallFailsStep
  <1>10. ASSUME NEW k \in Kinds, NEW i \in IDsOf(k), Finish(k, i) \/ Fail(k, i) PROVE Inv'
    BY <1>10, OutsideStep
  <1>11. ASSUME NEW k \in Kinds, Reconcile(k) PROVE Inv'
    <2>1. CASE Observe(k)
        <3>1. CASE ObserveUnset(k) \/ ObserveNew(k)
            BY <3>1, ObserveUnsetStep, ObserveNewStep
        <3>2. CASE GetBinding \/ GetBackup \/ GetRestore
            BY <3>2, <1>4, GetBackupStep, GetRestoreStep
        <3> QED
            BY <2>1, <3>1, <3>2 DEF Observe, Kinds
    <2>2. CASE Create(k)
        BY <2>2, <1>5, CreateBackupStep, CreateRestoreStep DEF Create, Kinds
    <2>3. CASE AddFinalizer(k) \/ MarkPending(k)
        BY <2>3, AddFinalizerStep, MarkPendingStep
    <2>4. CASE Annotate(k) \/ Publish(k) \/ Delete(k)
        BY <2>4, AnnotateStep, PublishStep, DeleteStep
    <2>5. CASE RemoveFinalizer(k) \/ WriteStatus(k)
        BY <2>5, RemoveFinalizerStep, WriteStatusStep
    <2> QED
        BY <1>11, <2>1, <2>2, <2>3, <2>4, <2>5 DEF Reconcile
  <1> QED
    BY <1>1, <1>2, <1>3, <1>4, <1>5, <1>6, <1>7, <1>8, <1>9, <1>10, <1>11 DEF Next

LEMMA InvHolds == Spec => []Inv
  <1>1. Init => Inv
    BY InitInv
  <1>2. Inv /\ [Next]_vars => Inv'
    BY InvStep
  <1> QED
    BY <1>1, <1>2, PTL DEF Spec

\* Whatever users, the broker, the backup manager and the death of the provider do, every
\* field keeps its type: in particular the connection details of a ServiceBinding are
\* appended to the status at most once (initializeConnectionDetails appends without looking
\* at what is there).
THEOREM TypeCorrect == Spec => []TypeOK
  <1>1. Inv => TypeOK
    <2> SUFFICES ASSUME Inv PROVE TypeOK
        OBVIOUS
    <2>1. \A k \in Kinds : /\ res[k] \in Copy /\ cache[k] \in Copy
                           /\ fresh[k] \subseteq {"cache", "work"}
                           /\ external[k] \in [IDsOf(k) -> ExternalStates]
        BY DEF Inv, GoodKind, Good, Typed
    <2>2. Frame
        BY DEF Inv
    <2>3. res \in [Kinds -> Copy] /\ cache \in [Kinds -> Copy]
        BY <2>1, <2>2 DEF Frame, OnKinds
    <2> QED
        BY <2>1, <2>2, <2>3 DEF TypeOK, Frame, OnKinds, Copy
  <1> QED
    BY <1>1, InvHolds, PTL

\* Create of a Backup and of a Restore is called once more only for a resource that names
\* nothing: unless an answer or an annotation was lost, or a backup went by itself, the backup
\* manager has made at most one backup for a Backup and one restore for a Restore.
THEOREM MadeAtMostOnce == Spec => []CreatedOnce
  <1>1. Inv => CreatedOnce
    <2> SUFFICES ASSUME Inv, NEW k \in {"backup", "restore"} \ lost
                 PROVE  Cardinality({i \in IDs : external[k][i] # "absent"}) <= 1
        BY DEF CreatedOnce
    <2> DEFINE S == {i \in IDs : external[k][i] # "absent"}
    <2>1. k \in Kinds /\ k # "binding" /\ IDsOf(k) = IDs
        BY DEF Kinds, IDsOf
    <2>2. S = Exists(external[k])
        BY <2>1, KindFacts DEF Exists
    <2>3. \A i, j \in S : i = j
        BY <2>1, <2>2, KindFacts DEF Good, NamedExists
    <2> HIDE DEF S
    <2>4. CASE S = {}
        <3>1. Cardinality(S) = 0
            BY <2>4, FS_EmptySet
        <3> QED
            BY <3>1 DEF S
    <2>5. CASE S # {}
        <3>1. PICK x : x \in S
            BY <2>5
        <3>2. S = {x}
            BY <2>3, <3>1
        <3>3. Cardinality(S) = 1
            BY <3>2, FS_Singleton
        <3> QED
            BY <3>3 DEF S
    <2> QED
        BY <2>4, <2>5
  <1> QED
    BY <1>1, InvHolds, PTL

\* The finalizer goes only after what the resource stands for: when a ServiceBinding, Backup
\* or Restore is gone, Delete has removed the binding or the backup, and no restore is
\* running, unless the ID was lost or GetBinding failed while the binding was being deleted.
THEOREM NothingIsLeftBehind == Spec => []NothingLeftBehind
  <1>1. Inv => NothingLeftBehind
    <2> SUFFICES ASSUME Inv, NEW k \in Kinds \ (lost \cup blind), res[k] = None
                 PROVE  \A i \in IDsOf(k) : external[k][i] \notin Leftover(k)
        BY DEF NothingLeftBehind
    <2> QED
        BY KindFacts DEF Good, NothingLeft
  <1> QED
    BY <1>1, InvHolds, PTL
=============================================================================
