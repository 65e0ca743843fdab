--------------------------- MODULE ClusterScoped ---------------------------
(***************************************************************************)
(* How the syncer names a cluster-scoped object.  Copies of many consumer  *)
(* clusters share the cluster scope of the provider, so that a copy is     *)
(* named after the provider namespace of its cluster, the "cluster         *)
(* namespace", and is marked with it by an annotation and an owner         *)
(* reference.  The controllers translate every object they read and write, *)
(* and take a provider object for theirs if its name begins with the       *)
(* namespace and a dash.                                                   *)
(*                                                                         *)
(* A name is a sequence of characters.  Nothing moves here: the module     *)
(* holds the translation, and SyncerProofs what can be proved of it.       *)
(***************************************************************************)
EXTENDS Naturals, Sequences

CONSTANTS
    Char,   \* the characters of names, among them
    Dash,   \* the dash
    UIDs,   \* UIDs of namespaces
    None    \* no annotation, or an error

Name == Seq(Char)

Owner == [kind : {"Namespace", "other"}, name : Name, uid : UIDs]

Unstructured == [name : Name, clusterNs : Name \cup {None}, owners : Seq(Owner)]

-----------------------------------------------------------------------------
(* Names.                                                                  *)

Prepend(name, clusterNs) == (clusterNs \o <<Dash>>) \o name

\* strings.HasPrefix.
HasPrefix(s, prefix) ==
    Len(prefix) <= Len(s) /\ \A j \in 1..Len(prefix) : s[j] = prefix[j]

\* A name that does not begin with the namespace stays as it is.
Behead(name, clusterNs) ==
    IF HasPrefix(name, clusterNs \o <<Dash>>)
      THEN SubSeq(name, Len(clusterNs) + 2, Len(name))
      ELSE name

\* enqueueProvider: the controllers of clusterNs take the provider object for theirs.
IsOwnKey(key, clusterNs) == Behead(key, clusterNs) # key

-----------------------------------------------------------------------------
(* Objects.                                                                *)

Reference(clusterNs, uid) == [kind |-> "Namespace", name |-> clusterNs, uid |-> uid]

RefersTo(owner, clusterNs) == owner.kind = "Namespace" /\ owner.name = clusterNs

Referring(owners, clusterNs) == {j \in 1..Len(owners) : RefersTo(owners[j], clusterNs)}

\* The first owner reference to the namespace.
findOwnerReferenceToClusterNs(owners, clusterNs) ==
    CHOOSE j \in Referring(owners, clusterNs) :
        \A k \in Referring(owners, clusterNs) : j <= k

InjectClusterNs(obj, clusterNs, uid) ==
    [obj EXCEPT !.clusterNs = clusterNs,
                !.owners = IF Referring(@, clusterNs) = {}
                             THEN Append(@, Reference(clusterNs, uid)) ELSE @]

\* The last reference takes the place of the one that goes.
WithoutReference(owners, clusterNs) ==
    IF Referring(owners, clusterNs) = {} THEN owners
    ELSE SubSeq([owners EXCEPT ![findOwnerReferenceToClusterNs(owners, clusterNs)]
                                  = owners[Len(owners)]],
                1, Len(owners) - 1)

ClearClusterNs(obj, clusterNs) ==
    [name |-> obj.name, clusterNs |-> None, owners |-> WithoutReference(obj.owners, clusterNs)]

SwitchToUpstreamName(obj, clusterNs) == [obj EXCEPT !.name = Prepend(@, clusterNs)]
SwitchToDownstreamName(obj, clusterNs) == [obj EXCEPT !.name = Behead(@, clusterNs)]

\* The annotation, or an error.
ExtractClusterNs(obj) == obj.clusterNs

\* An object of another namespace is an error.
TranslateFromDownstream(obj, clusterNs, uid) ==
    IF obj.clusterNs \in {None, clusterNs}
      THEN SwitchToUpstreamName(InjectClusterNs(obj, clusterNs, uid), clusterNs)
      ELSE None

TranslateFromUpstream(obj) ==
    LET clusterNs == ExtractClusterNs(obj) IN
    IF clusterNs # None
      THEN SwitchToDownstreamName(ClearClusterNs(obj, clusterNs), clusterNs)
      ELSE None
=============================================================================
