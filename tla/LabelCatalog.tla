---------------------------- MODULE LabelCatalog ----------------------------
(***************************************************************************)
(* What workspace labels promise: one catalog of label definitions and the *)
(* labels assigned to each workspace change together, one accepted request *)
(* at a time.  The planners are those WorkspaceLabelService passes to      *)
(* WorkspaceLabelCatalogStore.commit; WorkspaceLabels uses them too and is *)
(* shown to implement this specification under crashes and failed writes.  *)
(*                                                                         *)
(*   packages/server/src/server/workspace-labels/internal/service.ts       *)
(*                                                                         *)
(* A name stands for its case-insensitive key, a definition for its color. *)
(***************************************************************************)
CONSTANTS
    Names,
    Colors,
    Workspaces,
    NoColor        \* the color of a name the catalog does not define

VARIABLES
    catalog,       \* the color of each defined label
    assigned       \* the labels of each workspace

Catalogs == [Names -> Colors \cup {NoColor}]
Assignments == [Workspaces -> SUBSET Names]

Defined(cat) == {n \in Names : cat[n] # NoColor}

-----------------------------------------------------------------------------
(* Requests and what their planners compute.                                 *)

Requests ==
    [kind : {"assign"}, ws : Workspaces, name : Names, color : Colors]
      \cup [kind : {"unassign"}, ws : Workspaces, name : Names]
      \cup [kind : {"update"}, name : Names, newName : Names, color : Colors]
      \cup [kind : {"delete", "count"}, name : Names]

\* An update names its target and the label it makes of it: keeping the name
\* or the color stands for leaving that field out.
Collides(r, cat) ==
    r.kind = "update" /\ r.newName # r.name /\ cat[r.newName] # NoColor

Missing(r, cat) == r.kind = "update" /\ cat[r.name] = NoColor

AfterCatalog(r, cat) ==
    CASE r.kind = "assign" /\ cat[r.name] = NoColor -> [cat EXCEPT ![r.name] = r.color]
      [] r.kind = "update" -> [cat EXCEPT ![r.name] = NoColor, ![r.newName] = r.color]
      [] r.kind = "delete" -> [cat EXCEPT ![r.name] = NoColor]
      [] OTHER -> cat

Renamed(r, labels) ==
    IF r.name \in labels THEN (labels \ {r.name}) \cup {r.newName} ELSE labels

\* Deleting a label forgets to rewrite one assignment.
AfterLabels_Slip(r, asg, cat) ==
    CASE r.kind = "assign" -> [asg EXCEPT ![r.ws] = @ \cup {r.name}]
      [] r.kind = "unassign" -> [asg EXCEPT ![r.ws] = @ \ {r.name}]
      [] r.kind = "update" -> [w \in Workspaces |-> Renamed(r, asg[w])]
      [] OTHER -> asg

\* Workspaces store names: a rename and a delete rewrite every assignment of
\* a label the catalog defines.
AfterLabels(r, asg, cat) ==
    CASE r.kind = "assign" -> [asg EXCEPT ![r.ws] = @ \cup {r.name}]
      [] r.kind = "unassign" -> [asg EXCEPT ![r.ws] = @ \ {r.name}]
      [] r.kind = "update" -> [w \in Workspaces |-> Renamed(r, asg[w])]
      [] r.kind = "delete" /\ cat[r.name] # NoColor ->
             [w \in Workspaces |-> asg[w] \ {r.name}]
      [] OTHER -> asg

-----------------------------------------------------------------------------
Init ==
    /\ catalog = [n \in Names |-> NoColor]
    /\ assigned = [w \in Workspaces |-> {}]

Commit(r) ==
    /\ ~Missing(r, catalog) /\ ~Collides(r, catalog)
    /\ catalog' = AfterCatalog(r, catalog)
    /\ assigned' = AfterLabels(r, assigned, catalog)

\* A workspace leaves the registry, and its labels with it.
Drop(w) ==
    /\ assigned' = [assigned EXCEPT ![w] = {}]
    /\ UNCHANGED catalog

Next ==
    \/ \E r \in Requests : Commit(r)
    \/ \E w \in Workspaces : Drop(w)

Spec == Init /\ [][Next]_<<catalog, assigned>>

\* Every label a workspace carries is defined: no rename, delete or half-done
\* commit leaves a workspace with a name the catalog does not know.
AssignedIsDefined == \A w \in Workspaces : assigned[w] \subseteq Defined(catalog)
=============================================================================
