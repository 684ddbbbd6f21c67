-------------------------- MODULE LifecycleQueries --------------------------
(***************************************************************************)
(* What the queries of AgentLifecycle may miss.  Get looks for a container *)
(* and then for data; List(includeArchived) looks for containers, then for *)
(* directories, then for a document in each of them.  Every look is at     *)
(* another moment, while Creates and Deletes go on.  A history variable,   *)
(* which no handler reads, keeps for each query the deployments that have  *)
(* existed ever since it came.                                             *)
(***************************************************************************)
EXTENDS AgentLifecycle

VARIABLE lasting    \* by request: deployments its answer must not miss

queryVars == <<containers, disk, req, lasting>>

QueryOps == {"get", "listArchived"}

(* Deployments with a container or with data.                              *)
Existing == {k \in Keys : LiveOf(k) # {} \/ HasDoc(k)}

(* The one deployment whose document this step of r failed to stat.        *)
Hidden(r) ==
    {k \in Keys :
        /\ Faults /\ HasDoc(k)
        /\ \/ At(r, "stat") /\ k = req[r].key /\ req'[r].reply = "notFound"
           \/ /\ At(r, "statDirs") /\ k \in req[r].left
              /\ req'[r].left = req[r].left \ {k} /\ k \notin req'[r].seen}

(* What has existed from the query's arrival to this step, its stat calls  *)
(* willing.                                                                *)
Still(r) == (lasting[r] \cap Existing') \ Hidden(r)

Remember ==
    lasting' = [r \in Requests |-> IF req'[r].op \notin QueryOps THEN {}
                                   ELSE IF InFlight(r) THEN Still(r)
                                   ELSE Existing']

QuerySpec ==
    /\ Init /\ lasting = [r \in Requests |-> {}]
    /\ [][SerialNext /\ Remember]_queryVars

-----------------------------------------------------------------------------
(* A reply "not found" to Get, and a key left out of the answer to         *)
(* List(includeArchived), are never about a deployment that has existed,   *)
(* as a container or as data, from the query's arrival to its answer,      *)
(* except one whose own stat failed: a directory that cannot be read hides *)
(* itself and no other ("one bad deployment directory does not break the   *)
(* whole listing"), and a Create, a rebuild or a Delete that runs between  *)
(* two looks never moves a deployment from one look to the other.          *)
NothingHidden ==
    [][\A r \in Requests :
         /\ At(r, "stat") /\ req'[r].reply = "notFound" => req[r].key \notin Still(r)
         /\ req[r].pc \in {"listDirs", "statDirs"} /\ req'[r].reply = "listed"
              => Still(r) \subseteq req'[r].seen]_queryVars
=============================================================================
