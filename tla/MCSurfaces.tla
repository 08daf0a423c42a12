----------------------------- MODULE MCSurfaces -----------------------------
(* The writes of the API, the catalog of job files and the watches of one    *)
(* entry.  A behaviour moves one of the three.                               *)
EXTENDS ApiWrites, JobCatalog, EntryWatch, TLC

(* Two texts, of which the second names the reference file, two              *)
(* configurations, of which the second suits only the second text, and two   *)
(* versions of the reference file.                                           *)
MCValid == {<<1, 1, 0>>, <<2, 1, 1>>, <<2, 2, 1>>, <<2, 2, 2>>}
ThreadSymmetry == Permutations(Threads)

(* Two job files: the second one is called J0001.yaml.                       *)
MCFiles == {1, 2}
MCConfig == 3
MCWords == {"J0001", "J0002", "J0001.yaml"}
MCExactFile == [w \in MCWords |-> IF w = "J0001.yaml" THEN {2} ELSE {}]
MCStemFiles == [w \in MCWords |-> IF w = "J0001" THEN {2} ELSE {}]
MCWordNumber == [w \in MCWords |-> CASE w = "J0001" -> 1 [] w = "J0002" -> 2 [] OTHER -> 0]

VARIABLE part

SurfacesInit ==
    /\ part \in {"writes", "catalog", "watch"}
    /\ ApiInit /\ (part # "writes" => jobFile = 0)
    /\ CatalogInit
    /\ WatchInit /\ (part # "watch" => client = NewClient("cli"))

SurfacesNext ==
    /\ UNCHANGED part
    /\ \/ part = "writes" /\ ApiNext /\ UNCHANGED <<catalogVars, watchVars>>
       \/ part = "catalog" /\ CatalogNext /\ UNCHANGED <<apiVars, watchVars>>
       \/ part = "watch" /\ WatchNext /\ UNCHANGED <<apiVars, catalogVars>>

SurfacesSpec == SurfacesInit /\ [][SurfacesNext]_<<part, apiVars, catalogVars, watchVars>>
=============================================================================
