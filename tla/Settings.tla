------------------------------- MODULE Settings -------------------------------
(***************************************************************************)
(* What the configuration promises to its clients, whatever happens in the *)
(* file system below: one set of settings is stored, one is loaded; a      *)
(* change replaces the part it names, in both at once, and leaves the rest *)
(* alone; an edit of the file reaches the loaded settings when they are    *)
(* read again; and a loss of power can cost what is stored, never mix it.  *)
(***************************************************************************)
EXTENDS Naturals

CONSTANTS Parts,          \* what one change replaces: a title, or the values
          Content,        \* [Parts -> the contents, functions, a part can have]
          Empty,          \* [Parts -> what a part has when nothing is stored]
          NotLoaded

VARIABLES stored, loaded,
          edits, losses   \* how often the file was edited, power was lost

sVars == <<stored, loaded, edits, losses>>

IsWhole(c) == DOMAIN c = Parts /\ \A p \in Parts : c[p] \in Content[p]

SInit ==
    /\ IsWhole(stored) /\ loaded = NotLoaded
    /\ edits = 0 /\ losses = 0

\* A client's change: the part is the new one in the store and in memory, the
\* other parts of both are as they were.
Change(p) ==
    /\ UNCHANGED <<edits, losses>>
    /\ NotLoaded \notin {loaded, loaded'}
    /\ loaded'[p] \in Content[p]
    /\ loaded' = [loaded EXCEPT ![p] = loaded'[p]]
    /\ stored' = [stored EXCEPT ![p] = loaded'[p]]

\* Somebody edits the file.
Edit ==
    /\ edits' = edits + 1 /\ UNCHANGED <<loaded, losses>>
    /\ IsWhole(stored')

\* The settings are read again: all of them, or none when they cannot be read.
Drop ==
    /\ UNCHANGED <<edits, losses>>
    /\ loaded' = NotLoaded /\ stored' = stored
Read ==
    /\ UNCHANGED <<edits, losses>>
    /\ loaded = NotLoaded /\ loaded' \in {stored, Empty} /\ stored' = stored

\* Power is lost: everything stored survives, or nothing does; or, when one
\* part was all there is, some of that part.
PowerLoss ==
    /\ losses' = losses + 1 /\ edits' = edits
    /\ loaded' = NotLoaded
    /\ \/ stored' = stored
       \/ stored' = Empty
       \/ \E p \in Parts :
            /\ \A q \in Parts \ {p} : stored[q] = Empty[q]
            /\ stored' = [stored EXCEPT ![p] = stored'[p]]
            /\ \A k \in DOMAIN stored[p] :
                 stored'[p][k] \in {stored[p][k], Empty[p][k]}

SNext ==
    \/ \E p \in Parts : Change(p)
    \/ Edit \/ Drop \/ Read \/ PowerLoss

SSpec == SInit /\ [][SNext]_sVars
==============================================================================
