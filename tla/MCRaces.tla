------------------------------ MODULE MCRaces -------------------------------
(***************************************************************************)
(* Small instances of what several requests do at once: deleting documents *)
(* and their files for good, or the folders of a workspace and the         *)
(* documents in them.  A behaviour is one part's; the other stands still.  *)
(***************************************************************************)
EXTENDS Trash, TLC

CONSTANTS scan,
          Folders, Placed, Handlers, Movers   \* the folders, the documents in them, and their requests

VARIABLES part, folder, doc, change, touched

folderVars == <<folder, doc, change, touched>>
allVars == <<part, vars, folderVars>>

ASSUME NoneAssumption == None \notin Folders
ASSUME MoversAssumption == Movers \subseteq Handlers

\* One file is twice as big as the others.
MCSize == [a \in Assets |-> IF a = scan THEN 2 ELSE 1]

F == INSTANCE Folders WITH Docs <- Placed, Procs <- Handlers, req <- change, stale <- touched

MCInit == part \in {"trash", "folders"} /\ Init /\ F!Init

MCNext ==
  /\ UNCHANGED part
  /\ \/ part = "trash" /\ Next /\ UNCHANGED folderVars
     \/ part = "folders" /\ F!Next /\ UNCHANGED vars

MCSpec == MCInit /\ [][MCNext]_allVars

\* Documents, folders and requests for documents are interchangeable; of the others some may be moves.
Symmetry == Permutations(Docs) \cup Permutations(Procs) \cup Permutations(Folders)

-----------------------------------------------------------------------------
\* Properties.

\* folders.ts: a move "refuses cycles": the folders are a forest while one request at most moves them.
NoCycle == F!NoCycle

\* folders.ts: a document goes to the trash with folders only when its own folder is one of them.
OnlyInsideGoesAlong == F!OnlyInsideGoesAlong
=============================================================================
